---------------------------- MODULE StreamServer ----------------------------
(***************************************************************************)
(* The stream Server (internal/stream/stream.go): Listen, Start and Stop,  *)
(* the accept loop, the TCP connections it hands out, and the health       *)
(* checker of the upstream.  One TCP and one UDP listener, one upstream.   *)
(* What happens inside a UDP server is StreamUDP; here its two goroutines  *)
(* only live and end.                                                      *)
(***************************************************************************)
EXTENDS Integers, FiniteSets

CONSTANTS
    Conns,       \* TCP connections of clients; a finished one may come again
    Targets,
    Checked,     \* TRUE iff the upstream has a health checker
    StreamStarts,   \* bound: the calls of Start, and of Listen
    StreamNone

ASSUME ServerAssumption ==
    /\ IsFiniteSet(Conns) /\ StreamNone \notin Targets
    /\ Checked \in BOOLEAN /\ StreamStarts \in Nat \ {0}

VARIABLES
    streamRunning, stopCh,  \* the flag; "open" or "closed"
    tcp, udp,               \* the listeners in the maps: "none", "open", "closed"
    starting, starts,       \* Start is past its CAS; how many calls there were
    stopping,               \* where Stop is: "no", "close", "wait", "reset"
    gen,                    \* how many pairs of listeners there have been
    accepting,              \* the listeners whose acceptLoop is running
    udpLoops,               \* those whose serve or cleanup ticker is running
    checker, checkerCh,     \* the checker goroutine runs; its stopCh
    panicked,               \* a closed channel was closed again
    connCount, conns,       \* Server.connCount; per target Target.conns
    healthy,                \* per target
    pc, target, copying     \* per connection; copying: the directions alive

lvars == <<streamRunning, stopCh, tcp, udp, starting, starts, stopping>>
gvars == <<gen, accepting, udpLoops, checker, checkerCh, panicked>>
cvars == <<connCount, conns, pc, target, copying>>
streamVars == <<lvars, gvars, cvars, healthy>>

\* After NewServer and AddUpstream, which starts the health checker.
StreamInit ==
    /\ streamRunning = FALSE /\ stopCh = "open"
    /\ tcp = "none" /\ udp = "none"
    /\ starting = FALSE /\ starts = 0 /\ stopping = "no"
    /\ gen = 0 /\ accepting = {} /\ udpLoops = {}
    /\ checker = Checked /\ checkerCh = "open" /\ panicked = FALSE
    /\ connCount = 0 /\ conns = [t \in Targets |-> 0]
    /\ healthy = [t \in Targets |-> TRUE]
    /\ pc = [c \in Conns |-> "none"]
    /\ target = [c \in Conns |-> StreamNone]
    /\ copying = [c \in Conns |-> {}]

-----------------------------------------------------------------------------
(* Listen, Start, Stop *)

\* ListenTCP and ListenUDP: the configuration calls them before Start.
Listen ==
    /\ ~starting /\ stopping = "no" /\ ~panicked
    /\ ~streamRunning /\ tcp = "none" /\ gen < StreamStarts
    /\ tcp' = "open" /\ udp' = "open" /\ gen' = gen + 1
    /\ UNCHANGED <<streamRunning, stopCh, starting, starts, stopping, accepting, udpLoops,
                   checker, checkerCh, panicked, cvars, healthy>>

\* The CAS of Start; the app calls it from a goroutine of its own.
StartSwap ==
    /\ ~starting /\ ~streamRunning /\ stopping = "no" /\ ~panicked
    /\ tcp = "open" /\ starts < StreamStarts
    /\ streamRunning' = TRUE /\ starting' = TRUE /\ starts' = starts + 1
    /\ UNCHANGED <<stopCh, tcp, udp, stopping, gvars, cvars, healthy>>

\* The rest of Start, under the read lock: one goroutine per listener in the
\* map, open or not.
StartBody ==
    /\ starting
    /\ starting' = FALSE
    /\ accepting' = IF tcp # "none" THEN accepting \cup {gen} ELSE accepting
    /\ udpLoops' = IF udp # "none" THEN udpLoops \cup {gen} ELSE udpLoops
    /\ UNCHANGED <<streamRunning, stopCh, tcp, udp, starts, stopping, gen, checker,
                   checkerCh, panicked, cvars, healthy>>

\* The CAS of Stop and close(s.stopCh); a server that is not running
\* is left as it is.
StopSwap ==
    /\ stopping = "no" /\ ~panicked
    /\ streamRunning
    /\ streamRunning' = FALSE /\ stopCh' = "closed" /\ stopping' = "close"
    /\ UNCHANGED <<tcp, udp, starting, starts, gvars, cvars, healthy>>

\* Mutant of StopClose: the TCP listener is left open.
StopCloseKeepsListener ==
    /\ stopping = "close"
    /\ stopping' = "wait"
    /\ udp' = IF udp = "open" THEN "closed" ELSE udp
    /\ UNCHANGED <<streamRunning, stopCh, tcp, starting, starts, gvars, cvars,
                   healthy>>

\* The critical section of Stop: the listeners, the UDP servers and, for each
\* upstream, the stopCh of its health checker.
StopClose ==
    /\ stopping = "close"
    /\ stopping' = "wait"
    /\ tcp' = IF tcp = "open" THEN "closed" ELSE tcp
    /\ udp' = IF udp = "open" THEN "closed" ELSE udp
    /\ IF Checked /\ checkerCh = "closed"
       THEN panicked' = TRUE /\ UNCHANGED checkerCh
       ELSE checkerCh' = (IF Checked THEN "closed" ELSE checkerCh) /\ UNCHANGED panicked
    /\ UNCHANGED <<streamRunning, stopCh, starting, starts, gen,
                   accepting, udpLoops, checker, cvars, healthy>>

\* s.wg.Wait()
StopWait ==
    /\ stopping = "wait" /\ ~panicked
    /\ accepting = {} /\ udpLoops = {}
    /\ stopping' = "reset"
    /\ UNCHANGED <<streamRunning, stopCh, tcp, udp, starting, starts, gvars,
                   cvars, healthy>>

StopReset ==
    /\ stopping = "reset"
    /\ stopping' = "no"
    /\ tcp' = "none" /\ udp' = "none" /\ stopCh' = "open"
    /\ UNCHANGED <<streamRunning, starting, starts, gvars, cvars, healthy>>

-----------------------------------------------------------------------------
(* The goroutines of the listeners and the health checker *)

\* Accept returned a connection: the count, a goroutine for it, and the loop
\* condition.
Accept(c) ==
    /\ gen \in accepting /\ tcp = "open" /\ pc[c] = "none"
    /\ connCount' = connCount + 1
    /\ pc' = [pc EXCEPT ![c] = "select"]
    /\ accepting' = IF streamRunning THEN accepting ELSE accepting \ {gen}
    /\ UNCHANGED <<lvars, gen, udpLoops, checker, checkerCh, panicked, conns, target,
                   copying, healthy>>

\* Accept fails on the closed listener of a server that is stopping.  Other
\* errors of Accept go round the loop.
AcceptEnds(g) ==
    /\ g \in accepting /\ (g # gen \/ tcp # "open")
    /\ ~streamRunning \/ stopCh = "closed"
    /\ accepting' = accepting \ {g}
    /\ UNCHANGED <<lvars, gen, udpLoops, checker, checkerCh, panicked, cvars, healthy>>

\* Both loops of a UDP server return once its stopCh is closed.
UDPLoopsEnd(g) ==
    /\ g \in udpLoops /\ (g # gen \/ udp # "open")
    /\ udpLoops' = udpLoops \ {g}
    /\ UNCHANGED <<lvars, gen, accepting, checker, checkerCh, panicked, cvars, healthy>>

\* One target of a round of HealthChecker.check
Check(t) ==
    /\ checker
    /\ \E up \in BOOLEAN : healthy' = [healthy EXCEPT ![t] = up]
    /\ UNCHANGED <<lvars, gvars, cvars>>

CheckerEnds ==
    /\ checker /\ checkerCh = "closed"
    /\ checker' = FALSE
    /\ UNCHANGED <<lvars, gen, accepting, udpLoops, checkerCh, panicked, cvars, healthy>>

-----------------------------------------------------------------------------
(* handleConnection *)

\* upstream.Select, and the count on the target
SelectTarget(c) ==
    /\ pc[c] = "select"
    /\ \E t \in Targets :
          /\ healthy[t]
          /\ target' = [target EXCEPT ![c] = t]
          /\ conns' = [conns EXCEPT ![t] = @ + 1]
    /\ pc' = [pc EXCEPT ![c] = "dial"]
    /\ UNCHANGED <<lvars, gvars, connCount, copying, healthy>>

\* No target: the deferred close and count, nothing else.
NoTarget(c) ==
    /\ pc[c] = "select" /\ \A t \in Targets : ~healthy[t]
    /\ pc' = [pc EXCEPT ![c] = "none"]
    /\ connCount' = connCount - 1
    /\ UNCHANGED <<lvars, gvars, conns, target, copying, healthy>>

Dialled(c) ==
    /\ pc[c] = "dial"
    /\ pc' = [pc EXCEPT ![c] = "copy"]
    /\ copying' = [copying EXCEPT ![c] = {"up", "down"}]
    /\ UNCHANGED <<lvars, gvars, connCount, conns, target, healthy>>

\* The deferred functions of handleConnection
Finish(c) ==
    /\ pc' = [pc EXCEPT ![c] = "none"]
    /\ target' = [target EXCEPT ![c] = StreamNone]
    /\ conns' = [conns EXCEPT ![target[c]] = @ - 1]
    /\ connCount' = connCount - 1

\* Mutant of DialFails: an early return before the deferred count is set up.
DialFailsKeepsCount(c) ==
    /\ pc[c] = "dial"
    /\ healthy' = [healthy EXCEPT ![target[c]] = FALSE]
    /\ pc' = [pc EXCEPT ![c] = "none"]
    /\ target' = [target EXCEPT ![c] = StreamNone]
    /\ connCount' = connCount - 1
    /\ UNCHANGED <<lvars, gvars, conns, copying>>

\* The target is marked and stays so: only a health checker clears it.
DialFails(c) ==
    /\ pc[c] = "dial"
    /\ healthy' = [healthy EXCEPT ![target[c]] = FALSE]
    /\ Finish(c)
    /\ UNCHANGED <<lvars, gvars, copying>>

\* io.Copy of one direction ends, on its own or because the other one closed
\* both connections; the last one lets wg.Wait return.
CopyEnds(c, d) ==
    /\ pc[c] = "copy" /\ d \in copying[c]
    /\ copying' = [copying EXCEPT ![c] = @ \ {d}]
    /\ IF copying[c] = {d} THEN Finish(c) ELSE UNCHANGED <<pc, target, conns, connCount>>
    /\ UNCHANGED <<lvars, gvars, healthy>>

HandleConnection(c) ==
    \/ SelectTarget(c) \/ NoTarget(c) \/ Dialled(c) \/ DialFails(c)
    \/ \E d \in {"up", "down"} : CopyEnds(c, d)

StreamNext ==
    \/ Listen \/ StartSwap \/ StartBody
    \/ StopSwap \/ StopClose \/ StopWait \/ StopReset
    \/ \E g \in 1..StreamStarts : AcceptEnds(g) \/ UDPLoopsEnd(g)
    \/ CheckerEnds
    \/ \E t \in Targets : Check(t)
    \/ \E c \in Conns : Accept(c) \/ HandleConnection(c)

StreamSpec == StreamInit /\ [][StreamNext]_streamVars

\* The goroutines run.  A copy may last for ever, but once one direction has
\* ended both connections are closed and the other ends too.
StreamFairness ==
    /\ WF_streamVars(StartBody) /\ WF_streamVars(CheckerEnds)
    /\ WF_streamVars(StopClose \/ StopWait \/ StopReset)
    /\ \A g \in 1..StreamStarts :
          WF_streamVars(AcceptEnds(g)) /\ WF_streamVars(UDPLoopsEnd(g))
    /\ \A c \in Conns :
          WF_streamVars(HandleConnection(c) /\ copying[c] # {"up", "down"})

StreamFairSpec == StreamSpec /\ StreamFairness

-----------------------------------------------------------------------------
(* Properties *)

StreamTypeOK ==
    /\ streamRunning \in BOOLEAN /\ stopCh \in {"open", "closed"}
    /\ tcp \in {"none", "open", "closed"} /\ udp \in {"none", "open", "closed"}
    /\ starting \in BOOLEAN /\ starts \in 0..StreamStarts
    /\ stopping \in {"no", "close", "wait", "reset"}
    /\ gen \in 0..StreamStarts
    /\ accepting \subseteq 1..StreamStarts /\ udpLoops \subseteq 1..StreamStarts
    /\ checker \in BOOLEAN /\ checkerCh \in {"open", "closed"}
    /\ panicked \in BOOLEAN
    /\ connCount \in Nat /\ conns \in [Targets -> Nat]
    /\ healthy \in [Targets -> BOOLEAN]
    /\ pc \in [Conns -> {"none", "select", "dial", "copy"}]
    /\ target \in [Conns -> Targets \cup {StreamNone}]
    /\ copying \in [Conns -> SUBSET {"up", "down"}]

\* Stats().Connections and the count least_conn decides by are exact, through
\* failed dials, connections that outlive Stop and restarts
\* (stream.go:588,607,630).
ConnsExact ==
    /\ StreamTypeOK
    /\ connCount = Cardinality({c \in Conns : pc[c] # "none"})
    /\ \A t \in Targets : conns[t] = Cardinality({c \in Conns : target[c] = t})

\* Whatever is to end does: Stop, once it is past its CAS, returns whenever it is
\* called, for no goroutine it waits for can be stuck in Accept, in ReadFromUDP or
\* on a lock; and when one side of a TCP connection ends, the connection is
\* released (stream.go:555,640-654).
StreamEnds ==
    /\ []<>(stopping = "no" \/ panicked)
    /\ \A c \in Conns : []<>(pc[c] = "copy" => copying[c] = {"up", "down"})
=============================================================================
