-------------------------------- MODULE App --------------------------------
(***************************************************************************)
(* The life of the lolly processes: App.Run and its signals                *)
(* (internal/app/app.go), the start and the stop of an HTTP server         *)
(* (internal/server/server.go, lifecycle.go), the reload of SIGHUP, which  *)
(* starts a second server in the process, and the upgrade of SIGUSR2,      *)
(* which starts a second process (upgrade.go).                             *)
(*                                                                         *)
(* All servers listen on one address: the kernel has one socket for it,    *)
(* which lives while any process holds a descriptor of it.  The stream     *)
(* server has one address of its own.  tlsManager is never assigned        *)
(* (server.go:263), so initHTTP2 and initHTTP3 start nothing.              *)
(***************************************************************************)
EXTENDS Integers, FiniteSets

CONSTANTS
    MaxProcs,     \* bound: processes, that is upgrades plus one
    MaxReloads    \* bound: reloads that get as far as a new server

ASSUME AppAssumption == MaxProcs \in Nat \ {0} /\ MaxReloads \in Nat

Procs == 1..MaxProcs
Gens == 0..MaxReloads

VARIABLES
    multi,      \* the mode: several servers, or one (vhost starts like one)
    proc,       \* per process: where Run is
    phase,      \* per server: how far it has come
    saved,      \* per server: s.listeners has an open listener
    asked,      \* per server: a stop of it has been asked for, or has returned
    cur, last,  \* per process: a.srv; the newest server
    stream,     \* per process: the listener of the stream server
    retired,    \* history, per process: a stop or an upgrade has been asked for
    early       \* history, per process: a.srv was replaced before it served

svars == <<phase, saved, asked>>
pvars == <<proc, cur, last, stream>>
hvars == <<retired, early>>
appVars == <<multi, svars, pvars, hvars>>

\* Run of the first process up to its main loop is Boot(1).
AppInit ==
    /\ multi \in BOOLEAN
    /\ proc = [p \in Procs |-> IF p = 1 THEN "boot" ELSE "none"]
    /\ phase = [p \in Procs |-> [g \in Gens |-> "none"]]
    /\ saved = [p \in Procs |-> [g \in Gens |-> FALSE]]
    /\ asked = [p \in Procs |-> [g \in Gens |-> "no"]]
    /\ cur = [p \in Procs |-> 0] /\ last = [p \in Procs |-> 0]
    /\ stream = [p \in Procs |-> "none"]
    /\ retired = [p \in Procs |-> FALSE] /\ early = [p \in Procs |-> FALSE]

\* The servers that were started by a reload.
Reloads == {s \in Procs \X Gens : s[2] \in 1..last[s[1]]}
SetPhase(p, g, f) == phase' = [phase EXCEPT ![p][g] = f]
AppGoto(p, label) == proc' = [proc EXCEPT ![p] = label]

\* The phases in which Serve accepts connections.  cleanupResources runs before
\* Shutdown closes the listener.
Accepting == {"serving", "cleaned"}

\* Server g of p holds a descriptor of the socket: the one it accepts on, or
\* the inherited or duplicated ones it has not used yet.
Holds(p, g) ==
    \/ phase[p][g] \in Accepting
    \/ phase[p][g] \in {"starting", "failed"} /\ saved[p][g]

\* A booting child has the descriptors it was started with.
SocketOpen ==
    \E p \in Procs : (proc[p] = "boot" /\ p > 1) \/ \E g \in Gens : Holds(p, g)

-----------------------------------------------------------------------------
(* Run *)

\* return: the process takes everything with it.
AppExit(p) ==
    /\ AppGoto(p, "exited")
    /\ phase' = [phase EXCEPT ![p] = [g \in Gens |->
                    IF @[g] = "none" THEN "none" ELSE "gone"]]
    /\ saved' = [saved EXCEPT ![p] = [g \in Gens |-> FALSE]]
    /\ asked' = [asked EXCEPT ![p] = [g \in Gens |-> "no"]]
    /\ stream' = [stream EXCEPT ![p] = "none"]

\* loadAndValidateConfig fails; a child is started without the arguments of its
\* parent and reads the configuration at the default path.
BootFails(p) ==
    /\ proc[p] = "boot"
    /\ AppExit(p)
    /\ UNCHANGED <<multi, cur, last, hvars>>

\* inheritListeners, initServer, initStreamServers, the goroutine of Start.
\* ListenTCP fails, with a message only, while another process has the address.
Boot(p) ==
    /\ proc[p] = "boot"
    /\ AppGoto(p, "loop")
    /\ SetPhase(p, 0, "starting")
    /\ saved' = [saved EXCEPT ![p][0] = (p > 1)]
    /\ stream' = [stream EXCEPT ![p] =
                     IF \E q \in Procs : stream[q] = "open" THEN "failed" ELSE "open"]
    /\ UNCHANGED <<multi, asked, cur, last, hvars>>

\* createListener finds a listener it was given or binds the address.  Several
\* servers: startMultiServerMode empties s.listeners first, and only the first
\* server of a child asks the upgrade manager.
Inherits(p, g) == IF multi THEN p > 1 /\ g = 0 ELSE saved[p][g]

CanListen(p, g) ==
    \/ Inherits(p, g)
    \/ ~ \E q \in Procs : (proc[q] = "boot" /\ q > 1)
                          \/ \E h \in Gens : <<q, h>> # <<p, g>> /\ Holds(q, h)

\* Start: handlers, middleware, listener, TLS, then Serve
StartServes(p, g) ==
    /\ phase[p][g] = "starting" /\ CanListen(p, g)
    /\ SetPhase(p, g, "serving")
    /\ saved' = [saved EXCEPT ![p][g] = TRUE]
    /\ UNCHANGED <<multi, asked, pvars, hvars>>

\* Start returns an error.  With several servers the listeners are closed; one
\* server leaves those it was given.
StartFails(p, g) ==
    /\ phase[p][g] = "starting"
    /\ SetPhase(p, g, "failed")
    /\ saved' = [saved EXCEPT ![p][g] = @ /\ ~multi]
    /\ UNCHANGED <<multi, asked, pvars, hvars>>

\* errChan: Run returns when the server it started itself has failed, even if a
\* reload has replaced it.  Nobody reads the error of a reloaded server after
\* the reload timeout.
GiveUp(p) ==
    /\ proc[p] = "loop" /\ phase[p][0] = "failed"
    /\ AppExit(p)
    /\ UNCHANGED <<multi, cur, last, hvars>>

-----------------------------------------------------------------------------
(* GracefulStop and StopWithTimeout *)

SetAsked(p, g, a) == asked' = [asked EXCEPT ![p][g] = a]
AskStop(p, g) == SetAsked(p, g, "asked")

\* GracefulStop finds no fasthttp server, or one without a listener, and
\* returns: a server that is still starting serves all the same, for ever.
StopMisses(p, g) ==
    /\ asked[p][g] = "asked"
    /\ phase[p][g] \notin {"serving", "cleaned", "draining"}
    /\ SetAsked(p, g, "returned")
    /\ UNCHANGED <<multi, phase, saved, pvars, hvars>>

\* cleanupResources, while Serve goes on accepting.
Clean(p, g) ==
    /\ asked[p][g] = "asked" /\ phase[p][g] = "serving"
    /\ SetPhase(p, g, "cleaned")
    /\ UNCHANGED <<multi, saved, asked, pvars, hvars>>

\* Shutdown closes the listener and waits for the connections.
Shutdown(p, g) ==
    /\ phase[p][g] = "cleaned"
    /\ SetPhase(p, g, "draining")
    /\ saved' = [saved EXCEPT ![p][g] = FALSE]
    /\ UNCHANGED <<multi, asked, pvars, hvars>>

\* Shutdown returns when the last request has, or the timeout comes first.
Drained(p, g) ==
    /\ phase[p][g] = "draining"
    /\ SetPhase(p, g, "stopped") \/ SetPhase(p, g, "abandoned")
    /\ SetAsked(p, g, "returned")
    /\ UNCHANGED <<multi, saved, pvars, hvars>>

StopReturned(p, g) == asked[p][g] = "returned"

StopStream(p) ==
    stream' = [stream EXCEPT ![p] = IF @ = "open" THEN "closed" ELSE @]

-----------------------------------------------------------------------------
(* Signals: each is handled to its end before the next is read *)

\* SIGQUIT, SIGTERM, SIGINT
StopSignal(p) ==
    /\ proc[p] = "loop"
    /\ AppGoto(p, "stopping")
    /\ StopStream(p) /\ AskStop(p, cur[p])
    /\ retired' = [retired EXCEPT ![p] = TRUE]
    /\ UNCHANGED <<multi, phase, saved, cur, last, early>>

AppStopDone(p) ==
    /\ proc[p] = "stopping" /\ StopReturned(p, cur[p])
    /\ AppExit(p)
    /\ UNCHANGED <<multi, cur, last, hvars>>

\* SIGHUP with a configuration that loads, for the same address and mode, while
\* a.srv has listeners to duplicate.  Any other SIGHUP changes nothing.
Reload(p) ==
    /\ proc[p] = "loop" /\ Cardinality(Reloads) < MaxReloads
    /\ saved[p][cur[p]] /\ phase[p][cur[p]] \in {"starting", "serving", "failed"}
    /\ last' = [last EXCEPT ![p] = @ + 1]
    /\ SetPhase(p, last[p] + 1, "starting")
    /\ saved' = [saved EXCEPT ![p][last[p] + 1] = TRUE]
    /\ AppGoto(p, "reload")
    /\ UNCHANGED <<multi, asked, cur, stream, hvars>>

\* startErr: the duplicates are closed and a.srv stays.
ReloadFails(p) ==
    /\ proc[p] = "reload" /\ phase[p][last[p]] = "failed"
    /\ saved' = [saved EXCEPT ![p][last[p]] = FALSE]
    /\ AppGoto(p, "loop")
    /\ UNCHANGED <<multi, phase, asked, cur, last, stream, hvars>>

\* Mutant of ReloadTimeout: a.srv is not the server that is stopped afterwards.
ReloadTimeoutStopsNew(p) ==
    /\ proc[p] = "reload"
    /\ cur' = [cur EXCEPT ![p] = last[p]]
    /\ AskStop(p, last[p])
    /\ early' = [early EXCEPT ![p] = @ \/ phase[p][last[p]] # "serving"]
    /\ AppGoto(p, "loop")
    /\ UNCHANGED <<multi, phase, saved, last, stream, retired>>

\* time.After(reloadTimeout): no error so far is taken for success.  The old
\* server is stopped by a goroutine of its own.
ReloadTimeout(p) ==
    /\ proc[p] = "reload"
    /\ cur' = [cur EXCEPT ![p] = last[p]]
    /\ AskStop(p, cur[p])
    /\ early' = [early EXCEPT ![p] = @ \/ phase[p][last[p]] # "serving"]
    /\ AppGoto(p, "loop")
    /\ UNCHANGED <<multi, phase, saved, last, stream, retired>>

\* Mutant of Upgrade: the parent stops before the child has been started.
UpgradeLate(p) ==
    /\ proc[p] = "loop" /\ p < MaxProcs /\ proc[p + 1] = "none"
    /\ saved[p][cur[p]] /\ phase[p][cur[p]] \in {"starting", "serving", "failed"}
    /\ AppGoto(p, "upgrading")
    /\ StopStream(p) /\ AskStop(p, cur[p])
    /\ retired' = [retired EXCEPT ![p] = TRUE]
    /\ UNCHANGED <<multi, phase, saved, cur, last, early>>

\* SIGUSR2: GracefulUpgrade starts the child with the descriptors; then the
\* parent stops its servers without waiting for the child.
Upgrade(p) ==
    /\ proc[p] = "loop" /\ p < MaxProcs /\ proc[p + 1] = "none"
    /\ saved[p][cur[p]] /\ phase[p][cur[p]] \in {"starting", "serving", "failed"}
    /\ proc' = [proc EXCEPT ![p] = "upgrading", ![p + 1] = "boot"]
    /\ StopStream(p) /\ AskStop(p, cur[p])
    /\ retired' = [retired EXCEPT ![p] = TRUE]
    /\ UNCHANGED <<multi, phase, saved, cur, last, early>>

\* handleSignal returns true: the parent goes back to its loop.
UpgradeDone(p) ==
    /\ proc[p] = "upgrading" /\ StopReturned(p, cur[p])
    /\ AppGoto(p, "loop")
    /\ UNCHANGED <<multi, svars, cur, last, stream, hvars>>

Server(p, g) == StartServes(p, g) \/ StartFails(p, g) \/ StopMisses(p, g)
                \/ Clean(p, g) \/ Shutdown(p, g) \/ Drained(p, g)
Handler(p) == GiveUp(p) \/ ReloadFails(p) \/ ReloadTimeout(p) \/ AppStopDone(p)
              \/ UpgradeDone(p)
Signal(p) == StopSignal(p) \/ Reload(p) \/ Upgrade(p)

AppNext ==
    \E p \in Procs :
        \/ Boot(p) \/ BootFails(p) \/ Signal(p) \/ Handler(p)
        \/ \E g \in Gens : Server(p, g)

AppSpec == AppInit /\ [][AppNext]_appVars

\* Processes and goroutines run, and every wait of a signal handler or of a
\* server is bounded by a timeout.  Nothing is assumed of signals and clients.
AppFairness ==
    /\ \A p \in Procs : /\ WF_appVars(Boot(p) \/ BootFails(p))
                        /\ WF_appVars(Handler(p))
    /\ \A p \in Procs, g \in Gens : WF_appVars(Server(p, g))

AppFairSpec == AppSpec /\ AppFairness

-----------------------------------------------------------------------------
(* Properties *)

Phases == {"none", "starting", "serving", "cleaned", "draining", "stopped",
           "abandoned", "failed", "gone"}

AppTypeOK ==
    /\ multi \in BOOLEAN
    /\ proc \in [Procs -> {"none", "boot", "loop", "reload", "stopping",
                           "upgrading", "exited"}]
    /\ phase \in [Procs -> [Gens -> Phases]]
    /\ saved \in [Procs -> [Gens -> BOOLEAN]]
    /\ asked \in [Procs -> [Gens -> {"no", "asked", "returned"}]]
    /\ cur \in [Procs -> Gens] /\ last \in [Procs -> Gens]
    /\ \A p \in Procs : cur[p] <= last[p]
    /\ stream \in [Procs -> {"none", "open", "closed", "failed"}]
    /\ retired \in [Procs -> BOOLEAN] /\ early \in [Procs -> BOOLEAN]

\* CHANGELOG.md:52: a reload does not interrupt the service.  As long as every
\* new server serves within reload_timeout, a.srv serves at every moment of
\* every reload, successful or not, until a stop or an upgrade is asked for
\* (app.go:170-263).
ReloadKeepsServing ==
    \A p \in Procs :
        proc[p] \in {"loop", "reload"} /\ ~retired[p] /\ ~early[p] =>
            \/ phase[p][cur[p]] = "serving"
            \/ cur[p] = 0 /\ phase[p][0] \in {"starting", "failed"}

\* README.md:69: an upgrade does not refuse connections.  From SIGUSR2 on, the
\* socket stays open, held by the parent, by the descriptors of the child or
\* by its server, until the child gives up, is stopped or upgrades in its turn
\* (upgrade.go:160-226).
UpgradeKeepsSocket ==
    \A p \in Procs :
        /\ retired[p] /\ proc[p] \in {"upgrading", "loop"}
        /\ proc[p + 1] # "exited" /\ phase[p + 1][0] # "failed"
        /\ ~retired[p + 1] /\ ~early[p + 1]
        => SocketOpen

\* A server that was replaced, and the stop of it has not returned.
Lingering(p, g) ==
    /\ g < cur[p] /\ asked[p][g] # "returned"
    /\ phase[p][g] \in {"starting", "serving", "cleaned", "draining"}

\* Neither a reload nor an upgrade interrupts the service.
ServiceKept == AppTypeOK /\ ReloadKeepsServing /\ UpgradeKeepsSocket

\* A server that was replaced stops, with its requests finished or given up
\* after the timeout, unless it was still starting when the stop of it looked
\* (StopMisses): that one is left behind, and serves until the process ends.  A
\* stop signal ends the process, also while a reloaded server is starting or
\* requests never finish (app.go:118-147,249-260; lifecycle.go:202-229).
OldOnesEnd ==
    []<>(\A p \in Procs : proc[p] # "stopping" /\ \A g \in Gens : ~Lingering(p, g))
=============================================================================
