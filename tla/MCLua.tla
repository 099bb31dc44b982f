------------------------------- MODULE MCLua -------------------------------
(***************************************************************************)
(* What a Lua script uses, in one instance: the engine with its states and *)
(* timers, a shared dictionary, the cache of compiled scripts and the      *)
(* cosockets.  They share no state, so that a behaviour is that of one of  *)
(* them, chosen at the start, while the others stay as they are.           *)
(***************************************************************************)
EXTENDS LuaEngine, SharedDict, CodeCache, Cosockets, TLC

CONSTANT Parts    \* the parts to check

VARIABLE part

ScriptInit == part \in Parts /\ Init /\ DictInit /\ CodeInit /\ SocketInit

ScriptNext ==
    /\ UNCHANGED part
    /\ \/ part = "engine" /\ Next /\ UNCHANGED <<dictVars, codeVars, socketVars>>
       \/ part = "dict" /\ DictNext /\ UNCHANGED <<vars, codeVars, socketVars>>
       \/ part = "code" /\ CodeNext /\ UNCHANGED <<vars, dictVars, socketVars>>
       \/ part = "socket" /\ SocketNext /\ UNCHANGED <<vars, dictVars, codeVars>>

\* EngineFairness, CodeFairness and SocketFairness, each asked only of the part
\* that runs.
ScriptFairSpec ==
    /\ ScriptInit /\ [][ScriptNext]_<<part, vars, dictVars, codeVars, socketVars>>
    /\ WF_vars(part = "engine" /\ Closing /\ panicked = "no")
    /\ \A t \in Timers : WF_vars(part = "engine" /\ Timer(t) /\ panicked = "no")
    /\ WF_codeVars(part = "code" /\ CodeTick)
    /\ \A r \in Runs : WF_codeVars(part = "code" /\ RunSteps(r))
    /\ WF_socketVars(part = "socket" /\ SweepSteps)
    /\ \A o \in Ops :
         WF_socketVars(part = "socket" /\ Overdue(o)) /\ WF_socketVars(part = "socket" /\ OpTail(o))

-----------------------------------------------------------------------------
\* What the three keep about scripts and their sockets agrees with what there is,
\* whichever calls, evictions, expiries and completions meet (cache.go:263-307,
\* shared_dict.go:319-397, socket_manager.go:303-367).
BookkeepingExact == DictExact /\ CodeExact /\ SocketOpsExact

\* Nothing a script waits for or leaves behind goes on for ever.  A callback that
\* never returns stops neither Close, which gives up waiting for it, nor the
\* goroutines of the other timers, whose callbacks a full queue drops
\* (api_timer.go executeTimer, gracefulShutdown); and an operation is completed
\* even when the peer never answers and the current one was forgotten by a
\* goroutine that ended late (socket_manager.go:356).
NothingLingers == []<>(EngineQuiet /\ OpsDone)
=============================================================================
