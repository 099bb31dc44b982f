----------------------------- MODULE LuaEngine -----------------------------
(***************************************************************************)
(* The Lua engine of a server (internal/lua): the coroutine of a request   *)
(* (engine.go, context.go), the pool of LStates it runs on (pool.go), the  *)
(* timers its scripts set (api_timer.go), and Close, which the server      *)
(* calls before it waits for its requests (server/lifecycle.go).           *)
(*                                                                         *)
(* A script is any sequence of ngx.timer.at and cancel.  A panic ends the  *)
(* process: neither the server nor fasthttp recovers.  Nobody calls        *)
(* WaitAll, InitSchedulerLState or the engine's CloseScheduler.            *)
(***************************************************************************)
EXTENDS Integers, Sequences, FiniteSets, SequencesExt

CONSTANTS
    Requests,        \* what the clients send; a finished one may come again
    Setters,         \* bound: the requests whose scripts set timers
    States,          \* identities of LStates
    Timers,          \* bound: the timers scripts set
    None,
    MaxCoroutines,   \* MaxConcurrentCoroutines
    InitialStates, MaxStates,   \* of the pool, after the defaults of NewEngine
    QueueSize        \* cap(callbackQueue), 1024

ASSUME LuaAssumption ==
    /\ IsFiniteSet(Requests) /\ IsFiniteSet(States) /\ IsFiniteSet(Timers) /\ None \notin States
    /\ Setters \subseteq Requests
    /\ None \notin Timers /\ None \notin Requests
    /\ MaxCoroutines \in Nat /\ MaxStates \in Nat \ {0}
    /\ InitialStates \in Nat \ {0} /\ QueueSize \in Nat \ {0}
    /\ Cardinality(States) >= InitialStates + MaxStates + Cardinality(Requests)

VARIABLES
    pc, co,               \* per request: where it is; its LState
    activeCount,
    pool, current,        \* LStatePool: its stack of states; the number made
    tm,                   \* per timer: where its entry is
    cancelled,            \* the timers whose cancel channel is closed
    active,               \* TimerManager.active
    queue, queueClosed,   \* callbackQueue
    sched, cur,           \* schedulerLoop and its callback
    stage,                \* where Close is
    late,                 \* gracefulShutdown gave up waiting
    panicked,             \* what ended the process, or "no"
    early                 \* history: timers cancelled before they fired

rvars == <<pc, co, activeCount, pool, current>>
tvars == <<tm, cancelled, active, early>>
qvars == <<queue, queueClosed, sched, cur>>
vars == <<rvars, tvars, qvars, stage, late, panicked>>

Lent == Range(co) \ {None}
Unused == States \ (Range(pool) \cup Lent)
Goto(r, label) == pc' = [pc EXCEPT ![r] = label]

Init ==
    /\ pc = [r \in Requests |-> "idle"] /\ co = [r \in Requests |-> None]
    /\ activeCount = 0 /\ current = InitialStates
    /\ pool = CHOOSE p \in [1..InitialStates -> States] : IsInjective(p)
    /\ tm = [t \in Timers |-> "none"] /\ cancelled = {} /\ active = 0
    /\ queue = <<>> /\ queueClosed = FALSE /\ sched = "idle" /\ cur = None
    /\ stage = "no" /\ late = FALSE /\ panicked = "no" /\ early = {}

-----------------------------------------------------------------------------
(* A request: NewCoroutine, the script, releaseCoroutine *)

\* Mutant of NewCoroutine: the limit itself is let in.
NewCoroutineOneMore(r) ==
    /\ pc[r] = "idle" /\ activeCount' = activeCount + 1
    /\ Goto(r, IF activeCount > MaxCoroutines THEN "refused" ELSE "counted")
    /\ UNCHANGED <<co, pool, current, tvars, qvars, stage, late, panicked>>

\* The count is raised and the new value compared in one atomic operation.
NewCoroutine(r) ==
    /\ pc[r] = "idle" /\ activeCount' = activeCount + 1
    /\ Goto(r, IF activeCount' > MaxCoroutines THEN "refused" ELSE "counted")
    /\ UNCHANGED <<co, pool, current, tvars, qvars, stage, late, panicked>>

\* LStatePool.Get, on the pool that Close has set to nil
GetPanics(r) ==
    /\ pc[r] = "counted" /\ stage = "nil" /\ panicked' = "state"
    /\ UNCHANGED <<rvars, tvars, qvars, stage, late>>

Get(r) ==
    /\ pc[r] = "counted" /\ stage # "nil"
    /\ \/ /\ pool # <<>> /\ pool' = Front(pool)
          /\ co' = [co EXCEPT ![r] = Last(pool)]
          /\ Goto(r, "running") /\ UNCHANGED current
       \/ /\ pool = <<>> /\ current < MaxStates
          /\ co' = [co EXCEPT ![r] = CHOOSE l \in Unused : TRUE]
          /\ current' = current + 1 /\ Goto(r, "running") /\ UNCHANGED pool
       \/ /\ pool = <<>> /\ current >= MaxStates /\ Goto(r, "refused")
          /\ UNCHANGED <<co, pool, current>>
    /\ UNCHANGED <<activeCount, tvars, qvars, stage, late, panicked>>

PutPanics(r) ==
    /\ pc[r] = "running" /\ stage = "nil" /\ panicked' = "state"
    /\ UNCHANGED <<rvars, tvars, qvars, stage, late>>

\* LStatePool.Put; a full pool closes the state
Put(r) ==
    /\ pc[r] = "running" /\ stage # "nil"
    /\ LET full == Len(pool) >= MaxStates IN
          /\ pool' = IF full THEN pool ELSE Append(pool, co[r])
          /\ current' = IF full THEN current - 1 ELSE current
    /\ co' = [co EXCEPT ![r] = None] /\ Goto(r, "refused")
    /\ UNCHANGED <<activeCount, tvars, qvars, stage, late, panicked>>

\* The end of releaseCoroutine, and of a NewCoroutine that failed
Uncount(r) ==
    /\ pc[r] = "refused" /\ activeCount' = activeCount - 1 /\ Goto(r, "idle")
    /\ UNCHANGED <<co, pool, current, tvars, qvars, stage, late, panicked>>

Request(r) ==
    \/ GetPanics(r) \/ Get(r) \/ PutPanics(r) \/ Put(r) \/ Uncount(r)

-----------------------------------------------------------------------------
(* Timers *)

\* At: stopping is tested before the lock is taken.
At(r) ==
    /\ r \in Setters /\ pc[r] = "running" /\ stage = "no" /\ Goto(r, "at")
    /\ UNCHANGED <<co, activeCount, pool, current, tvars, qvars, stage, late, panicked>>

\* The callback captures variables.
AtRefuses(r) ==
    /\ pc[r] = "at" /\ Goto(r, "running")
    /\ UNCHANGED <<co, activeCount, pool, current, tvars, qvars, stage, late, panicked>>

AtSets(r, t) ==
    /\ pc[r] = "at" /\ Goto(r, "running")
    /\ tm[t] = "none" /\ tm' = [tm EXCEPT ![t] = "armed"] /\ active' = active + 1
    /\ UNCHANGED <<co, activeCount, pool, current, cancelled, early, qvars,
                   stage, late, panicked>>

\* m.timers: executeTimer has not removed the entry, nor has Cancel.
InMap(t) == tm[t] \in {"armed", "firing"} /\ t \notin cancelled

Cancel(t) ==
    /\ \E r \in Requests : pc[r] = "running"
    /\ InMap(t) /\ cancelled' = cancelled \cup {t}
    /\ early' = early \cup (IF tm[t] = "armed" THEN {t} ELSE {})
    /\ UNCHANGED <<rvars, tm, active, qvars, stage, late, panicked>>

\* Mutant of Fire: the cancel channel is not looked at.
FireAnyway(t) ==
    /\ tm[t] = "armed" /\ tm' = [tm EXCEPT ![t] = "firing"]
    /\ UNCHANGED <<rvars, cancelled, active, early, qvars, stage, late, panicked>>

\* executeTimer, started by time.AfterFunc
Fire(t) ==
    /\ tm[t] = "armed"
    /\ IF t \in cancelled
         THEN tm' = [tm EXCEPT ![t] = "done"] /\ active' = active - 1
         ELSE tm' = [tm EXCEPT ![t] = "firing"] /\ UNCHANGED active
    /\ UNCHANGED <<rvars, cancelled, early, qvars, stage, late, panicked>>

Unlist(t) ==
    /\ tm[t] = "firing" /\ tm' = [tm EXCEPT ![t] = "removed"]
    /\ UNCHANGED <<rvars, cancelled, active, early, qvars, stage, late, panicked>>

\* A callback that is a Go function has no prototype: nothing is queued.
NoProto(t) ==
    /\ tm[t] = "firing" /\ active' = active - 1
    /\ tm' = [tm EXCEPT ![t] = "done"]
    /\ UNCHANGED <<rvars, cancelled, early, qvars, stage, late, panicked>>

\* Mutant of Enqueue: the send waits for room.
EnqueueBlocks(t) ==
    /\ tm[t] = "removed" /\ active' = active - 1
    /\ IF queueClosed
         THEN tm' = [tm EXCEPT ![t] = "done"] /\ UNCHANGED queue
         ELSE /\ Len(queue) < QueueSize /\ queue' = Append(queue, t)
              /\ tm' = [tm EXCEPT ![t] = "queued"]
    /\ UNCHANGED <<rvars, cancelled, early, queueClosed, sched, cur, stage, late,
                   panicked>>

\* The send under queueMu, which drops the callback rather than wait, and the
\* deferred end of executeTimer
Enqueue(t) ==
    /\ tm[t] = "removed" /\ active' = active - 1
    /\ IF queueClosed \/ Len(queue) >= QueueSize
         THEN tm' = [tm EXCEPT ![t] = "done"] /\ UNCHANGED queue
         ELSE tm' = [tm EXCEPT ![t] = "queued"] /\ queue' = Append(queue, t)
    /\ UNCHANGED <<rvars, cancelled, early, queueClosed, sched, cur, stage, late,
                   panicked>>

Timer(t) == Fire(t) \/ Unlist(t) \/ NoProto(t) \/ Enqueue(t)

-----------------------------------------------------------------------------
(* schedulerLoop *)

Take ==
    /\ sched = "idle" /\ queue # <<>>
    /\ sched' = "took" /\ cur' = Head(queue) /\ queue' = Tail(queue)
    /\ UNCHANGED <<rvars, tvars, queueClosed, stage, late, panicked>>

\* The closed LState has been replaced by nil.
SchedulerClosed == stage \in {"pool", "closed", "nil"}

CallPanics ==
    /\ sched = "took" /\ SchedulerClosed /\ panicked' = "scheduler"
    /\ UNCHANGED <<rvars, tvars, qvars, stage, late>>

Call ==
    /\ sched = "took" /\ ~SchedulerClosed /\ sched' = "running"
    /\ UNCHANGED <<rvars, tvars, queue, queueClosed, cur, stage, late, panicked>>

Return ==
    /\ sched = "running" /\ sched' = "idle" /\ cur' = None
    /\ tm' = [tm EXCEPT ![cur] = "ran"]
    /\ UNCHANGED <<rvars, cancelled, active, early, queue, queueClosed, stage,
                   late, panicked>>

\* The callback raises an error: CallByParam is called without Protect.
CallbackFails ==
    /\ sched = "running" /\ panicked' = "callback"
    /\ UNCHANGED <<rvars, tvars, qvars, stage, late>>

SchedulerEnds ==
    /\ sched = "idle" /\ queueClosed /\ queue = <<>> /\ sched' = "ended"
    /\ UNCHANGED <<rvars, tvars, queue, queueClosed, cur, stage, late, panicked>>

Scheduler ==
    \/ Take \/ CallPanics \/ Call \/ Return \/ CallbackFails \/ SchedulerEnds

-----------------------------------------------------------------------------
(* Close *)

\* cancel and stopping.Store
CloseBegins ==
    /\ stage = "no" /\ stage' = "stopping"
    /\ UNCHANGED <<rvars, tvars, qvars, late, panicked>>

\* gracefulShutdown
CloseQueue ==
    /\ stage = "stopping" /\ stage' = "waiting" /\ queueClosed' = TRUE
    /\ UNCHANGED <<rvars, tvars, queue, sched, cur, late, panicked>>

CloseWaits ==
    /\ stage = "waiting" /\ sched = "ended" /\ stage' = "drained"
    /\ UNCHANGED <<rvars, tvars, qvars, late, panicked>>

\* The callbacks need more than five seconds; nothing limits how long one runs.
CloseTimesOut ==
    /\ stage = "waiting" /\ sched # "ended" /\ stage' = "drained" /\ late' = TRUE
    /\ UNCHANGED <<rvars, tvars, qvars, panicked>>

\* schedulerL.Close and schedulerL = nil, sharedDictManager.Close
CloseScheduler ==
    /\ stage = "drained" /\ stage' = "pool"
    /\ UNCHANGED <<rvars, tvars, qvars, late, panicked>>

\* LStatePool.Close closes the states in the pool.
ClosePool ==
    /\ stage = "pool" /\ stage' = "closed" /\ pool' = <<>> /\ current' = 0
    /\ UNCHANGED <<pc, co, activeCount, tvars, qvars, late, panicked>>

\* e.lstatePool = nil
CloseEnds ==
    /\ stage = "closed" /\ stage' = "nil"
    /\ UNCHANGED <<rvars, tvars, qvars, late, panicked>>

Closing ==
    \/ CloseQueue \/ CloseWaits \/ CloseTimesOut \/ CloseScheduler
    \/ ClosePool \/ CloseEnds

Next ==
    /\ panicked = "no"
    /\ \/ \E r \in Requests : NewCoroutine(r) \/ Request(r) \/ At(r) \/ AtRefuses(r)
       \/ \E r \in Requests, t \in Timers : AtSets(r, t)
       \/ \E t \in Timers : Cancel(t) \/ Timer(t)
       \/ Scheduler \/ CloseBegins \/ Closing

Spec == Init /\ [][Next]_vars

(* Go starts a timer's function when its time has come, and Close keeps      *)
(* running.  No fairness for callbacks: nothing limits how long one runs.    *)
EngineFairness ==
    /\ WF_vars(Closing /\ panicked = "no")
    /\ \A t \in Timers : WF_vars(Timer(t) /\ panicked = "no")

FairSpec == Spec /\ EngineFairness

-----------------------------------------------------------------------------
\* Type invariant of the engine, its pool and its timer manager.
TypeOK ==
    /\ pc \in [Requests -> {"idle", "counted", "running", "at", "refused"}]
    /\ co \in [Requests -> States \cup {None}] /\ activeCount \in Nat
    /\ pool \in Seq(States) /\ current \in Int
    /\ tm \in [Timers -> {"none", "armed", "firing", "removed", "queued", "ran", "done"}]
    /\ cancelled \in SUBSET Timers /\ early \in SUBSET cancelled /\ active \in Nat
    /\ queue \in Seq(Timers) /\ Len(queue) <= QueueSize /\ queueClosed \in BOOLEAN
    /\ sched \in {"idle", "took", "running", "ended"} /\ cur \in Timers \cup {None}
    /\ stage \in {"no", "stopping", "waiting", "drained", "pool", "closed", "nil"}
    /\ late \in BOOLEAN /\ panicked \in {"no", "state", "scheduler", "callback"}

Holding == {r \in Requests : co[r] # None}

\* Two requests never run on one LState, and none runs on a state that is in
\* the pool; until the pool is closed it counts exactly the states that exist,
\* so an exhausted pool becomes usable again (LStatePool.Get, Put).
StatesExclusive ==
    /\ TypeOK
    /\ \A r, q \in Holding : co[r] = co[q] => r = q
    /\ IsInjective(pool) /\ Range(pool) \cap Lent = {}
    /\ stage \notin {"closed", "nil"} =>
          current = Len(pool) + Cardinality(Lent)

\* Requests racing for the last place never get more than
\* MaxConcurrentCoroutines states, and every way out of NewCoroutine gives the
\* place back (NewCoroutine, releaseCoroutine).
CoroutineLimit ==
    /\ activeCount = Cardinality({r \in Requests : pc[r] # "idle"})
    /\ Cardinality(Holding) <= MaxCoroutines

\* active, which ngx.timer.running_count returns, is the number of timers whose
\* executeTimer has not ended, cancelled ones included; a callback is queued
\* at most once (At, executeTimer, Cancel).
TimersCounted ==
    /\ active = Cardinality({t \in Timers : tm[t] \in {"armed", "firing", "removed"}})
    /\ IsInjective(queue) /\ Range(queue) \cup ({cur} \ {None})
                               = {t \in Timers : tm[t] = "queued"}

\* The callback of a timer that was cancelled before it fired never runs
\* (Cancel, executeTimer).
CancelledNeverRuns == \A t \in early : tm[t] \notin {"queued", "ran"}

\* Unless it gave up waiting, TimerManager.Close returns with every queued
\* callback run and the loop ended, whatever fires meanwhile, so that no
\* callback meets the closed state (executeTimer, gracefulShutdown).
QuietAfterClose ==
    stage \in {"drained", "pool", "closed", "nil"} /\ ~late =>
        sched = "ended" /\ queue = <<>>

\* The states and the places of the engine are accounted for, whatever requests
\* race for the last one (engine.go NewCoroutine, pool.go Get, Put).
StatesExact == StatesExclusive /\ CoroutineLimit

\* Timers are counted, cancelled and drained right, in whatever order At, Cancel,
\* the firing and Close meet (api_timer.go).
TimersExact == TimersCounted /\ CancelledNeverRuns /\ QuietAfterClose

\* Close is not under way and no timer is left.
EngineQuiet ==
    \/ panicked # "no"
    \/ /\ stage \in {"no", "nil"}
       /\ \A t \in Timers : tm[t] \notin {"armed", "firing", "removed"}

\* A request in progress survives a graceful stop: Close never takes away the
\* pool a request still uses (engine.go Close, lifecycle.go GracefulStop).
RequestsSurviveClose == panicked # "state"
=============================================================================
