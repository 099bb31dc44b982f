--------------------------- MODULE GoroutinePool ---------------------------
(***************************************************************************)
(* The goroutine pool that every HTTP request of the server goes through   *)
(* when performance.goroutine_pool is enabled (internal/server/pool.go).   *)
(*                                                                         *)
(* A request is one call of Submit made by WrapHandler on a connection's   *)
(* goroutine; its task is the closure over its RequestCtx.  Every atomic   *)
(* load, atomic add, channel operation and select of the code is a step of *)
(* its own, so every interleaving of submitters, workers and Stop is here. *)
(***************************************************************************)
EXTENDS Integers, Sequences, FiniteSets

CONSTANTS
    Requests,      \* the calls of Submit, each with its own task
    Slots,         \* identities for worker goroutines
    MaxWorkers,    \* cfg.MaxWorkers, after NewGoroutinePool's defaults
    MinWorkers,    \* cfg.MinWorkers, after NewGoroutinePool's defaults
    QueueSize,     \* cap(taskQueue)
    NoTask         \* a worker that holds no task

\* NewGoroutinePool leaves 1 <= MinWorkers <= MaxWorkers and 1 <= QueueSize.
\* There are enough identities that a new goroutine always finds one.
ASSUME PoolAssumption ==
    /\ IsFiniteSet(Requests) /\ Requests # {} /\ NoTask \notin Requests
    /\ MaxWorkers \in Nat /\ MinWorkers \in 1..MaxWorkers
    /\ QueueSize \in Nat \ {0}
    /\ IsFiniteSet(Slots)
    /\ Cardinality(Slots) >= MaxWorkers + Cardinality(Requests)

VARIABLES
    queue,         \* taskQueue: the requests whose task is buffered
    running,       \* the atomic flag
    cancelled,     \* ctx has been cancelled
    workers,       \* the atomic counter
    idleWorkers,   \* the atomic counter
    wpc,           \* per slot: where the worker goroutine stands
    wtask,         \* per slot: the task it took from the queue
    spc,           \* per request: where Submit stands
    ran,           \* per request: how often its task has been executed
    stop           \* where the one Stop call stands

vars == <<queue, running, cancelled, workers, idleWorkers,
          wpc, wtask, spc, ran, stop>>

SubmitPC == {"new", "enqueue", "checkIdle", "checkWorkers", "spawn",
             "checkFull", "spawnFull", "retry", "inline", "returned"}
WorkerPC == {"free", "mark", "select", "got", "run", "check", "exit"}
StopPC   == {"notStarted", "serving", "cancel", "wait", "done", "timedOut"}

-----------------------------------------------------------------------------
Live == {w \in Slots : wpc[w] # "free"}
Idle == {w \in Slots : wpc[w] \in {"select", "got"}}

\* NewGoroutinePool: MinWorkers workers are started before the pool is.
Init ==
    /\ queue = <<>> /\ running = FALSE /\ cancelled = FALSE
    /\ workers = MinWorkers /\ idleWorkers = 0
    /\ \E S \in SUBSET Slots :
          /\ Cardinality(S) = MinWorkers
          /\ wpc = [w \in Slots |-> IF w \in S THEN "mark" ELSE "free"]
    /\ wtask = [w \in Slots |-> NoTask]
    /\ spc = [r \in Requests |-> "new"]
    /\ ran = [r \in Requests |-> 0]
    /\ stop = "notStarted"

\* startWorker: the counter is raised by the caller, then the goroutine runs.
startWorker ==
    /\ workers' = workers + 1
    /\ \E w \in Slots :
          /\ wpc[w] = "free"
          /\ wpc' = [wpc EXCEPT ![w] = "mark"]

Goto(r, label) == spc' = [spc EXCEPT ![r] = label]
WGoto(w, label) == wpc' = [wpc EXCEPT ![w] = label]

-----------------------------------------------------------------------------
(* Submit *)

\* if !p.running.Load()
LoadRunning(r) ==
    /\ spc[r] = "new"
    /\ Goto(r, IF running THEN "enqueue" ELSE "inline")
    /\ UNCHANGED <<queue, running, cancelled, workers, idleWorkers, wpc, wtask,
                   ran, stop>>

\* case p.taskQueue <- task, or default when the channel is full
TryEnqueue(r) ==
    /\ spc[r] = "enqueue"
    /\ IF Len(queue) < QueueSize
       THEN queue' = Append(queue, r) /\ Goto(r, "checkIdle")
       ELSE queue' = queue /\ Goto(r, "checkFull")
    /\ UNCHANGED <<running, cancelled, workers, idleWorkers, wpc, wtask, ran,
                   stop>>

\* idleWorkers == 0 && ..., the first load
CheckIdle(r) ==
    /\ spc[r] = "checkIdle"
    /\ Goto(r, IF idleWorkers = 0 THEN "checkWorkers" ELSE "returned")
    /\ UNCHANGED <<queue, running, cancelled, workers, idleWorkers, wpc, wtask,
                   ran, stop>>

\* Mutant of CheckWorkers: off by one in the comparison.
CheckWorkersOffByOne(r) ==
    /\ spc[r] = "checkWorkers"
    /\ Goto(r, IF workers <= MaxWorkers THEN "spawn" ELSE "returned")
    /\ UNCHANGED <<queue, running, cancelled, workers, idleWorkers, wpc, wtask,
                   ran, stop>>

\* ... && workers < maxWorkers, the second load
CheckWorkers(r) ==
    /\ spc[r] = "checkWorkers"
    /\ Goto(r, IF workers < MaxWorkers THEN "spawn" ELSE "returned")
    /\ UNCHANGED <<queue, running, cancelled, workers, idleWorkers, wpc, wtask,
                   ran, stop>>

Spawn(r) ==
    /\ spc[r] = "spawn"
    /\ startWorker
    /\ Goto(r, "returned")
    /\ UNCHANGED <<queue, running, cancelled, idleWorkers, wtask, ran, stop>>

\* The queue was full: workers < maxWorkers decides between a new worker and
\* the fallback of running the task here.
CheckFull(r) ==
    /\ spc[r] = "checkFull"
    /\ Goto(r, IF workers < MaxWorkers THEN "spawnFull" ELSE "inline")
    /\ UNCHANGED <<queue, running, cancelled, workers, idleWorkers, wpc, wtask,
                   ran, stop>>

SpawnFull(r) ==
    /\ spc[r] = "spawnFull"
    /\ startWorker
    /\ Goto(r, "retry")
    /\ UNCHANGED <<queue, running, cancelled, idleWorkers, wtask, ran, stop>>

\* Mutant of RetryEnqueue: the early return after the send is missing.
RetryEnqueueNoReturn(r) ==
    /\ spc[r] = "retry"
    /\ queue' = IF Len(queue) < QueueSize THEN Append(queue, r) ELSE queue
    /\ Goto(r, "inline")
    /\ UNCHANGED <<running, cancelled, workers, idleWorkers, wpc, wtask, ran,
                   stop>>

\* the second non-blocking send
RetryEnqueue(r) ==
    /\ spc[r] = "retry"
    /\ IF Len(queue) < QueueSize
       THEN queue' = Append(queue, r) /\ Goto(r, "returned")
       ELSE queue' = queue /\ Goto(r, "inline")
    /\ UNCHANGED <<running, cancelled, workers, idleWorkers, wpc, wtask, ran,
                   stop>>

\* task(ctx) on the submitter's goroutine
RunInline(r) ==
    /\ spc[r] = "inline"
    /\ ran' = [ran EXCEPT ![r] = @ + 1]
    /\ Goto(r, "returned")
    /\ UNCHANGED <<queue, running, cancelled, workers, idleWorkers, wpc, wtask,
                   stop>>

Submit(r) ==
    \/ LoadRunning(r) \/ TryEnqueue(r) \/ CheckIdle(r) \/ CheckWorkers(r)
    \/ Spawn(r) \/ CheckFull(r) \/ SpawnFull(r) \/ RetryEnqueue(r)
    \/ RunInline(r)

-----------------------------------------------------------------------------
(* The worker goroutine of startWorker *)

MarkIdle(w) ==
    /\ wpc[w] = "mark"
    /\ idleWorkers' = idleWorkers + 1
    /\ WGoto(w, "select")
    /\ UNCHANGED <<queue, running, cancelled, workers, wtask, spc, ran, stop>>

\* case task := <-p.taskQueue: the worker still counts as idle
TakeTask(w) ==
    /\ wpc[w] = "select"
    /\ queue # <<>>
    /\ wtask' = [wtask EXCEPT ![w] = Head(queue)]
    /\ queue' = Tail(queue)
    /\ WGoto(w, "got")
    /\ UNCHANGED <<running, cancelled, workers, idleWorkers, spc, ran, stop>>

UnmarkIdle(w) ==
    /\ wpc[w] = "got"
    /\ idleWorkers' = idleWorkers - 1
    /\ WGoto(w, "run")
    /\ UNCHANGED <<queue, running, cancelled, workers, wtask, spc, ran, stop>>

\* task(nil), then the next turn of the loop
RunTask(w) ==
    /\ wpc[w] = "run"
    /\ ran' = [ran EXCEPT ![wtask[w]] = @ + 1]
    /\ wtask' = [wtask EXCEPT ![w] = NoTask]
    /\ WGoto(w, "mark")
    /\ UNCHANGED <<queue, running, cancelled, workers, idleWorkers, spc, stop>>

\* Mutant of IdleTimeout: the idle mark is not taken back.
IdleTimeoutKeepsMark(w) ==
    /\ wpc[w] = "select"
    /\ WGoto(w, "check")
    /\ UNCHANGED <<queue, running, cancelled, workers, idleWorkers, wtask, spc,
                   ran, stop>>

\* case <-idleTimer.C: select may choose it while the queue is not empty too,
\* because the timer is reset before the task runs and may expire meanwhile.
IdleTimeout(w) ==
    /\ wpc[w] = "select"
    /\ idleWorkers' = idleWorkers - 1
    /\ WGoto(w, "check")
    /\ UNCHANGED <<queue, running, cancelled, workers, wtask, spc, ran, stop>>

\* if workers > minWorkers { return }
CheckMin(w) ==
    /\ wpc[w] = "check"
    /\ WGoto(w, IF workers > MinWorkers THEN "exit" ELSE "mark")
    /\ UNCHANGED <<queue, running, cancelled, workers, idleWorkers, wtask, spc,
                   ran, stop>>

\* Mutant of CtxDone: break leaves the select, not the loop.
CtxDoneBreaksSelect(w) ==
    /\ wpc[w] = "select"
    /\ cancelled
    /\ idleWorkers' = idleWorkers - 1
    /\ WGoto(w, "mark")
    /\ UNCHANGED <<queue, running, cancelled, workers, wtask, spc, ran, stop>>

\* case <-p.ctx.Done()
CtxDone(w) ==
    /\ wpc[w] = "select"
    /\ cancelled
    /\ idleWorkers' = idleWorkers - 1
    /\ WGoto(w, "exit")
    /\ UNCHANGED <<queue, running, cancelled, workers, wtask, spc, ran, stop>>

\* defer atomic.AddInt32(&p.workers, -1)
Exit(w) ==
    /\ wpc[w] = "exit"
    /\ workers' = workers - 1
    /\ WGoto(w, "free")
    /\ UNCHANGED <<queue, running, cancelled, idleWorkers, wtask, spc, ran,
                   stop>>

Worker(w) ==
    \/ MarkIdle(w) \/ TakeTask(w) \/ UnmarkIdle(w) \/ RunTask(w)
    \/ IdleTimeout(w) \/ CheckMin(w) \/ CtxDone(w) \/ Exit(w)

-----------------------------------------------------------------------------
(* Start and Stop, each called once in the life of a server *)

Start ==
    /\ stop = "notStarted"
    /\ running' = TRUE
    /\ stop' = "serving"
    /\ UNCHANGED <<queue, cancelled, workers, idleWorkers, wpc, wtask, spc, ran>>

StopBegin ==
    /\ stop = "serving"
    /\ running' = FALSE
    /\ stop' = "cancel"
    /\ UNCHANGED <<queue, cancelled, workers, idleWorkers, wpc, wtask, spc, ran>>

StopCancel ==
    /\ stop = "cancel"
    /\ cancelled' = TRUE
    /\ stop' = "wait"
    /\ UNCHANGED <<queue, running, workers, idleWorkers, wpc, wtask, spc, ran>>

\* case <-done: wg.Wait() returned
StopDone ==
    /\ stop = "wait"
    /\ Live = {}
    /\ stop' = "done"
    /\ UNCHANGED <<queue, running, cancelled, workers, idleWorkers, wpc, wtask,
                   spc, ran>>

\* case <-time.After(5 * time.Second)
StopTimeout ==
    /\ stop = "wait"
    /\ stop' = "timedOut"
    /\ UNCHANGED <<queue, running, cancelled, workers, idleWorkers, wpc, wtask,
                   spc, ran>>

Stop == StopBegin \/ StopCancel \/ StopDone \/ StopTimeout

Next ==
    \/ Start \/ Stop
    \/ \E r \in Requests : Submit(r)
    \/ \E w \in Slots : Worker(w)

Spec == Init /\ [][Next]_vars

(***************************************************************************)
(* A handler returns, the Go scheduler runs every goroutine, and select    *)
(* chooses uniformly among its ready cases: workers that keep meeting the  *)
(* cancelled context in their select choose it in the end.                 *)
(* The five-second timeout of Stop, and whether Stop is called, are left   *)
(* to chance.                                                              *)
(***************************************************************************)
PoolFairness ==
    /\ WF_vars(Start) /\ WF_vars(StopCancel)
    /\ \A r \in Requests : WF_vars(Submit(r))
    /\ \A w \in Slots : WF_vars(Worker(w))
    /\ SF_vars(\E w \in Slots : CtxDone(w))

FairSpec == Spec /\ PoolFairness

-----------------------------------------------------------------------------
(* Properties *)

TypeOK ==
    /\ queue \in Seq(Requests) /\ Len(queue) <= QueueSize
    /\ running \in BOOLEAN /\ cancelled \in BOOLEAN
    /\ workers \in Nat /\ idleWorkers \in Nat
    /\ wpc \in [Slots -> WorkerPC]
    /\ wtask \in [Slots -> Requests \cup {NoTask}]
    /\ spc \in [Requests -> SubmitPC]
    /\ ran \in [Requests -> Nat]
    /\ stop \in StopPC

\* The two counters that Submit decides by are exact: workers counts the
\* goroutines that have not run their deferred decrement, idleWorkers those
\* between the two atomic adds of the loop (pool.go:205,212,217,227,235).
CountersExact ==
    /\ workers = Cardinality(Live)
    /\ idleWorkers = Cardinality(Idle)

\* Submitters that passed the test on workers and have not started theirs yet.
Committed == {r \in Requests : spc[r] \in {"spawn", "spawnFull"}}

\* The test workers < maxWorkers and the add in startWorker are not one step,
\* so maxWorkers can be exceeded (pool.go:174-175,180-181); what does hold is
\* that the excess is less than the number of concurrent Submit calls.
OvershootBounded ==
    workers + Cardinality(Committed) < MaxWorkers + Cardinality(Requests)

WithSubmitter(r) == spc[r] \in {"new", "enqueue", "checkFull", "spawnFull",
                                "retry", "inline"}
Queued(r) == \E i \in 1..Len(queue) : queue[i] = r
Held(r) == \E w \in Slots : wtask[w] = r

\* A request is served exactly once: whatever the interleaving, its task is
\* still with the submitter, or buffered once, or held by one worker, or has
\* been executed once, and never two of these (pool.go:162-196,213-223).
TaskConserved ==
    /\ \A i, j \in 1..Len(queue) : queue[i] = queue[j] => i = j
    /\ \A v, w \in Slots : wtask[v] = wtask[w] /\ wtask[v] # NoTask => v = w
    /\ \A r \in Requests :
          \/ WithSubmitter(r) /\ ~Queued(r) /\ ~Held(r) /\ ran[r] = 0
          \/ ~WithSubmitter(r) /\ Queued(r) /\ ~Held(r) /\ ran[r] = 0
          \/ ~WithSubmitter(r) /\ ~Queued(r) /\ Held(r) /\ ran[r] = 0
          \/ ~WithSubmitter(r) /\ ~Queued(r) /\ ~Held(r) /\ ran[r] = 1

\* Once the pool is cancelled every worker goes away for good, those started
\* by a Submit that had already passed the running test included: wg.Wait()
\* in Stop does return if the handlers do (pool.go:131-149,233-236).
StopDrains == <>[](cancelled => workers = 0)
=============================================================================
