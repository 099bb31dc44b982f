--------------------------- MODULE ServiceProofs ---------------------------
(***************************************************************************)
(* Proofs about the services of a process, for any requests, workers,      *)
(* clients, sessions, connections, targets, hosts and callers: the         *)
(* goroutine pool counts its workers and runs each task once; the UDP      *)
(* sessions and the TCP connections of internal/stream/stream.go are       *)
(* accounted for exactly; the DNS resolver keeps its cache, its LRU list   *)
(* and its refresh set together; and neither a reload nor an upgrade       *)
(* interrupts the service, for any number of either.                       *)
(***************************************************************************)
EXTENDS GoroutinePool, StreamUDP, StreamServer, Resolver, App, CountingTheorems

-----------------------------------------------------------------------------
(* The goroutine pool *)

\* Type correctness needs the exact counters: a decrement of a counter that is
\* exact cannot take it below zero.
PoolInv == TypeOK /\ CountersExact /\ OvershootBounded

\* What a step of worker w does to the two sets the counters stand for.
LEMMA WorkerMove ==
  ASSUME TypeOK, NEW w \in Slots, NEW label \in WorkerPC, WGoto(w, label)
  PROVE  /\ wpc' \in [Slots -> WorkerPC]
         /\ Cardinality(Live) \in Nat /\ Cardinality(Idle) \in Nat
         /\ wpc[w] # "free" => Cardinality(Live) >= 1
         /\ wpc[w] \in {"select", "got"} => Cardinality(Idle) >= 1
         /\ Cardinality(Live') =
              CASE wpc[w] # "free" /\ label = "free" -> Cardinality(Live) - 1
                [] wpc[w] = "free" /\ label # "free" -> Cardinality(Live) + 1
                [] OTHER -> Cardinality(Live)
         /\ Cardinality(Idle') =
              CASE /\ wpc[w] \in {"select", "got"}
                   /\ label \notin {"select", "got"} -> Cardinality(Idle) - 1
                [] /\ wpc[w] \notin {"select", "got"}
                   /\ label \in {"select", "got"} -> Cardinality(Idle) + 1
                [] OTHER -> Cardinality(Idle)
<1>1. wpc \in [Slots -> WorkerPC] /\ wpc' = [wpc EXCEPT ![w] = label]
  BY DEF TypeOK, WGoto
<1>2. \A v \in Slots : wpc'[v] = IF v = w THEN label ELSE wpc[v]
  BY <1>1
<1>3. /\ w \in Live <=> wpc[w] # "free"
      /\ w \in Idle <=> wpc[w] \in {"select", "got"}
      /\ label = "free" => Live' = Live \ {w}
      /\ label # "free" => Live' = Live \cup {w}
      /\ label \notin {"select", "got"} => Idle' = Idle \ {w}
      /\ label \in {"select", "got"} => Idle' = Idle \cup {w}
  BY <1>1, <1>2 DEF Live, Idle
<1>4. Live \in SUBSET Slots /\ Idle \in SUBSET Slots
  BY DEF Live, Idle
<1>5. Counted(Live, Slots, w) /\ Counted(Idle, Slots, w)
  BY <1>4, PoolAssumption, SubsetCount
<1> QED
  BY <1>1, <1>3, <1>5 DEF Counted

\* What a step of request r does to the set of committed submitters.
LEMMA SubmitMove ==
  ASSUME TypeOK, NEW r \in Requests, NEW label \in SubmitPC, Goto(r, label)
  PROVE  /\ spc' \in [Requests -> SubmitPC]
         /\ Cardinality(Committed) \in Nat /\ Cardinality(Requests) \in Nat
         /\ Cardinality(Committed') <= Cardinality(Requests)
         /\ Cardinality(Committed') =
              CASE /\ spc[r] \in {"spawn", "spawnFull"}
                   /\ label \notin {"spawn", "spawnFull"}
                     -> Cardinality(Committed) - 1
                [] /\ spc[r] \notin {"spawn", "spawnFull"}
                   /\ label \in {"spawn", "spawnFull"}
                     -> Cardinality(Committed) + 1
                [] OTHER -> Cardinality(Committed)
<1>1. spc \in [Requests -> SubmitPC] /\ spc' = [spc EXCEPT ![r] = label]
  BY DEF TypeOK, Goto
<1>2. \A q \in Requests : spc'[q] = IF q = r THEN label ELSE spc[q]
  BY <1>1
<1>3. /\ r \in Committed <=> spc[r] \in {"spawn", "spawnFull"}
      /\ label \notin {"spawn", "spawnFull"} => Committed' = Committed \ {r}
      /\ label \in {"spawn", "spawnFull"} => Committed' = Committed \cup {r}
  BY <1>1, <1>2 DEF Committed
<1>4. Committed \in SUBSET Requests
  BY DEF Committed
<1>5. Counted(Committed, Requests, r)
  BY <1>4, PoolAssumption, SubsetCount
<1>6. spc' \in [Requests -> SubmitPC]
  BY <1>1
<1>7. Cardinality(Committed') <= Cardinality(Requests)
  <2>1. Committed' \in SUBSET Requests
    BY DEF Committed
  <2> QED
    BY <2>1, PoolAssumption, FS_Subset
<1> QED
  BY <1>3, <1>5, <1>6, <1>7 DEF Counted

-----------------------------------------------------------------------------
\* A pool that has not been started counts no goroutine.
LEMMA PoolInit == Init => PoolInv
<1> SUFFICES ASSUME Init PROVE PoolInv
  OBVIOUS
<1>2. PICK S \in SUBSET Slots :
        /\ Cardinality(S) = MinWorkers
        /\ wpc = [w \in Slots |-> IF w \in S THEN "mark" ELSE "free"]
  BY DEF Init
<1>1. TypeOK
  <2>1. wpc \in [Slots -> WorkerPC]
    BY <1>2 DEF WorkerPC
  <2>2. queue \in Seq(Requests) /\ Len(queue) <= QueueSize
    BY PoolAssumption DEF Init
  <2>3. workers \in Nat /\ idleWorkers \in Nat
    BY PoolAssumption DEF Init
  <2>4. /\ wtask \in [Slots -> Requests \cup {NoTask}]
        /\ spc \in [Requests -> SubmitPC] /\ ran \in [Requests -> Nat]
    BY DEF Init, SubmitPC
  <2> QED
    BY <2>1, <2>2, <2>3, <2>4 DEF Init, TypeOK, StopPC
<1>3. Live = S /\ Idle = {}
  BY <1>2 DEF Live, Idle
<1>4. Committed = {}
  BY DEF Init, Committed
<1>5. Cardinality(Committed) = 0 /\ Cardinality(Idle) = 0
  BY <1>3, <1>4, FS_EmptySet
<1>6. Cardinality(Requests) \in Nat /\ Cardinality(Requests) # 0
  BY PoolAssumption, FS_EmptySet, FS_CardinalityType
<1>7. CountersExact
  BY <1>2, <1>3, <1>5 DEF Init, CountersExact
<1>8. OvershootBounded
  BY <1>5, <1>6, PoolAssumption DEF Init, OvershootBounded
<1> QED
  BY <1>1, <1>7, <1>8 DEF PoolInv

\* Steps of Submit that start no worker: only the committed set can change, and
\* it grows only where workers < maxWorkers was read.
LEMMA SubmitStep ==
  ASSUME PoolInv, NEW r \in Requests,
         \/ LoadRunning(r) \/ TryEnqueue(r) \/ CheckIdle(r) \/ CheckWorkers(r)
         \/ CheckFull(r) \/ RetryEnqueue(r) \/ RunInline(r)
  PROVE  PoolInv'
<1> USE DEF PoolInv
<1>0. /\ TypeOK /\ CountersExact /\ OvershootBounded
      /\ workers \in Nat /\ MaxWorkers \in Nat
  BY PoolAssumption DEF TypeOK
<1>1. PICK label \in SubmitPC :
        /\ Goto(r, label)
        /\ label \in {"spawn", "spawnFull"} =>
              workers < MaxWorkers /\ spc[r] \notin {"spawn", "spawnFull"}
  <2>1. CASE LoadRunning(r)
    <3>1. Goto(r, "enqueue") \/ Goto(r, "inline")
      BY <2>1 DEF LoadRunning
    <3> QED  BY <3>1 DEF SubmitPC
  <2>2. CASE TryEnqueue(r)
    <3>1. Goto(r, "checkIdle") \/ Goto(r, "checkFull")
      BY <2>2 DEF TryEnqueue
    <3> QED  BY <3>1 DEF SubmitPC
  <2>3. CASE CheckIdle(r)
    <3>1. Goto(r, "checkWorkers") \/ Goto(r, "returned")
      BY <2>3 DEF CheckIdle
    <3> QED  BY <3>1 DEF SubmitPC
  <2>4. CASE CheckWorkers(r)
    <3>1. \/ Goto(r, "spawn") /\ workers < MaxWorkers
          \/ Goto(r, "returned")
      BY <2>4 DEF CheckWorkers
    <3> QED  BY <2>4, <3>1 DEF SubmitPC, CheckWorkers
  <2>5. CASE CheckFull(r)
    <3>1. \/ Goto(r, "spawnFull") /\ workers < MaxWorkers
          \/ Goto(r, "inline")
      BY <2>5 DEF CheckFull
    <3> QED  BY <2>5, <3>1 DEF SubmitPC, CheckFull
  <2>6. CASE RetryEnqueue(r) \/ RunInline(r)
    <3>1. Goto(r, "returned") \/ Goto(r, "inline")
      BY <2>6 DEF RetryEnqueue, RunInline
    <3> QED  BY <3>1 DEF SubmitPC
  <2> QED
    BY <2>1, <2>2, <2>3, <2>4, <2>5, <2>6
<1>2. UNCHANGED <<running, cancelled, workers, idleWorkers, wpc, wtask, stop>>
  BY DEF LoadRunning, TryEnqueue, CheckIdle, CheckWorkers, CheckFull,
         RetryEnqueue, RunInline
<1>3. queue' \in Seq(Requests) /\ Len(queue') <= QueueSize
  <2>1. \/ queue' = queue
        \/ queue' = Append(queue, r) /\ Len(queue) < QueueSize
    BY DEF LoadRunning, TryEnqueue, CheckIdle, CheckWorkers, CheckFull,
           RetryEnqueue, RunInline
  <2>2. queue \in Seq(Requests) /\ Len(queue) <= QueueSize
    BY <1>0 DEF TypeOK
  <2> QED
    BY <2>1, <2>2, PoolAssumption
<1>4. ran' \in [Requests -> Nat]
  BY DEF TypeOK, LoadRunning, TryEnqueue, CheckIdle, CheckWorkers, CheckFull,
         RetryEnqueue, RunInline
<1>5. TypeOK'
  BY <1>0, <1>1, <1>2, <1>3, <1>4, SubmitMove DEF TypeOK
<1>6. CountersExact'
  BY <1>0, <1>2 DEF CountersExact, Live, Idle
<1>7. OvershootBounded'
  BY <1>0, <1>1, <1>2, SubmitMove DEF OvershootBounded
<1> QED
  BY <1>5, <1>6, <1>7

\* Starting a worker turns one committed submitter into one worker.
LEMMA SpawnStep ==
  ASSUME PoolInv, NEW r \in Requests, Spawn(r) \/ SpawnFull(r)
  PROVE  PoolInv'
<1> USE DEF PoolInv
<1>0. /\ TypeOK /\ CountersExact /\ OvershootBounded /\ workers \in Nat
  BY DEF TypeOK
<1>1. PICK w \in Slots : wpc[w] = "free" /\ WGoto(w, "mark")
  BY DEF Spawn, SpawnFull, startWorker, WGoto
<1>2. PICK label \in SubmitPC :
        label \notin {"spawn", "spawnFull"} /\ Goto(r, label)
  BY DEF Spawn, SpawnFull, SubmitPC
<1>3. /\ workers' = workers + 1 /\ spc[r] \in {"spawn", "spawnFull"}
      /\ UNCHANGED <<queue, running, cancelled, idleWorkers, wtask, ran, stop>>
  BY DEF Spawn, SpawnFull, startWorker
<1>4. /\ Cardinality(Live') = Cardinality(Live) + 1
      /\ Cardinality(Idle') = Cardinality(Idle)
      /\ wpc' \in [Slots -> WorkerPC]
  <2>1. "mark" \in WorkerPC
    BY DEF WorkerPC
  <2> QED
    BY <1>0, <1>1, <2>1, WorkerMove
<1>5. /\ Cardinality(Committed') = Cardinality(Committed) - 1
      /\ Cardinality(Committed) \in Nat /\ Cardinality(Requests) \in Nat
      /\ spc' \in [Requests -> SubmitPC]
  BY <1>0, <1>2, <1>3, SubmitMove
<1>6. TypeOK'
  BY <1>0, <1>3, <1>4, <1>5 DEF TypeOK
<1>7. CountersExact'
  BY <1>0, <1>3, <1>4 DEF CountersExact
<1>8. OvershootBounded'
  BY <1>0, <1>3, <1>5, PoolAssumption DEF OvershootBounded
<1> QED
  BY <1>6, <1>7, <1>8

\* Steps of a worker: every path of the loop that enters or leaves the idle
\* set, or ends the goroutine, moves its counter the same way.
LEMMA WorkerStep ==
  ASSUME PoolInv, NEW w \in Slots, Worker(w)
  PROVE  PoolInv'
<1> USE DEF PoolInv
<1>0. /\ TypeOK /\ CountersExact /\ OvershootBounded
      /\ workers \in Nat /\ idleWorkers \in Nat
      /\ UNCHANGED <<running, cancelled, spc, stop>>
  BY DEF TypeOK, Worker, MarkIdle, TakeTask, UnmarkIdle, RunTask, IdleTimeout,
         CheckMin, CtxDone, Exit
<1>1. wpc'[w] \in WorkerPC /\ WGoto(w, wpc'[w])
  BY <1>0 DEF TypeOK, Worker, MarkIdle, TakeTask, UnmarkIdle, RunTask,
         IdleTimeout, CheckMin, CtxDone, Exit, WGoto, WorkerPC
<1>4. CountersExact' /\ workers' \in Nat /\ idleWorkers' \in Nat
      /\ workers' <= workers
  <2>1. /\ workers = Cardinality(Live) /\ idleWorkers = Cardinality(Idle)
    BY <1>0 DEF CountersExact
  <2>2. CASE MarkIdle(w)
    <3>1. /\ wpc[w] = "mark" /\ wpc'[w] = "select"
          /\ workers' = workers /\ idleWorkers' = idleWorkers + 1
      BY <1>0, <2>2 DEF MarkIdle, WGoto, TypeOK
    <3> QED
      BY <1>0, <1>1, <2>1, <3>1, WorkerMove DEF CountersExact
  <2>3. CASE TakeTask(w)
    <3>1. /\ wpc[w] = "select" /\ wpc'[w] = "got"
          /\ workers' = workers /\ idleWorkers' = idleWorkers
      BY <1>0, <2>3 DEF TakeTask, WGoto, TypeOK
    <3> QED
      BY <1>0, <1>1, <2>1, <3>1, WorkerMove DEF CountersExact
  <2>4. CASE UnmarkIdle(w)
    <3>1. /\ wpc[w] = "got" /\ wpc'[w] = "run"
          /\ workers' = workers /\ idleWorkers' = idleWorkers - 1
      BY <1>0, <2>4 DEF UnmarkIdle, WGoto, TypeOK
    <3> QED
      BY <1>0, <1>1, <2>1, <3>1, WorkerMove DEF CountersExact
  <2>5. CASE RunTask(w)
    <3>1. /\ wpc[w] = "run" /\ wpc'[w] = "mark"
          /\ workers' = workers /\ idleWorkers' = idleWorkers
      BY <1>0, <2>5 DEF RunTask, WGoto, TypeOK
    <3> QED
      BY <1>0, <1>1, <2>1, <3>1, WorkerMove DEF CountersExact
  <2>6. CASE IdleTimeout(w)
    <3>1. /\ wpc[w] = "select" /\ wpc'[w] = "check"
          /\ workers' = workers /\ idleWorkers' = idleWorkers - 1
      BY <1>0, <2>6 DEF IdleTimeout, WGoto, TypeOK
    <3> QED
      BY <1>0, <1>1, <2>1, <3>1, WorkerMove DEF CountersExact
  <2>7. CASE CheckMin(w)
    <3>1. /\ wpc[w] = "check" /\ wpc'[w] \in {"exit", "mark"}
          /\ workers' = workers /\ idleWorkers' = idleWorkers
      BY <1>0, <2>7 DEF CheckMin, WGoto, TypeOK
    <3> QED
      BY <1>0, <1>1, <2>1, <3>1, WorkerMove DEF CountersExact
  <2>8. CASE CtxDone(w)
    <3>1. /\ wpc[w] = "select" /\ wpc'[w] = "exit"
          /\ workers' = workers /\ idleWorkers' = idleWorkers - 1
      BY <1>0, <2>8 DEF CtxDone, WGoto, TypeOK
    <3> QED
      BY <1>0, <1>1, <2>1, <3>1, WorkerMove DEF CountersExact
  <2>9. CASE Exit(w)
    <3>1. /\ wpc[w] = "exit" /\ wpc'[w] = "free"
          /\ workers' = workers - 1 /\ idleWorkers' = idleWorkers
      BY <1>0, <2>9 DEF Exit, WGoto, TypeOK
    <3> QED
      BY <1>0, <1>1, <2>1, <3>1, WorkerMove DEF CountersExact
  <2> QED
    BY <2>2, <2>3, <2>4, <2>5, <2>6, <2>7, <2>8, <2>9 DEF Worker
<1>5. OvershootBounded'
  <2>1. Cardinality(Committed) \in Nat /\ Cardinality(Requests) \in Nat
    <3>1. Committed \in SUBSET Requests
      BY DEF Committed
    <3> QED
      BY <3>1, PoolAssumption, FS_Subset, FS_CardinalityType
  <2>2. Committed' = Committed
    BY <1>0 DEF Committed
  <2> QED
    BY <1>0, <1>4, <2>1, <2>2, PoolAssumption DEF OvershootBounded
<1>6. /\ queue' \in Seq(Requests) /\ Len(queue') <= QueueSize
      /\ wtask' \in [Slots -> Requests \cup {NoTask}]
  <2>1. CASE TakeTask(w)
    BY <1>0, <2>1, PoolAssumption DEF TakeTask, TypeOK
  <2>2. CASE ~TakeTask(w)
    BY <1>0, <2>2 DEF TypeOK, Worker, MarkIdle, UnmarkIdle, RunTask,
       IdleTimeout, CheckMin, CtxDone, Exit
  <2> QED
    BY <2>1, <2>2
<1>7. ran' \in [Requests -> Nat]
  <2>1. CASE RunTask(w)
    <3>1. ran \in [Requests -> Nat] /\ ran' = [ran EXCEPT ![wtask[w]] = @ + 1]
      BY <1>0, <2>1 DEF RunTask, TypeOK
    <3>2. ran' = [r \in Requests |-> IF r = wtask[w] THEN ran[r] + 1 ELSE ran[r]]
      BY <3>1
    <3>3. \A r \in Requests : ran[r] \in Nat
      BY <3>1
    <3> QED
      BY <3>2, <3>3
  <2>2. CASE ~RunTask(w)
    BY <1>0, <2>2 DEF TypeOK, Worker, MarkIdle, TakeTask, UnmarkIdle,
       IdleTimeout, CheckMin, CtxDone, Exit
  <2> QED
    BY <2>1, <2>2
<1>8. TypeOK'
  BY <1>0, <1>1, <1>4, <1>6, <1>7, WorkerMove DEF TypeOK
<1> QED
  BY <1>4, <1>5, <1>8

\* Start and Stop move no counter of a worker that exists.
LEMMA ControlStep ==
  ASSUME PoolInv, Start \/ Stop \/ UNCHANGED vars
  PROVE  PoolInv'
BY DEF PoolInv, TypeOK, CountersExact, OvershootBounded, Committed, Live, Idle,
       Start, Stop, StopBegin, StopCancel, StopDone, StopTimeout, StopPC, vars

\* The invariant is inductive.
LEMMA PoolNext == PoolInv /\ [Next]_vars => PoolInv'
<1> SUFFICES ASSUME PoolInv, [Next]_vars PROVE PoolInv'
  OBVIOUS
<1>1. CASE Start \/ Stop \/ UNCHANGED vars
  BY <1>1, ControlStep
<1>2. ASSUME NEW r \in Requests, Submit(r) PROVE PoolInv'
  BY <1>2, SubmitStep, SpawnStep DEF Submit
<1>3. ASSUME NEW w \in Slots, Worker(w) PROVE PoolInv'
  BY <1>3, WorkerStep
<1> QED
  BY <1>1, <1>2, <1>3 DEF Next

-----------------------------------------------------------------------------
\* Types, exact counters and the bounded overshoot hold together; no one of
\* them is inductive alone.
THEOREM PoolInvariant == Spec => []PoolInv
<1>1. Init => PoolInv
  BY PoolInit
<1>2. PoolInv /\ [Next]_vars => PoolInv'
  BY PoolNext
<1> QED
  BY <1>1, <1>2, PTL DEF Spec

\* The state of the pool keeps its types; in particular no atomic counter of
\* pool.go ever becomes negative and the queue never exceeds its capacity.
THEOREM PoolTypeOK == Spec => []TypeOK
<1>1. PoolInv => TypeOK
  BY DEF PoolInv
<1> QED
  BY <1>1, PoolInvariant, PTL

\* Submit (pool.go:162) always decides by the true numbers of goroutines.
THEOREM PoolCountersExact == Spec => []CountersExact
<1>1. PoolInv => CountersExact
  BY DEF PoolInv
<1> QED
  BY <1>1, PoolInvariant, PTL

\* For every configuration, the race between the test on workers and the start
\* of a worker exceeds maxWorkers by less than the number of submitters.
THEOREM PoolOvershoot == Spec => []OvershootBounded
<1>1. PoolInv => OvershootBounded
  BY DEF PoolInv
<1> QED
  BY <1>1, PoolInvariant, PTL

-----------------------------------------------------------------------------
(***************************************************************************)
(* Exactly-once execution.  TaskConserved is inductive together with the   *)
(* link between a worker's position and the task it holds.                 *)
(***************************************************************************)
HoldsTask ==
  \A w \in Slots : wtask[w] # NoTask <=> wpc[w] \in {"got", "run"}

TaskInv == TypeOK /\ HoldsTask /\ TaskConserved

\* The places of r: exactly one of the four alternatives of TaskConserved.
Place(r) ==
  \/ WithSubmitter(r) /\ ~Queued(r) /\ ~Held(r) /\ ran[r] = 0
  \/ ~WithSubmitter(r) /\ Queued(r) /\ ~Held(r) /\ ran[r] = 0
  \/ ~WithSubmitter(r) /\ ~Queued(r) /\ Held(r) /\ ran[r] = 0
  \/ ~WithSubmitter(r) /\ ~Queued(r) /\ ~Held(r) /\ ran[r] = 1

\* Steps that move no task.
LEMMA TaskStays ==
  ASSUME TaskInv, TypeOK', UNCHANGED <<queue, wtask, ran>>,
         \A r \in Requests : WithSubmitter(r)' <=> WithSubmitter(r),
         HoldsTask'
  PROVE  TaskInv'
<1>1. \A r \in Requests : Place(r)
  BY DEF TaskInv, TaskConserved, Place
<1>2. \A r \in Requests : Place(r)'
  BY <1>1 DEF Place, Queued, Held
<1> QED
  BY <1>2 DEF TaskInv, TaskConserved, Place, Queued, Held

\* The send of a task on the channel, from either select of Submit.
LEMMA TaskSent ==
  ASSUME TaskInv, TypeOK', NEW r \in Requests, WithSubmitter(r),
         queue' = Append(queue, r), UNCHANGED <<wtask, ran, wpc>>,
         ~WithSubmitter(r)',
         \A q \in Requests \ {r} : WithSubmitter(q)' <=> WithSubmitter(q)
  PROVE  TaskInv'
<1>1. /\ queue \in Seq(Requests) /\ Len(queue) \in Nat
      /\ Len(queue') = Len(queue) + 1
      /\ \A i \in 1..Len(queue) : queue'[i] = queue[i]
      /\ queue'[Len(queue) + 1] = r
  BY DEF TaskInv, TypeOK
<1>2. \A q \in Requests : Place(q)
  BY DEF TaskInv, TaskConserved, Place
<1>3. \A q \in Requests : Queued(q)' <=> Queued(q) \/ q = r
  BY <1>1 DEF Queued
<1>4. \A q \in Requests : Held(q)' <=> Held(q)
  BY DEF Held
<1>5. \A q \in Requests : Place(q)'
  BY <1>2, <1>3, <1>4 DEF Place
<1>6. ~Queued(r)
  BY <1>2 DEF Place
<1>7. \A i, j \in 1..Len(queue') : queue'[i] = queue'[j] => i = j
  BY <1>1, <1>6 DEF TaskInv, TaskConserved, Queued
<1>8. HoldsTask'
  BY DEF TaskInv, HoldsTask
<1> QED
  BY <1>5, <1>7, <1>8 DEF TaskInv, TaskConserved, Place

\* The receive of a task by worker w.
LEMMA TaskTaken ==
  ASSUME TaskInv, TypeOK', NEW w \in Slots, TakeTask(w)
  PROVE  TaskInv'
<1>0. /\ wpc[w] = "select" /\ queue # <<>> /\ queue' = Tail(queue)
      /\ wtask' = [wtask EXCEPT ![w] = Head(queue)]
      /\ wpc' = [wpc EXCEPT ![w] = "got"] /\ UNCHANGED <<spc, ran>>
  BY DEF TakeTask, WGoto
<1>1. /\ queue \in Seq(Requests) /\ Len(queue) \in Nat \ {0}
      /\ Len(queue') = Len(queue) - 1
      /\ \A i \in 1..Len(queue') : queue'[i] = queue[i + 1]
      /\ Head(queue) = queue[1] /\ queue[1] \in Requests
  BY <1>0 DEF TaskInv, TypeOK
<1>2. /\ \A v \in Slots : wtask'[v] = IF v = w THEN queue[1] ELSE wtask[v]
      /\ \A v \in Slots : wpc'[v] = IF v = w THEN "got" ELSE wpc[v]
  BY <1>0, <1>1 DEF TaskInv, TypeOK
<1>3. wtask[w] = NoTask /\ NoTask \notin Requests
  BY <1>0, PoolAssumption DEF TaskInv, HoldsTask
<1>4. HoldsTask'
  BY <1>1, <1>2, <1>3 DEF TaskInv, HoldsTask
<1>5. \A i, j \in 1..Len(queue) : queue[i] = queue[j] => i = j
  BY DEF TaskInv, TaskConserved
<1>6. \A q \in Requests : Queued(q)' <=> Queued(q) /\ q # queue[1]
  <2> SUFFICES ASSUME NEW q \in Requests
               PROVE  Queued(q)' <=> Queued(q) /\ q # queue[1]
    OBVIOUS
  <2>1. ASSUME Queued(q)' PROVE Queued(q) /\ q # queue[1]
    <3>1. PICK i \in 1..Len(queue') : queue'[i] = q
      BY <2>1 DEF Queued
    <3>2. i + 1 \in 1..Len(queue) /\ queue[i + 1] = q /\ i + 1 # 1
      BY <1>1, <3>1
    <3> QED
      BY <1>1, <1>5, <3>2 DEF Queued
  <2>2. ASSUME Queued(q), q # queue[1] PROVE Queued(q)'
    <3>1. PICK i \in 1..Len(queue) : queue[i] = q
      BY <2>2 DEF Queued
    <3>2. i # 1
      BY <2>2, <3>1
    <3>3. i - 1 \in 1..Len(queue') /\ queue'[i - 1] = q
      BY <1>1, <3>1, <3>2
    <3> QED
      BY <3>3 DEF Queued
  <2> QED
    BY <2>1, <2>2
<1>7. Queued(queue[1])
  BY <1>1 DEF Queued
<1>8. \A q \in Requests : Held(q)' <=> Held(q) \/ q = queue[1]
  BY <1>1, <1>2, <1>3 DEF Held
<1>9. \A q \in Requests : WithSubmitter(q)' <=> WithSubmitter(q)
  BY <1>0 DEF WithSubmitter
<1>10. \A q \in Requests : Place(q)
  BY DEF TaskInv, TaskConserved, Place
<1>11. \A q \in Requests : Place(q)'
  BY <1>0, <1>1, <1>6, <1>7, <1>8, <1>9, <1>10 DEF Place
<1>12. \A i, j \in 1..Len(queue') : queue'[i] = queue'[j] => i = j
  <2> SUFFICES ASSUME NEW i \in 1..Len(queue'), NEW j \in 1..Len(queue'),
                      queue'[i] = queue'[j]
               PROVE  i = j
    OBVIOUS
  <2>1. /\ i + 1 \in 1..Len(queue) /\ j + 1 \in 1..Len(queue)
        /\ queue[i + 1] = queue[j + 1]
    BY <1>1
  <2>2. i + 1 = j + 1
    BY <1>5, <2>1
  <2> QED
    BY <1>1, <2>2
<1>13. \A u, v \in Slots :
          wtask'[u] = wtask'[v] /\ wtask'[u] # NoTask => u = v
  <2>1. ~Held(queue[1])
    BY <1>1, <1>7, <1>10 DEF Place
  <2> QED
    BY <1>2, <2>1 DEF TaskInv, TaskConserved, Held
<1> QED
  BY <1>4, <1>11, <1>12, <1>13 DEF TaskInv, TaskConserved, Place

\* The execution of the task worker w holds.
LEMMA TaskRun ==
  ASSUME TaskInv, TypeOK', NEW w \in Slots, RunTask(w)
  PROVE  TaskInv'
<1>0. /\ wpc[w] = "run" /\ ran' = [ran EXCEPT ![wtask[w]] = @ + 1]
      /\ wtask' = [wtask EXCEPT ![w] = NoTask]
      /\ wpc' = [wpc EXCEPT ![w] = "mark"] /\ UNCHANGED <<queue, spc>>
  BY DEF RunTask, WGoto
<1>1. wtask[w] \in Requests /\ Held(wtask[w])
  BY <1>0 DEF TaskInv, TypeOK, HoldsTask, Held
<1>2. /\ \A v \in Slots : wtask'[v] = IF v = w THEN NoTask ELSE wtask[v]
      /\ \A v \in Slots : wpc'[v] = IF v = w THEN "mark" ELSE wpc[v]
      /\ \A q \in Requests :
            ran'[q] = IF q = wtask[w] THEN ran[q] + 1 ELSE ran[q]
  BY <1>0, <1>1 DEF TaskInv, TypeOK
<1>3. HoldsTask'
  BY <1>2 DEF TaskInv, HoldsTask
<1>4. \A u, v \in Slots :
        wtask'[u] = wtask'[v] /\ wtask'[u] # NoTask => u = v
  BY <1>2 DEF TaskInv, TaskConserved
<1>5. \A q \in Requests : Held(q)' <=> Held(q) /\ q # wtask[w]
  <2>1. \A v \in Slots : wtask[v] = wtask[w] => v = w
    BY <1>1, PoolAssumption DEF TaskInv, TaskConserved
  <2> QED
    BY <1>2, <2>1, PoolAssumption DEF Held
<1>6. \A q \in Requests :
        (Queued(q)' <=> Queued(q)) /\ (WithSubmitter(q)' <=> WithSubmitter(q))
  BY <1>0 DEF Queued, WithSubmitter
<1>7. \A q \in Requests : Place(q)
  BY DEF TaskInv, TaskConserved, Place
<1>8. \A q \in Requests : Place(q)'
  BY <1>1, <1>2, <1>5, <1>6, <1>7 DEF Place
<1> QED
  BY <1>0, <1>3, <1>4, <1>8 DEF TaskInv, TaskConserved, Place

\* The fallback of Submit that executes the task on the caller's goroutine.
LEMMA TaskInline ==
  ASSUME TaskInv, TypeOK', NEW r \in Requests, RunInline(r)
  PROVE  TaskInv'
<1>0. /\ spc[r] = "inline" /\ ran' = [ran EXCEPT ![r] = @ + 1]
      /\ spc' = [spc EXCEPT ![r] = "returned"]
      /\ UNCHANGED <<queue, wtask, wpc>>
  BY DEF RunInline, Goto
<1>1. /\ \A q \in Requests : spc'[q] = IF q = r THEN "returned" ELSE spc[q]
      /\ \A q \in Requests : ran'[q] = IF q = r THEN ran[q] + 1 ELSE ran[q]
  BY <1>0 DEF TaskInv, TypeOK
<1>2. \A q \in Requests :
        /\ Queued(q)' <=> Queued(q)
        /\ Held(q)' <=> Held(q)
        /\ WithSubmitter(q)' <=> WithSubmitter(q) /\ q # r
  BY <1>0, <1>1 DEF Queued, Held, WithSubmitter
<1>3. WithSubmitter(r)
  BY <1>0 DEF WithSubmitter
<1>4. \A q \in Requests : Place(q)
  BY DEF TaskInv, TaskConserved, Place
<1>5. \A q \in Requests : Place(q)'
  BY <1>1, <1>2, <1>3, <1>4 DEF Place
<1>6. HoldsTask'
  BY <1>0 DEF TaskInv, HoldsTask
<1> QED
  BY <1>0, <1>5, <1>6 DEF TaskInv, TaskConserved, Place

\* A step of Submit either sends the task, runs it, or moves no task.
LEMMA TaskSubmit ==
  ASSUME TaskInv, TypeOK', NEW r \in Requests, Submit(r)
  PROVE  TaskInv'
<1>0. spc \in [Requests -> SubmitPC] /\ wtask \in [Slots -> Requests \cup {NoTask}]
  BY DEF TaskInv, TypeOK
<1>1. CASE \/ LoadRunning(r) \/ CheckIdle(r) \/ CheckWorkers(r) \/ CheckFull(r)
           \/ (TryEnqueue(r) /\ queue' = queue)
           \/ (RetryEnqueue(r) /\ queue' = queue)
  <2>1. UNCHANGED <<queue, wtask, ran, wpc>>
    BY <1>1 DEF LoadRunning, CheckIdle, CheckWorkers, CheckFull, TryEnqueue,
       RetryEnqueue
  <2>2. \A q \in Requests \ {r} : spc'[q] = spc[q]
    BY <1>0, <1>1 DEF LoadRunning, CheckIdle, CheckWorkers, CheckFull,
       TryEnqueue, RetryEnqueue, Goto
  <2>3. WithSubmitter(r)' <=> WithSubmitter(r)
    <3>1. CASE LoadRunning(r)
      BY <1>0, <3>1 DEF LoadRunning, Goto, WithSubmitter
    <3>2. CASE CheckIdle(r)
      BY <1>0, <3>2 DEF CheckIdle, Goto, WithSubmitter
    <3>3. CASE CheckWorkers(r)
      BY <1>0, <3>3 DEF CheckWorkers, Goto, WithSubmitter
    <3>4. CASE CheckFull(r)
      BY <1>0, <3>4 DEF CheckFull, Goto, WithSubmitter
    <3>5. CASE TryEnqueue(r) /\ queue' = queue
      <4>1. queue # Append(queue, r)
        BY DEF TaskInv, TypeOK
      <4> QED
        BY <1>0, <3>5, <4>1 DEF TryEnqueue, Goto, WithSubmitter
    <3>6. CASE RetryEnqueue(r) /\ queue' = queue
      <4>1. queue # Append(queue, r)
        BY DEF TaskInv, TypeOK
      <4> QED
        BY <1>0, <3>6, <4>1 DEF RetryEnqueue, Goto, WithSubmitter
    <3> QED
      BY <1>1, <3>1, <3>2, <3>3, <3>4, <3>5, <3>6
  <2>4. \A q \in Requests : WithSubmitter(q)' <=> WithSubmitter(q)
    BY <2>2, <2>3 DEF WithSubmitter
  <2>5. HoldsTask'
    BY <2>1 DEF TaskInv, HoldsTask
  <2> QED
    BY <2>1, <2>4, <2>5, TaskStays
<1>2. CASE Spawn(r) \/ SpawnFull(r)
  <2>1. UNCHANGED <<queue, wtask, ran>>
    BY <1>2 DEF Spawn, SpawnFull
  <2>2. \A q \in Requests : WithSubmitter(q)' <=> WithSubmitter(q)
    BY <1>0, <1>2 DEF Spawn, SpawnFull, Goto, WithSubmitter
  <2>3. PICK w \in Slots :
          wpc[w] = "free" /\ wpc' = [wpc EXCEPT ![w] = "mark"]
    BY <1>2 DEF Spawn, SpawnFull, startWorker
  <2>4. \A v \in Slots : wpc'[v] = IF v = w THEN "mark" ELSE wpc[v]
    BY <2>3 DEF TaskInv, TypeOK
  <2>5. HoldsTask'
    BY <2>1, <2>3, <2>4 DEF TaskInv, HoldsTask
  <2> QED
    BY <2>1, <2>2, <2>5, TaskStays
<1>3. CASE /\ TryEnqueue(r) \/ RetryEnqueue(r)
           /\ queue' # queue
  <2>1. /\ queue' = Append(queue, r) /\ UNCHANGED <<wtask, ran, wpc>>
        /\ spc[r] \in {"enqueue", "retry"}
        /\ spc' = [spc EXCEPT ![r] = "checkIdle"] \/
           spc' = [spc EXCEPT ![r] = "returned"]
    BY <1>3 DEF TryEnqueue, RetryEnqueue, Goto
  <2>2. /\ WithSubmitter(r) /\ ~WithSubmitter(r)'
        /\ \A q \in Requests \ {r} : WithSubmitter(q)' <=> WithSubmitter(q)
    BY <1>0, <2>1 DEF WithSubmitter
  <2> QED
    BY <2>1, <2>2, TaskSent
<1>4. CASE RunInline(r)
  BY <1>4, TaskInline
<1> QED
  BY <1>1, <1>2, <1>3, <1>4 DEF Submit

\* A worker receives a task, executes it, or moves no task.
LEMMA TaskWorker ==
  ASSUME TaskInv, TypeOK', NEW w \in Slots, Worker(w)
  PROVE  TaskInv'
<1>1. CASE \/ MarkIdle(w) \/ UnmarkIdle(w) \/ IdleTimeout(w) \/ CheckMin(w)
           \/ CtxDone(w) \/ Exit(w)
  <2>1. UNCHANGED <<queue, wtask, ran, spc>>
    BY <1>1 DEF MarkIdle, UnmarkIdle, IdleTimeout, CheckMin, CtxDone, Exit
  <2>2. /\ wpc'[w] \in {"got", "run"} <=> wpc[w] \in {"got", "run"}
        /\ \A v \in Slots \ {w} : wpc'[v] = wpc[v]
    BY <1>1 DEF TaskInv, TypeOK, MarkIdle, UnmarkIdle, IdleTimeout, CheckMin,
       CtxDone, Exit, WGoto
  <2>3. HoldsTask'
    BY <2>1, <2>2 DEF TaskInv, HoldsTask
  <2>4. \A q \in Requests : WithSubmitter(q)' <=> WithSubmitter(q)
    BY <2>1 DEF WithSubmitter
  <2> QED
    BY <2>1, <2>3, <2>4, TaskStays
<1> QED
  BY <1>1, TaskTaken, TaskRun DEF Worker

\* Every task stays in exactly one place.
LEMMA TaskNext == TaskInv /\ TypeOK' /\ [Next]_vars => TaskInv'
<1> SUFFICES ASSUME TaskInv, TypeOK', [Next]_vars PROVE TaskInv'
  OBVIOUS
<1>1. CASE Start \/ Stop \/ UNCHANGED vars
  <2>1. UNCHANGED <<queue, wtask, ran, spc, wpc>>
    BY <1>1 DEF Start, Stop, StopBegin, StopCancel, StopDone, StopTimeout, vars
  <2>2. HoldsTask' /\ \A q \in Requests : WithSubmitter(q)' <=> WithSubmitter(q)
    BY <2>1 DEF TaskInv, HoldsTask, WithSubmitter
  <2> QED
    BY <2>1, <2>2, TaskStays
<1>2. ASSUME NEW r \in Requests, Submit(r) PROVE TaskInv'
  BY <1>2, TaskSubmit
<1>3. ASSUME NEW w \in Slots, Worker(w) PROVE TaskInv'
  BY <1>3, TaskWorker
<1> QED
  BY <1>1, <1>2, <1>3 DEF Next

\* Whatever the interleaving, no request's task is lost or executed twice.
THEOREM PoolExactlyOnce == Spec => []TaskConserved
<1>1. Init => TaskInv
  <2> SUFFICES ASSUME Init PROVE TaskInv
    OBVIOUS
  <2>1. TypeOK
    BY PoolInit DEF PoolInv
  <2>2. HoldsTask
    BY DEF Init, HoldsTask
  <2>3. TaskConserved
    BY PoolAssumption
    DEF Init, TaskConserved, WithSubmitter, Queued, Held
  <2> QED
    BY <2>1, <2>2, <2>3 DEF TaskInv
<1>2. TaskInv /\ TypeOK' /\ [Next]_vars => TaskInv'
  BY TaskNext
<1>3. TaskInv => TaskConserved
  BY DEF TaskInv
<1> QED
  BY <1>1, <1>2, <1>3, PoolTypeOK, PTL DEF Spec

-----------------------------------------------------------------------------
(* UDP sessions *)

\* Whose a session is, and what serve knows of the client it works for: it
\* creates a session only where the map has none, because no other goroutine
\* adds to the map between getSession and the write lock.
SessionOwners ==
  /\ \A c \in Clients : sessions[c] # UdpNone => client[sessions[c]] = c
  /\ \A s \in Sessions : reader[s] # "none" => client[s] \in Clients
  /\ \A s \in Sessions : open[s] => udpTarget[s] \in UdpTargets
  /\ serve \in {"lookup", "create", "write"} => udpCur \in Clients
  /\ serve = "write" => curSession \in Sessions
  /\ serve = "create" => sessions[udpCur] = UdpNone

UdpInv == SessionsExact /\ SessionOwners

\* Closing sessions, each once, keeps the counts of their targets exact.
LEMMA CloseCounts ==
  ASSUME UdpTypeOK, SessionsCounted, NEW S, CloseAll(S), udpTarget' = udpTarget
  PROVE  /\ open' \in [Sessions -> BOOLEAN] /\ udpConns' \in [UdpTargets -> Nat]
         /\ \A t \in UdpTargets : udpConns'[t] = Cardinality(OpenOn(t)')
<1>1. open' = [s \in Sessions |-> open[s] /\ s \notin S]
  BY DEF CloseAll
<1>2. open' \in [Sessions -> BOOLEAN]
  BY <1>1 DEF UdpTypeOK
<1>3. ASSUME NEW t \in UdpTargets
      PROVE  /\ udpConns'[t] = Cardinality(OpenOn(t)') /\ udpConns'[t] \in Nat
  <2>1. OpenOn(t)' = OpenOn(t) \ S
    BY <1>1 DEF OpenOn, UdpTypeOK
  <2>2. OpenOn(t) \in SUBSET Sessions
    BY DEF OpenOn
  <2>3. IsFiniteSet(OpenOn(t))
    BY <2>2, FS_Subset, UDPAssumption
  <2>4. udpConns'[t] = Cardinality(OpenOn(t)) - Cardinality(OpenOn(t) \cap S)
    BY DEF CloseAll, SessionsCounted
  <2> QED
    BY <2>1, <2>3, <2>4, TakenAway
<1>4. udpConns' \in [UdpTargets -> Nat]
  BY <1>3 DEF CloseAll
<1> QED
  BY <1>2, <1>3, <1>4

\* What removeSession, the cleanup and Stop have in common: the sessions of S
\* leave the map and are closed.
LEMMA ForgetSessions ==
  ASSUME UdpInv, NEW S \in SUBSET Sessions, CloseAll(S),
         sessions' = [c \in Clients |-> IF sessions[c] \in S THEN UdpNone ELSE sessions[c]],
         UNCHANGED <<client, udpTarget, idle, udpHealthy>>,
         reader' \in [Sessions -> {"none", "read", "reply", "remove", "held"}],
         \A s \in Sessions : reader'[s] # reader[s] =>
            reader[s] = "remove" /\ client[s] \in Clients
            /\ (sessions[client[s]] = s => s \in S),
         serve' \in {"read", "lookup", "create", "write", "done"},
         udpCur' \in Clients \cup {UdpNone}, curSession' \in Sessions \cup {UdpNone},
         (serve' = serve /\ udpCur' = udpCur /\ curSession' = curSession) \/ serve' = "read",
         cleaner' \in BOOLEAN, stopped' \in BOOLEAN
  PROVE  UdpInv'
<1> USE DEF UdpInv, SessionsExact, SessionsCounted
<1>1. /\ open' \in [Sessions -> BOOLEAN] /\ udpConns' \in [UdpTargets -> Nat]
      /\ \A t \in UdpTargets : udpConns'[t] = Cardinality(OpenOn(t)')
  BY CloseCounts
<1>2. sessions' \in [Clients -> Sessions \cup {UdpNone}]
  BY DEF UdpTypeOK
<1>3. UdpTypeOK'
  BY <1>1, <1>2 DEF UdpTypeOK
<1>4. \A s \in Sessions : open'[s] = (open[s] /\ s \notin S)
  BY DEF CloseAll
<1>5. \A c \in Clients : sessions'[c] = IF sessions[c] \in S THEN UdpNone ELSE sessions[c]
  OBVIOUS
<1>6. MapOwnsSessions'
  <2> SUFFICES ASSUME NEW s \in Sessions
               PROVE  /\ open'[s] <=> \E c \in Clients : sessions'[c] = s
                      /\ open'[s] => sessions'[client'[s]] = s
                      /\ open'[s] => reader'[s] \in {"read", "reply", "remove"}
    BY DEF MapOwnsSessions
  <2>0. s # UdpNone
    BY UDPAssumption
  <2>1. open'[s] <=> \E c \in Clients : sessions'[c] = s
    <3>1. open[s] <=> \E c \in Clients : sessions[c] = s
      BY DEF MapOwnsSessions
    <3>2. \A c \in Clients : sessions'[c] = s <=> sessions[c] = s /\ s \notin S
      BY <1>5, <2>0
    <3> QED
      BY <1>4, <3>1, <3>2
  <2>2. ASSUME open'[s] PROVE sessions'[client'[s]] = s
    <3>1. open[s] /\ s \notin S /\ sessions[client[s]] = s
      BY <1>4, <2>2 DEF MapOwnsSessions
    <3>2. client[s] \in Clients
      BY <3>1 DEF MapOwnsSessions, SessionOwners
    <3> QED
      BY <1>5, <3>1, <3>2
  <2>3. ASSUME open'[s] PROVE reader'[s] \in {"read", "reply", "remove"}
    <3>1. open[s] /\ s \notin S /\ sessions[client[s]] = s
      BY <1>4, <2>3 DEF MapOwnsSessions
    <3> QED
      BY <3>1 DEF MapOwnsSessions
  <2> QED
    BY <2>1, <2>2, <2>3
<1>7. SessionOwners'
  <2>1. \A c \in Clients : sessions'[c] # UdpNone => client'[sessions'[c]] = c
    BY <1>5 DEF SessionOwners
  <2>2. \A s \in Sessions : reader'[s] # "none" => client'[s] \in Clients
    BY DEF SessionOwners
  <2>3. \A s \in Sessions : open'[s] => udpTarget'[s] \in UdpTargets
    BY <1>4 DEF SessionOwners
  <2>4. /\ serve' \in {"lookup", "create", "write"} => udpCur' \in Clients
        /\ serve' = "write" => curSession' \in Sessions
    BY DEF SessionOwners
  <2>5. serve' = "create" => sessions'[udpCur'] = UdpNone
    BY <1>5 DEF SessionOwners
  <2> QED
    BY <2>1, <2>2, <2>3, <2>4, <2>5 DEF SessionOwners
<1> QED
  BY <1>1, <1>3, <1>6, <1>7

\* removeSession closes and forgets whichever session client c has.
LEMMA RemovedSession ==
  ASSUME UdpInv, NEW c \in Clients, RemoveSession(c)
  PROVE  \E S \in SUBSET Sessions :
            /\ S = {sessions[c]} \ {UdpNone} /\ CloseAll(S)
            /\ sessions' = [d \in Clients |-> IF sessions[d] \in S THEN UdpNone ELSE sessions[d]]
<1> DEFINE S == {sessions[c]} \ {UdpNone}
<1>1. S \in SUBSET Sessions
  BY DEF UdpInv, SessionsExact, SessionsCounted, UdpTypeOK
<1>2. sessions' = [sessions EXCEPT ![c] = UdpNone]
  BY DEF RemoveSession
<1>3. ASSUME NEW d \in Clients, sessions[d] \in S PROVE d = c
  BY <1>3 DEF UdpInv, SessionOwners
<1>4. sessions' = [d \in Clients |-> IF sessions[d] \in S THEN UdpNone ELSE sessions[d]]
  BY <1>2, <1>3 DEF UdpInv, SessionsExact, SessionsCounted, UdpTypeOK
<1> QED
  BY <1>1, <1>4 DEF RemoveSession

\* Steps that create and close no session.
LEMMA SessionsStay ==
  ASSUME UdpInv, UdpTypeOK', UNCHANGED <<sessions, open, client, udpTarget, udpConns>>,
         \A s \in Sessions : reader[s] = "none" <=> reader'[s] = "none",
         \A s \in Sessions : reader[s] \in {"read", "reply", "remove"} =>
            reader'[s] \in {"read", "reply", "remove"},
         serve' \in {"lookup", "create", "write"} => udpCur' \in Clients,
         serve' = "write" => curSession' \in Sessions,
         serve' = "create" => sessions[udpCur'] = UdpNone
  PROVE  UdpInv'
<1> USE DEF UdpInv, SessionsExact, SessionsCounted
<1>1. \A t \in UdpTargets : udpConns'[t] = Cardinality(OpenOn(t)')
  BY DEF OpenOn
<1>2. MapOwnsSessions'
  BY DEF MapOwnsSessions
<1>3. SessionOwners'
  BY DEF SessionOwners
<1> QED
  BY <1>1, <1>2, <1>3

\* A new session is open, in the map and counted on its target.
LEMMA CreateSessionStep == ASSUME UdpInv, CreateSession PROVE UdpInv'
<1> USE DEF UdpInv, SessionsExact, SessionsCounted
<1>1. PICK s \in Fresh, t \in UdpTargets :
          /\ sessions' = [sessions EXCEPT ![udpCur] = s]
          /\ open' = [open EXCEPT ![s] = TRUE]
          /\ client' = [client EXCEPT ![s] = udpCur]
          /\ udpTarget' = [udpTarget EXCEPT ![s] = t]
          /\ idle' = [idle EXCEPT ![s] = FALSE]
          /\ reader' = [reader EXCEPT ![s] = "read"]
          /\ udpConns' = [udpConns EXCEPT ![t] = @ + 1]
          /\ curSession' = s
  BY DEF CreateSession
<1>2. s \in Sessions /\ ~open[s] /\ reader[s] = "none"
  BY DEF Fresh
<1>3. /\ serve = "create" /\ serve' = "write"
      /\ UNCHANGED <<udpHealthy, udpCur, cleaner, stopped>>
  BY DEF CreateSession
<1>4. udpCur \in Clients /\ sessions[udpCur] = UdpNone
  BY <1>3 DEF SessionOwners
<1>5. UdpTypeOK'
  BY <1>1, <1>2, <1>3, <1>4 DEF UdpTypeOK
<1>6. ASSUME NEW u \in UdpTargets PROVE udpConns'[u] = Cardinality(OpenOn(u)')
  <2>1. OpenOn(u) \in SUBSET Sessions /\ s \notin OpenOn(u)
    BY <1>2 DEF OpenOn
  <2>2. Counted(OpenOn(u), Sessions, s)
    BY <1>2, <2>1, SubsetCount, UDPAssumption
  <2>3. CASE u = t
    <3>1. OpenOn(u)' = OpenOn(u) \cup {s}
      BY <1>1, <1>2, <2>3 DEF OpenOn, UdpTypeOK
    <3> QED
      BY <1>1, <2>1, <2>2, <2>3, <3>1 DEF Counted, UdpTypeOK
  <2>4. CASE u # t
    <3>1. OpenOn(u)' = OpenOn(u)
      BY <1>1, <1>2, <2>4 DEF OpenOn, UdpTypeOK
    <3> QED
      BY <1>1, <2>4, <3>1 DEF UdpTypeOK
  <2> QED
    BY <2>3, <2>4
<1>7. \A c \in Clients : sessions[c] # s
  BY <1>2 DEF MapOwnsSessions
<1>8. MapOwnsSessions'
  <2> SUFFICES ASSUME NEW x \in Sessions
               PROVE  /\ open'[x] <=> \E c \in Clients : sessions'[c] = x
                      /\ open'[x] => sessions'[client'[x]] = x
                      /\ open'[x] => reader'[x] \in {"read", "reply", "remove"}
    BY DEF MapOwnsSessions
  <2>1. CASE x = s
    BY <1>1, <1>2, <1>4, <2>1 DEF UdpTypeOK
  <2>2. CASE x # s
    <3>1. /\ open'[x] = open[x] /\ client'[x] = client[x] /\ reader'[x] = reader[x]
      BY <1>1, <1>2, <2>2 DEF UdpTypeOK
    <3>2. \A c \in Clients : sessions'[c] = x <=> sessions[c] = x
      BY <1>1, <1>4, <2>2, UDPAssumption DEF UdpTypeOK
    <3>3. open[x] => client[x] \in Clients
      BY DEF MapOwnsSessions, SessionOwners
    <3> QED
      BY <3>1, <3>2, <3>3 DEF MapOwnsSessions
  <2> QED
    BY <2>1, <2>2
<1>9. SessionOwners'
  <2>1. ASSUME NEW c \in Clients, sessions'[c] # UdpNone PROVE client'[sessions'[c]] = c
    <3>1. CASE c = udpCur
      BY <1>1, <1>2, <1>4, <3>1 DEF UdpTypeOK
    <3>2. CASE c # udpCur
      <4>1. sessions'[c] = sessions[c] /\ sessions[c] # s /\ sessions[c] \in Sessions
        BY <1>1, <1>7, <2>1, <3>2 DEF UdpTypeOK
      <4> QED
        BY <1>1, <2>1, <4>1 DEF UdpTypeOK, SessionOwners
    <3> QED
      BY <3>1, <3>2
  <2>2. \A x \in Sessions : reader'[x] # "none" => client'[x] \in Clients
    BY <1>1, <1>2, <1>4 DEF UdpTypeOK, SessionOwners
  <2>3. \A x \in Sessions : open'[x] => udpTarget'[x] \in UdpTargets
    BY <1>1, <1>2 DEF UdpTypeOK, SessionOwners
  <2> QED
    BY <1>1, <1>2, <1>3, <1>4, <2>1, <2>2, <2>3 DEF SessionOwners
<1> QED
  BY <1>5, <1>6, <1>8, <1>9

\* The steps of the serve loop.
LEMMA ServeStep == ASSUME UdpInv, Serve PROVE UdpInv'
<1> USE DEF UdpInv, SessionsExact, SessionsCounted, udpSvars
<1>1. CASE \E c \in Clients : Receive(c)
  <2>1. UdpTypeOK'
    BY <1>1 DEF Receive, UdpTypeOK
  <2> QED
    BY <1>1, <2>1, SessionsStay DEF Receive
<1>2. CASE GetSession
  <2>0. udpCur \in Clients
    BY <1>2 DEF GetSession, SessionOwners
  <2>1. UdpTypeOK'
    BY <1>2, <2>0 DEF GetSession, UdpTypeOK
  <2>2. serve' = "write" => curSession' \in Sessions
    BY <1>2, <2>0 DEF GetSession, UdpTypeOK
  <2>3. serve' = "create" => sessions[udpCur'] = UdpNone
    BY <1>2 DEF GetSession
  <2> QED
    BY <1>2, <2>0, <2>1, <2>2, <2>3, SessionsStay DEF GetSession
<1>3. CASE CreateSession
  BY <1>3, CreateSessionStep
<1>4. CASE CreateFails
  <2>1. UdpTypeOK'
    BY <1>4 DEF CreateFails, UdpTypeOK
  <2> QED
    BY <1>4, <2>1, SessionsStay DEF CreateFails
<1>5. CASE WriteSucceeds
  <2>1. UdpTypeOK'
    BY <1>5 DEF WriteSucceeds, UdpTypeOK
  <2> QED
    BY <1>5, <2>1, SessionsStay DEF WriteSucceeds
<1>6. CASE WriteFails
  <2>1. udpCur \in Clients /\ RemoveSession(udpCur)
    BY <1>6 DEF WriteFails, SessionOwners
  <2>2. PICK S \in SUBSET Sessions :
            /\ CloseAll(S)
            /\ sessions' = [d \in Clients |-> IF sessions[d] \in S THEN UdpNone ELSE sessions[d]]
    BY <2>1, RemovedSession
  <2>3. /\ UNCHANGED <<client, udpTarget, idle, reader, udpHealthy, cleaner, stopped>>
        /\ serve' = "read" /\ udpCur' = UdpNone /\ curSession' = UdpNone
    BY <1>6 DEF WriteFails, RemoveSession
  <2>4. /\ reader \in [Sessions -> {"none", "read", "reply", "remove", "held"}]
        /\ cleaner \in BOOLEAN /\ stopped \in BOOLEAN
    BY DEF UdpTypeOK
  <2> QED
    BY <2>2, <2>3, <2>4, ForgetSessions
<1>7. CASE ServeEnds
  <2>1. UdpTypeOK'
    BY <1>7 DEF ServeEnds, UdpTypeOK
  <2> QED
    BY <1>7, <2>1, SessionsStay DEF ServeEnds
<1> QED
  BY <1>1, <1>2, <1>3, <1>4, <1>5, <1>6, <1>7 DEF Serve

\* The steps of the goroutine of session s.
LEMMA ReaderStep == ASSUME UdpInv, NEW s \in Sessions, Reader(s) PROVE UdpInv'
<1> USE DEF UdpInv, SessionsExact, SessionsCounted, udpSvars
<1>1. CASE ReadAnswer(s) \/ ReadTimesOut(s) \/ ReadFails(s) \/ Reply(s) \/ ReplyFails(s)
  <2>1. PICK label \in {"read", "reply", "remove"} :
          /\ reader[s] \in {"read", "reply"} /\ reader' = [reader EXCEPT ![s] = label]
    BY <1>1 DEF ReadAnswer, ReadTimesOut, ReadFails, Reply, ReplyFails
  <2>2. /\ UNCHANGED <<sessions, open, client, udpTarget, udpConns, udpHealthy, serve,
                       udpCur, curSession, cleaner, stopped>>
        /\ idle' = idle \/ idle' = [idle EXCEPT ![s] = FALSE]
    BY <1>1 DEF ReadAnswer, ReadTimesOut, ReadFails, Reply, ReplyFails
  <2>3. UdpTypeOK'
    BY <2>1, <2>2 DEF UdpTypeOK
  <2>4. \A x \in Sessions : reader'[x] = IF x = s THEN label ELSE reader[x]
    BY <2>1 DEF UdpTypeOK
  <2>5. \A x \in Sessions :
           /\ reader[x] = "none" <=> reader'[x] = "none"
           /\ reader[x] \in {"read", "reply", "remove"} =>
                 reader'[x] \in {"read", "reply", "remove"}
    BY <2>1, <2>4
  <2>6. /\ serve \in {"lookup", "create", "write"} => udpCur \in Clients
        /\ serve = "write" => curSession \in Sessions
        /\ serve = "create" => sessions[udpCur] = UdpNone
    BY DEF SessionOwners
  <2> QED
    BY <2>2, <2>3, <2>5, <2>6, SessionsStay
<1>2. CASE ReaderRemoves(s)
  <2>1. /\ reader[s] = "remove" /\ RemoveSession(client[s])
        /\ reader' = [reader EXCEPT ![s] = IF curSession = s THEN "held" ELSE "none"]
        /\ UNCHANGED <<udpHealthy, serve, udpCur, curSession, cleaner, stopped>>
    BY <1>2 DEF ReaderRemoves
  <2>2. client[s] \in Clients
    BY <2>1 DEF SessionOwners
  <2>3. PICK S \in SUBSET Sessions :
            /\ S = {sessions[client[s]]} \ {UdpNone} /\ CloseAll(S)
            /\ sessions' = [d \in Clients |-> IF sessions[d] \in S THEN UdpNone ELSE sessions[d]]
    BY <2>1, <2>2, RemovedSession
  <2>4. sessions[client[s]] = s => s \in S
    BY <2>3, UDPAssumption
  <2>5. UNCHANGED <<client, udpTarget, idle>>
    BY <2>1 DEF RemoveSession
  <2>6. reader' \in [Sessions -> {"none", "read", "reply", "remove", "held"}]
    BY <2>1 DEF UdpTypeOK
  <2>7. \A x \in Sessions : reader'[x] # reader[x] => x = s
    BY <2>1 DEF UdpTypeOK
  <2>8. /\ serve \in {"read", "lookup", "create", "write", "done"}
        /\ udpCur \in Clients \cup {UdpNone} /\ curSession \in Sessions \cup {UdpNone}
        /\ cleaner \in BOOLEAN /\ stopped \in BOOLEAN
    BY DEF UdpTypeOK
  <2> QED
    BY <2>1, <2>2, <2>3, <2>4, <2>5, <2>6, <2>7, <2>8, ForgetSessions
<1>3. CASE Collect(s)
  <2>1. /\ reader[s] = "held" /\ reader' = [reader EXCEPT ![s] = "none"]
        /\ UNCHANGED <<sessions, open, client, udpTarget, idle, udpConns, udpHealthy,
                       serve, udpCur, curSession, cleaner, stopped>>
    BY <1>3 DEF Collect
  <2>2. UdpTypeOK'
    BY <2>1 DEF UdpTypeOK
  <2>3. \A x \in Sessions : reader'[x] = IF x = s THEN "none" ELSE reader[x]
    BY <2>1 DEF UdpTypeOK
  <2>4. \A t \in UdpTargets : udpConns'[t] = Cardinality(OpenOn(t)')
    BY <2>1 DEF OpenOn
  <2>5. MapOwnsSessions'
    BY <2>1, <2>3 DEF MapOwnsSessions
  <2>6. SessionOwners'
    BY <2>1, <2>3 DEF SessionOwners
  <2> QED
    BY <2>2, <2>4, <2>5, <2>6
<1> QED
  BY <1>1, <1>2, <1>3 DEF Reader

\* The cleanup closes the idle sessions of the map, Stop all of them.
LEMMA SweepStep == ASSUME UdpInv, Cleanup \/ UdpStop PROVE UdpInv'
<1> USE DEF UdpInv, SessionsExact, SessionsCounted
<1>1. PICK S \in SUBSET Sessions :
        /\ CloseAll(S)
        /\ sessions' = [c \in Clients |-> IF sessions[c] \in S THEN UdpNone ELSE sessions[c]]
  <2>1. CASE Cleanup
    BY <2>1 DEF Cleanup
  <2>2. CASE UdpStop
    <3> DEFINE S == {sessions[c] : c \in Clients} \ {UdpNone}
    <3>1. S \in SUBSET Sessions
      BY DEF UdpTypeOK
    <3>2. CloseAll(S) /\ sessions' = [c \in Clients |-> UdpNone]
      BY <2>2 DEF UdpStop
    <3>3. sessions' = [c \in Clients |-> IF sessions[c] \in S THEN UdpNone ELSE sessions[c]]
      BY <3>2 DEF UdpTypeOK
    <3> QED
      BY <3>1, <3>2, <3>3
  <2> QED
    BY <2>1, <2>2
<1>2. /\ UNCHANGED <<client, udpTarget, idle, reader, udpHealthy, serve, udpCur, curSession>>
      /\ cleaner' \in BOOLEAN /\ stopped' \in BOOLEAN
  BY DEF Cleanup, UdpStop, UdpTypeOK
<1>3. /\ reader \in [Sessions -> {"none", "read", "reply", "remove", "held"}]
      /\ serve \in {"read", "lookup", "create", "write", "done"}
      /\ udpCur \in Clients \cup {UdpNone} /\ curSession \in Sessions \cup {UdpNone}
  BY DEF UdpTypeOK
<1> QED
  BY <1>1, <1>2, <1>3, ForgetSessions

LEMMA UdpInitial == UdpInit => UdpInv
<1> SUFFICES ASSUME UdpInit PROVE UdpInv
  OBVIOUS
<1>1. UdpTypeOK
  BY DEF UdpInit, UdpTypeOK
<1>2. ASSUME NEW t \in UdpTargets PROVE udpConns[t] = Cardinality(OpenOn(t))
  <2>1. OpenOn(t) = {}
    BY DEF UdpInit, OpenOn
  <2> QED
    BY <2>1, FS_EmptySet DEF UdpInit
<1>3. MapOwnsSessions
  BY UDPAssumption DEF UdpInit, MapOwnsSessions
<1>4. SessionOwners
  BY DEF UdpInit, SessionOwners
<1> QED
  BY <1>1, <1>2, <1>3, <1>4 DEF UdpInv, SessionsExact, SessionsCounted

LEMMA UdpStep == UdpInv /\ [UdpNext]_udpVars => UdpInv'
<1> SUFFICES ASSUME UdpInv, [UdpNext]_udpVars PROVE UdpInv'
  OBVIOUS
<1> USE DEF UdpInv, SessionsExact, SessionsCounted, udpSvars
<1>0. /\ serve \in {"lookup", "create", "write"} => udpCur \in Clients
      /\ serve = "write" => curSession \in Sessions
      /\ serve = "create" => sessions[udpCur] = UdpNone
  BY DEF SessionOwners
<1>1. CASE Serve
  BY <1>1, ServeStep
<1>2. CASE Cleanup \/ UdpStop
  BY <1>2, SweepStep
<1>3. CASE \E s \in Sessions : Reader(s)
  BY <1>3, ReaderStep
<1>4. CASE \/ CleanerEnds \/ \E s \in Sessions : BecomesIdle(s)
           \/ \E t \in UdpTargets : HealthChanges(t)
  <2>1. /\ UNCHANGED <<sessions, open, client, udpTarget, udpConns, reader, serve,
                       udpCur, curSession>>
    BY <1>4 DEF CleanerEnds, BecomesIdle, HealthChanges
  <2>2. UdpTypeOK'
    <3>1. CASE CleanerEnds
      BY <3>1 DEF CleanerEnds, UdpTypeOK
    <3>2. CASE \E s \in Sessions : BecomesIdle(s)
      BY <3>2 DEF BecomesIdle, UdpTypeOK
    <3>3. CASE \E t \in UdpTargets : HealthChanges(t)
      <4>1. PICK t \in UdpTargets : HealthChanges(t)
        BY <3>3
      <4>2. udpHealthy' \in [UdpTargets -> BOOLEAN]
        BY <4>1, Zenon DEF HealthChanges, UdpTypeOK
      <4> QED
        BY <4>1, <4>2 DEF HealthChanges, UdpTypeOK
    <3> QED
      BY <1>4, <3>1, <3>2, <3>3
  <2> QED
    BY <1>0, <2>1, <2>2, SessionsStay
<1>5. CASE UNCHANGED udpVars
  <2>1. UdpTypeOK'
    BY <1>5 DEF udpVars, UdpTypeOK
  <2> QED
    BY <1>0, <1>5, <2>1, SessionsStay DEF udpVars
<1> QED
  BY <1>1, <1>2, <1>3, <1>4, <1>5 DEF UdpNext

\* The sessions of a UDP server are counted exactly and owned by its map,
\* whoever of the reader, serve, the cleanup and Stop closes one
\* (stream.go:867-930,951-1012,1068).
THEOREM UdpSessionsExact == UdpSpec => []SessionsExact
<1>1. UdpInv => SessionsExact
  BY DEF UdpInv
<1> QED
  BY <1>1, UdpInitial, UdpStep, PTL DEF UdpSpec

-----------------------------------------------------------------------------
(* TCP connections *)

\* A connection has a target exactly while it counts on one, and a listener in
\* the map has a generation.
ConnOwners ==
  /\ \A c \in Conns : pc[c] \in {"dial", "copy"} <=> target[c] # StreamNone
  /\ gen = 0 => tcp = "none" /\ udp = "none"

StreamInv == ConnsExact /\ ConnOwners

Handled == {c \in Conns : pc[c] # "none"}
On(t) == {c \in Conns : target[c] = t}

\* The two counts, written over the sets they count.
LEMMA ConnsExactSets ==
  ConnsExact <=> /\ StreamTypeOK /\ connCount = Cardinality(Handled)
                 /\ \A t \in Targets : conns[t] = Cardinality(On(t))
BY DEF ConnsExact, Handled, On

\* Steps of the life cycle, the listeners and the checker: no connection moves.
LEMMA ConnsStay ==
  ASSUME StreamInv, StreamTypeOK', UNCHANGED cvars,
         gen' = 0 => tcp' = "none" /\ udp' = "none"
  PROVE  StreamInv'
<1>1. UNCHANGED <<connCount, conns, pc, target>>
  BY DEF cvars
<1>2. ConnsExact'
  BY <1>1 DEF StreamInv, ConnsExact
<1>3. ConnOwners'
  BY <1>1 DEF StreamInv, ConnOwners
<1> QED
  BY <1>2, <1>3 DEF StreamInv

\* Listen, Start, Stop, the ends of the loops and the health checker.
LEMMA LifeStep ==
  ASSUME StreamInv,
         \/ Listen \/ StartSwap \/ StartBody
         \/ StopSwap \/ StopClose \/ StopWait \/ StopReset
         \/ \E g \in 1..StreamStarts : AcceptEnds(g) \/ UDPLoopsEnd(g)
         \/ CheckerEnds \/ \E t \in Targets : Check(t)
  PROVE  StreamInv'
<1> USE ServerAssumption DEF StreamInv, ConnsExact, ConnOwners, lvars, gvars
<1>0. StreamTypeOK /\ (gen = 0 => tcp = "none" /\ udp = "none")
  OBVIOUS
<1>1. CASE Listen
  <2>1. StreamTypeOK' /\ gen' # 0
    BY <1>0, <1>1 DEF Listen, StreamTypeOK, cvars
  <2> QED
    BY <1>1, <2>1, ConnsStay DEF Listen
<1>2. CASE StartSwap
  <2>1. StreamTypeOK'
    BY <1>0, <1>2 DEF StartSwap, StreamTypeOK, cvars
  <2> QED
    BY <1>0, <1>2, <2>1, ConnsStay DEF StartSwap
<1>3. CASE StartBody
  <2>1. accepting' \subseteq 1..StreamStarts /\ udpLoops' \subseteq 1..StreamStarts
    BY <1>0, <1>3 DEF StartBody, StreamTypeOK
  <2>2. StreamTypeOK'
    BY <1>0, <1>3, <2>1, ZenonT(60) DEF StartBody, StreamTypeOK, cvars
  <2> QED
    BY <1>0, <1>3, <2>2, ConnsStay DEF StartBody
<1>4. CASE StopSwap
  <2>1. StreamTypeOK'
    BY <1>0, <1>4 DEF StopSwap, StreamTypeOK, cvars
  <2> QED
    BY <1>0, <1>4, <2>1, ConnsStay DEF StopSwap
<1>5. CASE StopClose
  <2>1. StreamTypeOK' /\ (gen' = 0 => tcp' = "none" /\ udp' = "none")
    BY <1>0, <1>5 DEF StopClose, StreamTypeOK, cvars
  <2> QED
    BY <1>5, <2>1, ConnsStay DEF StopClose
<1>6. CASE StopWait
  <2>1. StreamTypeOK'
    BY <1>0, <1>6 DEF StopWait, StreamTypeOK, cvars
  <2> QED
    BY <1>0, <1>6, <2>1, ConnsStay DEF StopWait
<1>7. CASE StopReset
  <2>1. StreamTypeOK'
    BY <1>0, <1>7 DEF StopReset, StreamTypeOK, cvars
  <2> QED
    BY <1>7, <2>1, ConnsStay DEF StopReset
<1>8. CASE \E g \in 1..StreamStarts : AcceptEnds(g) \/ UDPLoopsEnd(g)
  <2>1. /\ accepting' \subseteq accepting /\ udpLoops' \subseteq udpLoops
        /\ UNCHANGED <<lvars, gen, checker, checkerCh, panicked, cvars, healthy>>
    BY <1>8 DEF AcceptEnds, UDPLoopsEnd
  <2>2. StreamTypeOK'
    BY <1>0, <2>1 DEF StreamTypeOK, cvars
  <2> QED
    BY <1>0, <2>1, <2>2, ConnsStay
<1>9. CASE CheckerEnds
  <2>1. StreamTypeOK'
    BY <1>0, <1>9 DEF CheckerEnds, StreamTypeOK, cvars
  <2> QED
    BY <1>0, <1>9, <2>1, ConnsStay DEF CheckerEnds
<1>10. CASE \E t \in Targets : Check(t)
  <2>1. StreamTypeOK'
    BY <1>0, <1>10 DEF Check, StreamTypeOK, cvars
  <2> QED
    BY <1>0, <1>10, <2>1, ConnsStay DEF Check
<1> QED
  BY <1>1, <1>2, <1>3, <1>4, <1>5, <1>6, <1>7, <1>8, <1>9, <1>10

\* How the set of connections in the hands of a goroutine follows one of them.
LEMMA HandledMove ==
  ASSUME StreamTypeOK, NEW c \in Conns, NEW label \in {"none", "select", "dial", "copy"},
         pc' = [pc EXCEPT ![c] = label]
  PROVE  /\ pc' \in [Conns -> {"none", "select", "dial", "copy"}]
         /\ Counted(Handled, Conns, c)
         /\ c \in Handled <=> pc[c] # "none"
         /\ Handled' = IF label = "none" THEN Handled \ {c} ELSE Handled \cup {c}
<1>1. Handled \in SUBSET Conns
  BY DEF Handled
<1>2. Counted(Handled, Conns, c)
  BY <1>1, SubsetCount, ServerAssumption
<1>3. pc' \in [Conns -> {"none", "select", "dial", "copy"}]
  BY DEF StreamTypeOK
<1>4. Handled' = IF label = "none" THEN Handled \ {c} ELSE Handled \cup {c}
  BY DEF Handled, StreamTypeOK
<1> QED
  BY <1>2, <1>3, <1>4 DEF Handled

\* Accept counts the connection it hands to a goroutine.
LEMMA AcceptStep ==
  ASSUME StreamInv, NEW c \in Conns, Accept(c)
  PROVE  StreamInv'
<1>1. StreamTypeOK /\ connCount = Cardinality(Handled) /\ ConnOwners
  BY ConnsExactSets DEF StreamInv
<1>2. /\ pc[c] = "none" /\ connCount' = connCount + 1
      /\ pc' = [pc EXCEPT ![c] = "select"]
      /\ accepting' \subseteq accepting
      /\ UNCHANGED <<lvars, gen, udpLoops, checker, checkerCh, panicked, conns, target,
                     copying, healthy>>
  BY DEF Accept
<1>3. /\ pc' \in [Conns -> {"none", "select", "dial", "copy"}]
      /\ connCount' = Cardinality(Handled') /\ connCount' \in Nat
  <2>1. /\ pc' \in [Conns -> {"none", "select", "dial", "copy"}]
        /\ Counted(Handled, Conns, c) /\ c \notin Handled
        /\ Handled' = Handled \cup {c}
    BY <1>1, <1>2, HandledMove
  <2> QED
    BY <1>1, <1>2, <2>1 DEF Counted
<1>4. StreamTypeOK'
  BY <1>1, <1>2, <1>3 DEF StreamTypeOK, lvars
<1>5. \A t \in Targets : conns'[t] = Cardinality(On(t)')
  BY <1>2, ConnsExactSets DEF StreamInv, On
<1>6. ConnsExact'
  BY <1>3, <1>4, <1>5 DEF ConnsExact, Handled, On
<1>7. ConnOwners'
  BY <1>1, <1>2 DEF ConnOwners, StreamTypeOK, lvars
<1> QED
  BY <1>6, <1>7 DEF StreamInv

\* The deferred functions of handleConnection give back what was counted.
LEMMA FinishStep ==
  ASSUME StreamInv, NEW c \in Conns, pc[c] \in {"dial", "copy"}, Finish(c),
         UNCHANGED <<lvars, gvars>>, healthy' \in [Targets -> BOOLEAN],
         copying' \in [Conns -> SUBSET {"up", "down"}]
  PROVE  StreamInv'
<1>1. StreamTypeOK /\ connCount = Cardinality(Handled) /\ ConnOwners
  BY ConnsExactSets DEF StreamInv
<1>2. /\ pc' = [pc EXCEPT ![c] = "none"] /\ target' = [target EXCEPT ![c] = StreamNone]
      /\ conns' = [conns EXCEPT ![target[c]] = @ - 1] /\ connCount' = connCount - 1
  BY DEF Finish
<1>3. /\ pc' \in [Conns -> {"none", "select", "dial", "copy"}]
      /\ connCount' = Cardinality(Handled') /\ connCount' \in Nat
  <2>1. /\ pc' \in [Conns -> {"none", "select", "dial", "copy"}]
        /\ Counted(Handled, Conns, c) /\ c \in Handled
        /\ Handled' = Handled \ {c}
    BY <1>1, <1>2, HandledMove
  <2> QED
    BY <1>1, <1>2, <2>1 DEF Counted
<1>4. target[c] \in Targets
  BY <1>1 DEF ConnOwners, StreamTypeOK
<1>5. target' \in [Conns -> Targets \cup {StreamNone}]
  BY <1>1, <1>2 DEF StreamTypeOK
<1>6. ASSUME NEW t \in Targets
      PROVE  conns'[t] = Cardinality(On(t)') /\ conns'[t] \in Nat
  <2>1. On(t) \in SUBSET Conns /\ conns[t] = Cardinality(On(t)) /\ conns[t] \in Nat
    BY <1>1, ConnsExactSets DEF StreamInv, On, StreamTypeOK
  <2>2. Counted(On(t), Conns, c)
    BY <2>1, SubsetCount, ServerAssumption
  <2>3. CASE t = target[c]
    <3>1. c \in On(t) /\ On(t)' = On(t) \ {c}
      BY <1>1, <1>2, <2>3, ServerAssumption DEF On, StreamTypeOK
    <3>2. conns'[t] = conns[t] - 1
      BY <1>1, <1>2, <2>3 DEF StreamTypeOK
    <3> QED
      BY <2>1, <2>2, <3>1, <3>2 DEF Counted
  <2>4. CASE t # target[c]
    <3>1. On(t)' = On(t)
      BY <1>1, <1>2, <2>4, ServerAssumption DEF On, StreamTypeOK
    <3>2. conns'[t] = conns[t]
      BY <1>1, <1>2, <2>4 DEF StreamTypeOK
    <3> QED
      BY <2>1, <3>1, <3>2
  <2> QED
    BY <2>3, <2>4
<1>7. conns' \in [Targets -> Nat]
  BY <1>1, <1>2, <1>6 DEF StreamTypeOK
<1>8. StreamTypeOK'
  BY <1>1, <1>3, <1>5, <1>7 DEF StreamTypeOK, lvars, gvars
<1>9. ConnsExact'
  BY <1>3, <1>6, <1>8 DEF ConnsExact, Handled, On
<1>10. ConnOwners'
  BY <1>1, <1>2 DEF ConnOwners, StreamTypeOK, lvars, gvars
<1> QED
  BY <1>9, <1>10 DEF StreamInv

\* A target is chosen and counted.
LEMMA SelectTargetStep ==
  ASSUME StreamInv, NEW c \in Conns, SelectTarget(c)
  PROVE  StreamInv'
<1>1. StreamTypeOK /\ connCount = Cardinality(Handled) /\ ConnOwners
  BY ConnsExactSets DEF StreamInv
<1>2. PICK u \in Targets : /\ target' = [target EXCEPT ![c] = u]
                           /\ conns' = [conns EXCEPT ![u] = @ + 1]
  BY DEF SelectTarget
<1>3. /\ pc[c] = "select" /\ pc' = [pc EXCEPT ![c] = "dial"]
      /\ UNCHANGED <<lvars, gvars, connCount, copying, healthy>>
  BY DEF SelectTarget
<1>4. /\ pc' \in [Conns -> {"none", "select", "dial", "copy"}]
      /\ connCount' = Cardinality(Handled') /\ connCount' \in Nat
  <2>1. /\ pc' \in [Conns -> {"none", "select", "dial", "copy"}] /\ Counted(Handled, Conns, c)
        /\ c \in Handled /\ Handled' = Handled \cup {c}
    BY <1>1, <1>3, HandledMove
  <2>2. Cardinality(Handled') = Cardinality(Handled) /\ Cardinality(Handled) \in Nat
    BY <2>1 DEF Counted
  <2> QED
    BY <1>1, <1>3, <2>1, <2>2
<1>5. target[c] = StreamNone
  BY <1>1, <1>3 DEF ConnOwners
<1>6. target' \in [Conns -> Targets \cup {StreamNone}]
  BY <1>1, <1>2 DEF StreamTypeOK
<1>7. ASSUME NEW t \in Targets
      PROVE  conns'[t] = Cardinality(On(t)') /\ conns'[t] \in Nat
  <2>1. On(t) \in SUBSET Conns /\ conns[t] = Cardinality(On(t)) /\ conns[t] \in Nat
    BY <1>1, ConnsExactSets DEF StreamInv, On, StreamTypeOK
  <2>2. Counted(On(t), Conns, c)
    BY <2>1, SubsetCount, ServerAssumption
  <2>3. CASE t = u
    <3>1. c \notin On(t) /\ On(t)' = On(t) \cup {c}
      BY <1>1, <1>2, <1>5, <2>3, ServerAssumption DEF On, StreamTypeOK
    <3>2. conns'[t] = conns[t] + 1
      BY <1>1, <1>2, <2>3 DEF StreamTypeOK
    <3> QED
      BY <2>1, <2>2, <3>1, <3>2 DEF Counted
  <2>4. CASE t # u
    <3>1. On(t)' = On(t)
      BY <1>1, <1>2, <1>5, <2>4, ServerAssumption DEF On, StreamTypeOK
    <3>2. conns'[t] = conns[t]
      BY <1>1, <1>2, <2>4 DEF StreamTypeOK
    <3> QED
      BY <2>1, <3>1, <3>2
  <2> QED
    BY <2>3, <2>4
<1>8. conns' \in [Targets -> Nat]
  BY <1>1, <1>2, <1>7 DEF StreamTypeOK
<1>9. StreamTypeOK'
  BY <1>1, <1>3, <1>4, <1>6, <1>8 DEF StreamTypeOK, lvars, gvars
<1>10. ConnsExact'
  BY <1>4, <1>7, <1>9 DEF ConnsExact, Handled, On
<1>11. ConnOwners'
  BY <1>1, <1>2, <1>3, ServerAssumption DEF ConnOwners, StreamTypeOK, lvars, gvars
<1> QED
  BY <1>10, <1>11 DEF StreamInv

\* The goroutine of connection c.
LEMMA HandleStep ==
  ASSUME StreamInv, NEW c \in Conns, HandleConnection(c)
  PROVE  StreamInv'
<1>0. StreamTypeOK /\ connCount = Cardinality(Handled) /\ ConnOwners
  BY ConnsExactSets DEF StreamInv
<1>1. CASE SelectTarget(c)
  BY <1>1, SelectTargetStep
<1>2. CASE NoTarget(c) \/ Dialled(c)
  <2>1. PICK label \in {"none", "copy"} : pc' = [pc EXCEPT ![c] = label]
    BY <1>2 DEF NoTarget, Dialled
  <2>2. /\ UNCHANGED <<lvars, gvars, conns, target, healthy>>
        /\ copying' \in [Conns -> SUBSET {"up", "down"}]
    BY <1>0, <1>2 DEF NoTarget, Dialled, StreamTypeOK
  <2>3. /\ pc' \in [Conns -> {"none", "select", "dial", "copy"}]
        /\ connCount' = Cardinality(Handled') /\ connCount' \in Nat
    <3>1. /\ Counted(Handled, Conns, c) /\ c \in Handled
          /\ pc' \in [Conns -> {"none", "select", "dial", "copy"}]
      BY <1>0, <1>2, <2>1, HandledMove DEF NoTarget, Dialled
    <3>2. CASE NoTarget(c)
      <4>1. pc' = [pc EXCEPT ![c] = "none"] /\ connCount' = connCount - 1
        BY <3>2 DEF NoTarget
      <4>2. Handled' = Handled \ {c}
        BY <1>0, <4>1, HandledMove
      <4> QED
        BY <1>0, <3>1, <4>1, <4>2 DEF Counted
    <3>3. CASE Dialled(c)
      <4>1. pc' = [pc EXCEPT ![c] = "copy"] /\ connCount' = connCount
        BY <3>3 DEF Dialled
      <4>2. Handled' = Handled \cup {c}
        BY <1>0, <4>1, HandledMove
      <4> QED
        BY <1>0, <3>1, <4>1, <4>2 DEF Counted
    <3> QED
      BY <1>2, <3>1, <3>2, <3>3
  <2>4. StreamTypeOK'
    BY <1>0, <2>2, <2>3 DEF StreamTypeOK, lvars, gvars
  <2>5. \A t \in Targets : conns'[t] = Cardinality(On(t)')
    BY <2>2, ConnsExactSets DEF StreamInv, On
  <2>6. ConnsExact'
    BY <2>3, <2>4, <2>5 DEF ConnsExact, Handled, On
  <2>7. ConnOwners'
    BY <1>0, <1>2, <2>2 DEF NoTarget, Dialled, ConnOwners, StreamTypeOK, lvars, gvars
  <2> QED
    BY <2>6, <2>7 DEF StreamInv
<1>3. CASE DialFails(c)
  <2>1. /\ pc[c] = "dial" /\ Finish(c) /\ UNCHANGED <<lvars, gvars, copying>>
        /\ healthy' = [healthy EXCEPT ![target[c]] = FALSE]
    BY <1>3 DEF DialFails
  <2> QED
    BY <1>0, <2>1, FinishStep DEF StreamTypeOK
<1>4. CASE \E d \in {"up", "down"} : CopyEnds(c, d)
  <2>1. PICK d \in {"up", "down"} : CopyEnds(c, d)
    BY <1>4
  <2>2. /\ pc[c] = "copy" /\ UNCHANGED <<lvars, gvars, healthy>>
        /\ Finish(c) \/ UNCHANGED <<pc, target, conns, connCount>>
        /\ copying' \in [Conns -> SUBSET {"up", "down"}]
    BY <1>0, <2>1 DEF CopyEnds, StreamTypeOK
  <2>3. CASE Finish(c)
    BY <1>0, <2>2, <2>3, FinishStep DEF StreamTypeOK
  <2>4. CASE UNCHANGED <<pc, target, conns, connCount>>
    <3>1. StreamTypeOK'
      BY <1>0, <2>2, <2>4 DEF StreamTypeOK, lvars, gvars
    <3>2. ConnsExact'
      BY <2>4, <3>1 DEF StreamInv, ConnsExact
    <3> QED
      BY <1>0, <2>2, <2>4, <3>2 DEF StreamInv, ConnOwners, lvars, gvars
  <2> QED
    BY <2>2, <2>3, <2>4
<1> QED
  BY <1>1, <1>2, <1>3, <1>4 DEF HandleConnection

LEMMA StreamInitial == StreamInit => StreamInv
<1> SUFFICES ASSUME StreamInit PROVE StreamInv
  OBVIOUS
<1>0. /\ 0 \in 0..StreamStarts /\ {} \subseteq 1..StreamStarts
      /\ checker \in BOOLEAN
  BY ServerAssumption DEF StreamInit
<1>1. StreamTypeOK
  BY <1>0 DEF StreamInit, StreamTypeOK
<1>2. Handled = {} /\ \A t \in Targets : On(t) = {}
  BY ServerAssumption DEF StreamInit, Handled, On
<1>3. ConnsExact
  BY <1>1, <1>2, FS_EmptySet, ConnsExactSets DEF StreamInit
<1> QED
  BY <1>3 DEF StreamInit, StreamInv, ConnOwners

LEMMA StreamStep == StreamInv /\ [StreamNext]_streamVars => StreamInv'
<1> SUFFICES ASSUME StreamInv, [StreamNext]_streamVars PROVE StreamInv'
  OBVIOUS
<1>1. CASE \/ Listen \/ StartSwap \/ StartBody
           \/ StopSwap \/ StopClose \/ StopWait \/ StopReset
           \/ \E g \in 1..StreamStarts : AcceptEnds(g) \/ UDPLoopsEnd(g)
           \/ CheckerEnds \/ \E t \in Targets : Check(t)
  BY <1>1, LifeStep
<1>2. CASE \E c \in Conns : Accept(c) \/ HandleConnection(c)
  BY <1>2, AcceptStep, HandleStep
<1>3. CASE UNCHANGED streamVars
  <2>1. StreamTypeOK'
    BY <1>3 DEF StreamInv, ConnsExact, StreamTypeOK, streamVars, lvars, gvars, cvars
  <2> QED
    BY <1>3, <2>1, ConnsStay DEF streamVars, StreamInv, ConnOwners, lvars, gvars
<1> QED
  BY <1>1, <1>2, <1>3 DEF StreamNext

\* The count of connections of the server and the count of each target, which
\* least_conn decides by, are exact through failed dials, connections that
\* outlive Stop and restarts (stream.go:588,607,630).
THEOREM StreamConnsExact == StreamSpec => []ConnsExact
<1>1. StreamInv => ConnsExact
  BY DEF StreamInv
<1> QED
  BY <1>1, StreamInitial, StreamStep, PTL DEF StreamSpec

-----------------------------------------------------------------------------
(* The resolver *)

\* A lookup under way has a host, and a resolver that runs has a loop.
LookupsTyped ==
  /\ \A l \in Lookers : dnsPc[l] # "idle" => host[l] \in Hosts
  /\ started => dnsGen >= 1

DnsInv == CacheKept /\ LookupsTyped

\* The list in the words of the lemmas about lists.
LEMMA ListOfHosts ==
  ASSUME DnsTypeOK, CacheExact
  PROVE  lru \in Seq(Hosts) /\ Distinct(lru) /\ Range(lru) = Cached
BY DEF DnsTypeOK, CacheExact, Distinct

\* What makes a list that holds the cached hosts, each once, exact and typed.
LEMMA ListExact ==
  ASSUME lru' \in Seq(Hosts), Distinct(lru'), Range(lru') = Cached',
         CacheSize > 0 => Cardinality(Cached') <= CacheSize
  PROVE  CacheExact' /\ Len(lru') <= Cardinality(Hosts)
<1>1. CacheExact'
  BY DEF CacheExact, Distinct
<1>2. Cardinality(Range(lru')) = Len(lru') /\ Range(lru') \in SUBSET Hosts
  BY DistinctLength, RangeOf
<1>3. Cardinality(Range(lru')) <= Cardinality(Hosts)
  BY <1>2, FS_Subset, ResolverAssumption
<1> QED
  BY <1>1, <1>2, <1>3

\* Steps that leave the cache alone.
LEMMA CacheStays ==
  ASSUME DnsInv, DnsTypeOK', LookupsTyped', UNCHANGED <<cache, lru>>,
         refreshHosts \subseteq refreshHosts',
         \A l \in Lookers : dnsPc[l] = "add" =>
            host[l] \in refreshHosts' \/ (dnsPc'[l] = "add" /\ host'[l] = host[l])
  PROVE  DnsInv'
<1> USE DEF DnsInv, CacheKept
<1>1. CacheExact'
  BY DEF CacheExact, Cached
<1>2. CachedIsRefreshed'
  BY DEF CachedIsRefreshed, Cached
<1> QED
  BY <1>1, <1>2

\* storeCache evicts at most one host, and only for one that is not listed.
LEMMA StoreStep ==
  ASSUME DnsInv, NEW l \in Lookers, Store(l)
  PROVE  DnsInv'
<1> USE DEF DnsInv, CacheKept
<1> DEFINE h == host[l]
           kept == IF Evicts(h) THEN Front(lru) ELSE lru
           out == Evicted(h)
<1>1. PICK answer \in Answers :
        cache' = [k \in Hosts |-> IF k = h THEN answer
                                  ELSE IF k \in out THEN "none" ELSE cache[k]]
  BY DEF Store
<1>2. /\ dnsPc[l] = "query" /\ fresh' = (fresh \ out) \cup {h}
      /\ lru' = <<h>> \o RemoveFirst(kept, h)
      /\ dnsPc' = [dnsPc EXCEPT ![l] = "add"] /\ UNCHANGED <<refreshHosts, host, rvars>>
  BY DEF Store, ToFront
<1>3. h \in Hosts
  BY <1>2 DEF LookupsTyped
<1>4. lru \in Seq(Hosts) /\ Distinct(lru) /\ Range(lru) = Cached
  BY ListOfHosts
<1>5. IsFiniteSet(Cached) /\ Cardinality(Cached) \in Nat /\ Cached \subseteq Hosts
  <2>1. Cached \in SUBSET Hosts
    BY DEF Cached
  <2> QED
    BY <2>1, FS_Subset, FS_CardinalityType, ResolverAssumption
<1>6. /\ kept \in Seq(Hosts) /\ Distinct(kept) /\ Range(kept) = Cached \ out
      /\ Evicts(h) => out \subseteq Cached /\ Cardinality(Cached \ out) = Cardinality(Cached) - 1
      /\ ~Evicts(h) => out = {}
  <2>1. CASE Evicts(h)
    <3>1. lru # <<>> /\ out = {Last(lru)}
      BY <2>1 DEF Evicts, Evicted
    <3>2. /\ Front(lru) \in Seq(Hosts) /\ Distinct(Front(lru)) /\ Last(lru) \in Range(lru)
          /\ Range(Front(lru)) = Range(lru) \ {Last(lru)}
      BY <1>4, <3>1, TakenFromEnd
    <3>3. Cardinality(Cached \ {Last(lru)}) = Cardinality(Cached) - 1
      BY <1>4, <1>5, <3>2, FS_RemoveElement
    <3> QED
      BY <1>4, <2>1, <3>1, <3>2, <3>3
  <2>2. CASE ~Evicts(h)
    BY <1>4, <2>2 DEF Evicted
  <2> QED
    BY <2>1, <2>2
<1> HIDE DEF kept, out, h
<1>7. /\ RemoveFirst(kept, h) \in Seq(Hosts) /\ Distinct(RemoveFirst(kept, h))
      /\ Range(RemoveFirst(kept, h)) = (Cached \ out) \ {h}
  BY <1>6, RemovedFirst
<1>8. /\ lru' \in Seq(Hosts) /\ Distinct(lru')
      /\ Range(lru') = ((Cached \ out) \ {h}) \cup {h}
  BY <1>2, <1>3, <1>7, PushedFront
<1>9. cache' \in [Hosts -> {"none", "ok", "error"}]
  BY <1>1 DEF DnsTypeOK, Answers
<1>10. Cached' = (Cached \ out) \cup {h}
  BY <1>1, <1>3 DEF Cached, Answers
<1>11. CacheSize > 0 => Cardinality(Cached') <= CacheSize
  <2> SUFFICES ASSUME CacheSize > 0 PROVE Cardinality(Cached') <= CacheSize
    OBVIOUS
  <2>0. CacheSize \in Nat /\ Cardinality(Cached) <= CacheSize
    BY ResolverAssumption DEF CacheExact
  <2>1. CASE Evicts(h)
    <3>1. h \notin Cached /\ IsFiniteSet(Cached \ out)
      BY <1>4, <1>5, <2>1, FS_Subset DEF Evicts
    <3>2. Cardinality((Cached \ out) \cup {h}) = Cardinality(Cached \ out) + 1
      BY <3>1, FS_AddElement
    <3> QED
      BY <1>5, <1>6, <1>10, <2>0, <2>1, <3>2
  <2>2. CASE ~Evicts(h) /\ h \in Cached
    <3>1. Cached' = Cached
      BY <1>6, <1>10, <2>2
    <3> QED
      BY <2>0, <3>1
  <2>3. CASE ~Evicts(h) /\ h \notin Cached
    <3>1. Cardinality(Cached) < CacheSize \/ lru = <<>>
      BY <1>4, <1>5, <2>0, <2>3 DEF Evicts
    <3>2. lru = <<>> => Cardinality(Cached) = 0
      BY <1>4, EmptyList, FS_EmptySet
    <3>3. Cardinality(Cached') = Cardinality(Cached) + 1
      BY <1>5, <1>6, <1>10, <2>3, FS_AddElement
    <3> QED
      BY <1>5, <2>0, <3>1, <3>2, <3>3
  <2> QED
    BY <2>1, <2>2, <2>3
<1>12. CacheExact' /\ Len(lru') <= Cardinality(Hosts)
  <2>1. Range(lru') = Cached'
    BY <1>8, <1>10
  <2> QED
    BY <1>8, <1>11, <2>1, ListExact
<1>13. DnsTypeOK'
  BY <1>2, <1>3, <1>8, <1>9, <1>12 DEF DnsTypeOK, rvars
<1>14. CachedIsRefreshed'
  <2> SUFFICES ASSUME NEW k \in Cached'
               PROVE  k \in refreshHosts' \/ \E x \in Lookers : dnsPc'[x] = "add" /\ host'[x] = k
    BY DEF CachedIsRefreshed
  <2>1. CASE k = h
    <3>1. dnsPc'[l] = "add" /\ host'[l] = k
      BY <1>2, <2>1 DEF DnsTypeOK, h
    <3> QED
      BY <3>1
  <2>2. CASE k # h
    <3>1. k \in Cached
      BY <1>10, <2>2
    <3>2. CASE k \in refreshHosts
      BY <1>2, <3>2
    <3>3. ASSUME NEW x \in Lookers, dnsPc[x] = "add", host[x] = k
          PROVE  dnsPc'[x] = "add" /\ host'[x] = k
      BY <1>2, <3>3 DEF DnsTypeOK
    <3> QED
      BY <3>1, <3>2, <3>3 DEF CachedIsRefreshed
  <2> QED
    BY <2>1, <2>2
<1>15. LookupsTyped'
  BY <1>2 DEF LookupsTyped, DnsTypeOK, rvars
<1> QED
  BY <1>12, <1>13, <1>14, <1>15

\* The two critical sections of lookup besides storeCache, and its beginning.
LEMMA LookupStep ==
  ASSUME DnsInv, NEW l \in Lookers,
         \/ \E h \in Hosts, useCache \in BOOLEAN : Begin(l, h, useCache)
            /\ UNCHANGED <<kvars, rvars>>
         \/ CheckHit(l) \/ CheckMiss(l) \/ AddRefresh(l)
  PROVE  DnsInv'
<1> USE DEF DnsInv, CacheKept
<1>1. PICK label \in {"idle", "check", "query"}, k \in Hosts \cup {DnsNone} :
        /\ dnsPc' = [dnsPc EXCEPT ![l] = label] /\ host' = [host EXCEPT ![l] = k]
        /\ label # "idle" => k \in Hosts
        /\ dnsPc[l] = "add" => host[l] \in refreshHosts'
  <2>1. CASE \E h \in Hosts, useCache \in BOOLEAN : Begin(l, h, useCache)
    <3>1. PICK h \in Hosts, useCache \in BOOLEAN : Begin(l, h, useCache)
      BY <2>1
    <3>2. dnsPc' = [dnsPc EXCEPT ![l] = "check"] \/ dnsPc' = [dnsPc EXCEPT ![l] = "query"]
      BY <3>1 DEF Begin
    <3> QED
      BY <3>1, <3>2 DEF Begin
  <2>2. CASE CheckHit(l)
    BY <2>2 DEF CheckHit, Leave
  <2>3. CASE CheckMiss(l)
    <3>1. host[l] \in Hosts
      BY <2>3 DEF CheckMiss, LookupsTyped
    <3>2. host' = [host EXCEPT ![l] = host[l]]
      BY <2>3 DEF CheckMiss, DnsTypeOK
    <3> QED
      BY <2>3, <3>1, <3>2 DEF CheckMiss
  <2>4. CASE AddRefresh(l)
    BY <2>4 DEF AddRefresh, Leave
  <2> QED
    BY <2>1, <2>2, <2>3, <2>4
<1>2. /\ UNCHANGED <<cache, fresh, lru, rvars>>
      /\ \/ refreshHosts' = refreshHosts
         \/ refreshHosts' = refreshHosts \cup {host[l]} /\ dnsPc[l] = "add"
  BY DEF CheckHit, CheckMiss, AddRefresh, kvars
<1>3. refreshHosts' \subseteq Hosts
  BY <1>2 DEF DnsTypeOK, LookupsTyped
<1>4. DnsTypeOK'
  BY <1>1, <1>2, <1>3 DEF DnsTypeOK, rvars
<1>5. \A x \in Lookers : /\ dnsPc'[x] = IF x = l THEN label ELSE dnsPc[x]
                         /\ host'[x] = IF x = l THEN k ELSE host[x]
  BY <1>1 DEF DnsTypeOK
<1>6. LookupsTyped'
  BY <1>1, <1>2, <1>5 DEF LookupsTyped, rvars
<1>7. \A x \in Lookers : dnsPc[x] = "add" =>
         host[x] \in refreshHosts' \/ (dnsPc'[x] = "add" /\ host'[x] = host[x])
  BY <1>1, <1>5
<1> QED
  BY <1>2, <1>4, <1>6, <1>7, CacheStays

\* DeleteCacheEntry and ClearCache.
LEMMA DeleteStep ==
  ASSUME DnsInv, ClearCache \/ \E h \in Hosts : DeleteCacheEntry(h)
  PROVE  DnsInv'
<1> USE DEF DnsInv, CacheKept
<1>0. lru \in Seq(Hosts) /\ Distinct(lru) /\ Range(lru) = Cached
  BY ListOfHosts
<1>1. PICK H \in SUBSET Hosts :
        /\ cache' \in [Hosts -> {"none", "ok", "error"}] /\ Cached' = Cached \ H
        /\ lru' \in Seq(Hosts) /\ Distinct(lru') /\ Range(lru') = Cached \ H
        /\ fresh' \subseteq Hosts /\ refreshHosts' = refreshHosts \ H
        /\ UNCHANGED <<dnsLvars, rvars>>
  <2>1. CASE ClearCache
    <3>1. /\ Cached' = {} /\ cache' \in [Hosts -> {"none", "ok", "error"}]
      BY <2>1 DEF ClearCache, Cached
    <3>2. lru' \in Seq(Hosts) /\ Distinct(lru') /\ Range(lru') = {}
      BY <2>1, EmptyList DEF ClearCache
    <3>3. Cached \ Hosts = {} /\ refreshHosts \ Hosts = {}
      BY DEF Cached, DnsTypeOK
    <3>4. fresh' \subseteq Hosts /\ refreshHosts' = {} /\ UNCHANGED <<dnsLvars, rvars>>
      BY <2>1 DEF ClearCache
    <3> QED
      BY <3>1, <3>2, <3>3, <3>4
  <2>2. CASE \E h \in Hosts : DeleteCacheEntry(h)
    <3>0. PICK h \in Hosts : DeleteCacheEntry(h)
      BY <2>2
    <3>1. /\ cache' = [cache EXCEPT ![h] = "none"] /\ lru' = RemoveFirst(lru, h)
          /\ fresh' = fresh \ {h} /\ refreshHosts' = refreshHosts \ {h}
          /\ UNCHANGED <<dnsLvars, rvars>>
      BY <3>0 DEF DeleteCacheEntry
    <3>2. /\ Cached' = Cached \ {h} /\ cache' \in [Hosts -> {"none", "ok", "error"}]
          /\ fresh' \subseteq Hosts
      BY <3>1 DEF Cached, DnsTypeOK
    <3>3. lru' \in Seq(Hosts) /\ Distinct(lru') /\ Range(lru') = Cached \ {h}
      BY <1>0, <3>1, RemovedFirst
    <3> QED
      BY <3>1, <3>2, <3>3
  <2> QED
    BY <2>1, <2>2
<1>2. Cached \in SUBSET Hosts /\ Cached' \in SUBSET Cached
  BY <1>1 DEF Cached
<1>3. CacheSize > 0 => Cardinality(Cached') <= CacheSize
  <2>1. IsFiniteSet(Cached) /\ Cardinality(Cached) \in Nat
    BY <1>2, FS_Subset, FS_CardinalityType, ResolverAssumption
  <2>2. Cardinality(Cached') <= Cardinality(Cached) /\ Cardinality(Cached') \in Nat
    BY <1>2, <2>1, FS_Subset, FS_CardinalityType
  <2> QED
    BY <2>1, <2>2, ResolverAssumption DEF CacheExact
<1>4. CacheExact' /\ Len(lru') <= Cardinality(Hosts)
  BY <1>1, <1>3, ListExact
<1>5. DnsTypeOK'
  BY <1>1, <1>4 DEF DnsTypeOK, dnsLvars, rvars
<1>6. CachedIsRefreshed'
  BY <1>1 DEF CachedIsRefreshed, dnsLvars
<1>7. LookupsTyped'
  BY <1>1 DEF LookupsTyped, dnsLvars, rvars
<1> QED
  BY <1>4, <1>5, <1>6, <1>7

\* Expiry, Start, Stop and the refresh loop between its lookups.
LEMMA LoopStep ==
  ASSUME DnsInv,
         \/ \E h \in Hosts : Expire(h)
         \/ DnsStart \/ DnsStop
         \/ \E g \in Loops : Tick(g) \/ RefreshDone(g) \/ LoopEnds(g)
  PROVE  DnsInv'
<1> USE DEF DnsInv, CacheKept
<1>1. /\ UNCHANGED <<cache, lru, refreshHosts, dnsPc, host>> /\ fresh' \subseteq fresh
  BY DEF Expire, DnsStart, DnsStop, Tick, RefreshDone, LoopEnds, kvars, dnsLvars
<1>2. /\ started' \in BOOLEAN /\ dnsGen' \in 0..DnsStarts /\ closed' \subseteq Loops
      /\ loop' \in [Loops -> {"off", "wait", "refresh"}]
      /\ todo' \in [Loops -> SUBSET Hosts] /\ (started' => dnsGen' >= 1)
  <2>0. DnsStarts \in Nat /\ Loops = 1..DnsStarts
    BY ResolverAssumption DEF Loops
  <2>1. CASE \E h \in Hosts : Expire(h)
    BY <2>1 DEF Expire, rvars, DnsTypeOK, LookupsTyped
  <2>2. CASE DnsStart
    <3>1. dnsGen \in Nat /\ dnsGen < DnsStarts /\ dnsGen' = dnsGen + 1
      BY <2>0, <2>2 DEF DnsStart, DnsTypeOK
    <3>2. dnsGen' \in 0..DnsStarts /\ dnsGen' >= 1
      BY <2>0, <3>1
    <3> QED
      BY <2>2, <3>2 DEF DnsStart, DnsTypeOK
  <2>3. CASE DnsStop
    <3>1. dnsGen \in Loops
      BY <2>0, <2>3 DEF DnsStop, DnsTypeOK, LookupsTyped
    <3> QED
      BY <2>3, <3>1 DEF DnsStop, DnsTypeOK
  <2>4. CASE \E g \in Loops : Tick(g) \/ RefreshDone(g) \/ LoopEnds(g)
    BY <2>4 DEF Tick, RefreshDone, LoopEnds, DnsTypeOK, LookupsTyped
  <2> QED
    BY <2>1, <2>2, <2>3, <2>4
<1>3. DnsTypeOK'
  BY <1>1, <1>2 DEF DnsTypeOK
<1>4. LookupsTyped'
  BY <1>1, <1>2 DEF LookupsTyped
<1> QED
  BY <1>1, <1>3, <1>4, CacheStays

\* The refresh loop looks up the next host.
LEMMA RefreshNextStep ==
  ASSUME DnsInv, NEW g \in Loops, RefreshNext(g)
  PROVE  DnsInv'
<1> USE DEF DnsInv, CacheKept
<1>1. PICK h \in todo[g] : todo' = [todo EXCEPT ![g] = @ \ {h}] /\ Begin(g, h, FALSE)
  BY DEF RefreshNext
<1>2. UNCHANGED <<kvars, started, dnsGen, closed, loop>>
  BY DEF RefreshNext
<1>3. g \in Lookers /\ h \in Hosts
  BY DEF Lookers, DnsTypeOK
<1>4. /\ dnsPc[g] = "idle" /\ dnsPc' = [dnsPc EXCEPT ![g] = "query"]
      /\ host' = [host EXCEPT ![g] = h]
  BY <1>1 DEF Begin
<1>5. todo' \in [Loops -> SUBSET Hosts]
  BY <1>1 DEF DnsTypeOK
<1>6. DnsTypeOK'
  BY <1>2, <1>3, <1>4, <1>5 DEF DnsTypeOK, kvars
<1>7. \A x \in Lookers : /\ dnsPc'[x] = IF x = g THEN "query" ELSE dnsPc[x]
                         /\ host'[x] = IF x = g THEN h ELSE host[x]
  BY <1>3, <1>4 DEF DnsTypeOK
<1>8. LookupsTyped'
  BY <1>2, <1>3, <1>7 DEF LookupsTyped
<1> QED
  BY <1>2, <1>4, <1>6, <1>7, <1>8, CacheStays DEF kvars

LEMMA DnsInitial == DnsInit => DnsInv
<1> SUFFICES ASSUME DnsInit PROVE DnsInv
  OBVIOUS
<1>1. Cached = {} /\ lru = <<>>
  BY DEF DnsInit, Cached
<1>2. Cardinality(Hosts) \in Nat /\ Cardinality(Cached) = 0
  BY <1>1, FS_CardinalityType, FS_EmptySet, ResolverAssumption
<1>3. lru \in Seq(Hosts) /\ Len(lru) <= Cardinality(Hosts)
  BY <1>1, <1>2, EmptyList
<1>4. DnsTypeOK
  <2>1. 0 \in 0..DnsStarts
    BY ResolverAssumption
  <2>2. cache \in [Hosts -> {"none", "ok", "error"}]
    BY DEF DnsInit
  <2>3. /\ dnsPc \in [Lookers -> {"idle", "check", "query", "add"}]
        /\ host \in [Lookers -> Hosts \cup {DnsNone}]
    BY DEF DnsInit
  <2>4. /\ loop \in [Loops -> {"off", "wait", "refresh"}] /\ todo \in [Loops -> SUBSET Hosts]
    BY DEF DnsInit
  <2> QED
    BY <1>3, <2>1, <2>2, <2>3, <2>4 DEF DnsInit, DnsTypeOK
<1>5. CacheExact
  BY <1>1, <1>2, EmptyList, ResolverAssumption DEF CacheExact, Distinct
<1>6. CachedIsRefreshed /\ LookupsTyped
  BY <1>1 DEF CachedIsRefreshed, LookupsTyped, DnsInit
<1> QED
  BY <1>4, <1>5, <1>6 DEF DnsInv, CacheKept

LEMMA DnsStep == DnsInv /\ [DnsNext]_dnsVars => DnsInv'
<1> SUFFICES ASSUME DnsInv, [DnsNext]_dnsVars PROVE DnsInv'
  OBVIOUS
<1>1. CASE \E c \in Callers : Call(c)
  BY <1>1, LookupStep DEF Call, Lookers
<1>2. CASE \E l \in Lookers : Lookup(l)
  BY <1>2, LookupStep, StoreStep DEF Lookup
<1>3. CASE \E h \in Hosts : Expire(h) \/ DeleteCacheEntry(h)
  BY <1>3, LoopStep, DeleteStep
<1>4. CASE ClearCache \/ DnsStart \/ DnsStop
  BY <1>4, LoopStep, DeleteStep
<1>5. CASE \E g \in Loops : RefreshLoop(g) \/ LoopEnds(g)
  BY <1>5, LoopStep, RefreshNextStep DEF RefreshLoop
<1>6. CASE UNCHANGED dnsVars
  <2>1. DnsTypeOK' /\ LookupsTyped'
    BY <1>6 DEF DnsInv, CacheKept, DnsTypeOK, LookupsTyped, dnsVars, kvars, dnsLvars, rvars
  <2> QED
    BY <1>6, <2>1, CacheStays DEF dnsVars, kvars, dnsLvars
<1> QED
  BY <1>1, <1>2, <1>3, <1>4, <1>5, <1>6 DEF DnsNext

\* The cache, the LRU list and the refresh set of the resolver agree and
\* cache_size holds, whichever lookups, refreshes and deletions meet
\* (resolver.go:61-90,228-233, cache.go:61-80).
THEOREM DnsCacheKept == DnsSpec => []CacheKept
<1>1. DnsInv => CacheKept
  BY DEF DnsInv
<1> QED
  BY <1>1, DnsInitial, DnsStep, PTL DEF DnsSpec

-----------------------------------------------------------------------------
(* The life of the processes *)

\* What the two promises rest on: a.srv is not asked to stop before a stop or an
\* upgrade, nothing drains that was not asked to, a server under reload is newer than a.srv, a child that starts has
\* its descriptors, and a parent that upgraded has a child.
ProcsSound ==
  /\ \A p \in Procs : proc[p] \in {"none", "boot"} => cur[p] = 0 /\ ~retired[p]
  /\ \A p \in Procs : proc[p] = "reload" => cur[p] < last[p]
  /\ \A p \in Procs, g \in Gens : asked[p][g] # "no" /\ ~retired[p] => g < cur[p]
  /\ \A p \in Procs, g \in Gens :
        phase[p][g] \in {"cleaned", "draining"} => asked[p][g] # "no"
  /\ \A p \in Procs : p > 1 /\ phase[p][0] = "starting" => saved[p][0]
  /\ \A p \in Procs : ~retired[p] => proc[p] \notin {"stopping", "upgrading"}
  /\ \A p \in Procs : retired[p] /\ proc[p] \in {"upgrading", "loop", "reload"} =>
        p < MaxProcs /\ proc[p + 1] # "none"

AppInv == AppTypeOK /\ ReloadKeepsServing /\ ProcsSound

\* The socket stays open because the child's server has it, and it has it
\* because a.srv serves.
LEMMA UpgradeSound == AppInv => UpgradeKeepsSocket
<1> SUFFICES ASSUME AppInv, NEW p \in Procs,
                    retired[p], proc[p] \in {"upgrading", "loop"},
                    proc[p + 1] # "exited", phase[p + 1][0] # "failed",
                    ~retired[p + 1], ~early[p + 1]
             PROVE  SocketOpen
  BY DEF UpgradeKeepsSocket
<1> USE AppAssumption DEF AppInv, Procs, Gens
<1>1. p + 1 \in Procs /\ p + 1 > 1 /\ proc[p + 1] # "none"
  BY DEF ProcsSound
<1>2. CASE proc[p + 1] = "boot"
  BY <1>1, <1>2 DEF SocketOpen
<1>3. CASE proc[p + 1] \in {"loop", "reload"}
  <2>1. \/ phase[p + 1][cur[p + 1]] = "serving"
        \/ phase[p + 1][0] = "starting"
    BY <1>1, <1>3 DEF ReloadKeepsServing
  <2>2. cur[p + 1] \in Gens /\ 0 \in Gens
    BY <1>1 DEF AppTypeOK
  <2>3. \E g \in Gens : Holds(p + 1, g)
    <3>1. CASE phase[p + 1][cur[p + 1]] = "serving"
      BY <2>2, <3>1 DEF Holds, Accepting
    <3>2. CASE phase[p + 1][0] = "starting"
      <4>1. saved[p + 1][0]
        BY <1>1, <3>2 DEF ProcsSound
      <4> QED
        BY <2>2, <3>2, <4>1 DEF Holds
    <3> QED
      BY <2>1, <3>1, <3>2
  <2> QED
    BY <1>1, <2>3 DEF SocketOpen
<1> QED
  BY <1>1, <1>2, <1>3 DEF AppTypeOK, ProcsSound

\* The bound on all reloads bounds those of one process.
LEMMA ReloadBound ==
  ASSUME AppTypeOK, NEW p \in Procs, Cardinality(Reloads) < MaxReloads
  PROVE  last[p] + 1 \in Gens
<1> USE AppAssumption
<1>1. last[p] \in Gens /\ Gens = 0..MaxReloads /\ MaxReloads \in Nat
  BY DEF AppTypeOK, Gens
<1> DEFINE own == {p} \X (1..last[p])
<1>2. IsFiniteSet({p}) /\ Cardinality({p}) = 1
  BY FS_Singleton
<1>3. IsFiniteSet(1..last[p]) /\ Cardinality(1..last[p]) = last[p]
  <2>1. last[p] \in Nat
    BY <1>1
  <2> QED
    BY <2>1, IntervalSize
<1>4. Cardinality(own) = last[p]
  <2>1. Cardinality(own) = Cardinality({p}) * Cardinality(1..last[p])
    BY <1>2, <1>3, FS_Product
  <2>2. Cardinality(own) = 1 * last[p]
    BY <1>2, <1>3, <2>1
  <2> QED
    BY <1>1, <2>2
<1>5. own \in SUBSET Reloads
  <2>1. ASSUME NEW g \in 1..last[p] PROVE <<p, g>> \in Reloads
    BY <1>1, <2>1 DEF Reloads
  <2> QED
    BY <2>1
<1>6. IsFiniteSet(Reloads) /\ Cardinality(Reloads) \in Nat
  <2>1. IsFiniteSet(Procs) /\ IsFiniteSet(Gens)
    BY FS_Interval DEF Procs, Gens
  <2>2. Reloads \in SUBSET (Procs \X Gens)
    BY DEF Reloads
  <2> QED
    BY <2>1, <2>2, FS_Product, FS_Subset, FS_CardinalityType
<1>7. Cardinality(own) <= Cardinality(Reloads)
  BY <1>5, <1>6, FS_Subset
<1> QED
  BY <1>1, <1>4, <1>6, <1>7

\* The first server of a process is a.srv, and it is about to start.
LEMMA BootStep == ASSUME AppInv, NEW p \in Procs, Boot(p) PROVE AppInv'
<1> USE AppAssumption DEF AppInv, Boot, AppGoto, SetPhase, svars, pvars, hvars
<1>1. AppTypeOK'
  <2>1. 0 \in Gens
    BY DEF Gens
  <2>2. saved' \in [Procs -> [Gens -> BOOLEAN]]
    <3>1. (p > 1) \in BOOLEAN
      OBVIOUS
    <3> QED
      BY <2>1, <3>1 DEF AppTypeOK
  <2>3. phase' \in [Procs -> [Gens -> Phases]]
    BY <2>1 DEF AppTypeOK, Phases
  <2> QED
    BY <2>2, <2>3 DEF AppTypeOK
<1>2. ReloadKeepsServing'
  BY DEF ReloadKeepsServing, AppTypeOK, ProcsSound, Procs, Gens
<1>3. ProcsSound'
  <2>0. 0 \in Gens
    BY DEF Gens
  <2>1. ASSUME NEW q \in Procs, q > 1, phase'[q][0] = "starting" PROVE saved'[q][0]
    <3>1. CASE q = p
      <4>1. saved'[q][0] = (p > 1)
        BY <2>0, <3>1 DEF AppTypeOK
      <4> QED
        BY <2>1, <3>1, <4>1
    <3>2. CASE q # p
      <4>1. phase'[q] = phase[q] /\ saved'[q] = saved[q]
        BY <3>2 DEF AppTypeOK
      <4> QED
        BY <2>1, <4>1 DEF ProcsSound
    <3> QED
      BY <3>1, <3>2
  <2>2. ASSUME NEW q \in Procs, retired'[q], proc'[q] \in {"upgrading", "loop", "reload"}
        PROVE  q < MaxProcs /\ proc'[q + 1] # "none"
    <3>1. retired[q] /\ q # p
      BY <2>2 DEF ProcsSound
    <3>2. proc'[q] = proc[q]
      BY <3>1 DEF AppTypeOK
    <3>3. q < MaxProcs /\ proc[q + 1] # "none" /\ q + 1 \in Procs
      BY <2>2, <3>1, <3>2 DEF ProcsSound, Procs
    <3> QED
      BY <3>3 DEF AppTypeOK
  <2> QED
    BY <2>1, <2>2 DEF ProcsSound, AppTypeOK
<1> QED
  BY <1>1, <1>2, <1>3

\* A stop asks a.srv to stop and retires the process.
LEMMA StopSignalStep == ASSUME AppInv, NEW p \in Procs, StopSignal(p) PROVE AppInv'
<1> USE AppAssumption DEF AppInv, StopSignal, AppGoto, StopStream, AskStop, SetAsked, svars, pvars, hvars
<1>1. AppTypeOK'
  BY DEF AppTypeOK, Phases, Procs, Gens
<1>2. ReloadKeepsServing'
  BY DEF ReloadKeepsServing, AppTypeOK, ProcsSound, Procs, Gens
<1>3. ProcsSound'
  BY DEF ProcsSound, AppTypeOK, Procs, Gens
<1> QED
  BY <1>1, <1>2, <1>3

\* The new server of a reload is newer than a.srv.
LEMMA ReloadStep == ASSUME AppInv, NEW p \in Procs, Reload(p) PROVE AppInv'
<1> USE AppAssumption DEF AppInv, Reload, AppGoto, SetPhase, svars, pvars, hvars
<1>0. last[p] + 1 \in Gens /\ last[p] + 1 # 0 /\ cur[p] < last[p] + 1
  BY ReloadBound DEF AppTypeOK, Gens
<1>1. AppTypeOK'
  <2>1. /\ phase' \in [Procs -> [Gens -> Phases]] /\ saved' \in [Procs -> [Gens -> BOOLEAN]]
    BY <1>0 DEF AppTypeOK, Phases
  <2>2. last' \in [Procs -> Gens] /\ \A q \in Procs : cur'[q] <= last'[q]
    BY <1>0 DEF AppTypeOK, Gens
  <2> QED
    BY <2>1, <2>2 DEF AppTypeOK
<1>2. ReloadKeepsServing'
  BY DEF ReloadKeepsServing, AppTypeOK, ProcsSound, Procs, Gens
<1>3. ProcsSound'
  <2>1. /\ proc[p] = "loop" /\ ProcsSound
        /\ UNCHANGED <<multi, asked, cur, stream, hvars>>
    OBVIOUS
  <2>2. \A q \in Procs : /\ proc'[q] = IF q = p THEN "reload" ELSE proc[q]
                         /\ q # p => last'[q] = last[q]
    BY DEF AppTypeOK
  <2>3. \A q \in Procs, h \in Gens :
           \/ phase'[q][h] = phase[q][h] /\ saved'[q][h] = saved[q][h]
           \/ h # 0 /\ phase'[q][h] = "starting"
    BY <1>0 DEF AppTypeOK
  <2>4. /\ \A q \in Procs : q < MaxProcs => q + 1 \in Procs
        /\ 0 \in Gens /\ cur'[p] < last'[p]
    BY <1>0 DEF AppTypeOK, Procs, Gens
  <2> HIDE DEF AppInv, Reload
  <2> QED
    BY <2>1, <2>2, <2>3, <2>4 DEF ProcsSound
<1> QED
  BY <1>1, <1>2, <1>3

\* An upgrade starts a child and retires the parent.
LEMMA UpgradeStep == ASSUME AppInv, NEW p \in Procs, Upgrade(p) PROVE AppInv'
<1> USE AppAssumption DEF AppInv, Upgrade, StopStream, AskStop, SetAsked, svars, pvars, hvars
<1>1. AppTypeOK'
  BY DEF AppTypeOK, Phases, Procs, Gens
<1>2. ReloadKeepsServing'
  BY DEF ReloadKeepsServing, AppTypeOK, ProcsSound, Procs, Gens
<1>3. ProcsSound'
  <2>1. p + 1 \in Procs /\ p + 1 # p /\ p \in Nat /\ p < MaxProcs /\ proc[p + 1] = "none"
    BY DEF Procs
  <2>2. \A q \in Procs : proc'[q] = IF q = p THEN "upgrading"
                                    ELSE IF q = p + 1 THEN "boot" ELSE proc[q]
    BY <2>1 DEF AppTypeOK
  <2>3. \A q \in Procs : retired'[q] = IF q = p THEN TRUE ELSE retired[q]
    BY DEF AppTypeOK
  <2>4. \A q \in Procs, g \in Gens : q # p => asked'[q][g] = asked[q][g]
    BY DEF AppTypeOK
  <2>11. \A q \in Procs, g \in Gens : asked'[q][g] \in {"asked", asked[q][g]}
    BY DEF AppTypeOK
  <2>5. cur' = cur /\ last' = last /\ phase' = phase /\ saved' = saved
    OBVIOUS
  <2>6. ProcsSound
    OBVIOUS
  <2> HIDE DEF AppInv, Upgrade
  <2>7. ASSUME NEW q \in Procs, NEW g \in Gens, asked'[q][g] # "no", ~retired'[q]
        PROVE  g < cur'[q]
    BY <2>3, <2>4, <2>5, <2>6, <2>7 DEF ProcsSound
  <2>10. ASSUME NEW q \in Procs, NEW g \in Gens, phase'[q][g] \in {"cleaned", "draining"}
         PROVE  asked'[q][g] # "no"
    BY <2>5, <2>6, <2>10, <2>11 DEF ProcsSound
  <2>8. ASSUME NEW q \in Procs, retired'[q], proc'[q] \in {"upgrading", "loop", "reload"}
        PROVE  q < MaxProcs /\ proc'[q + 1] # "none"
    <3>1. CASE q = p
      <4>1. proc'[p + 1] = "boot"
        BY <2>1, <2>2
      <4> QED
        BY <2>1, <3>1, <4>1
    <3>2. CASE q # p
      <4>1. retired[q] /\ q # p + 1
        BY <2>1, <2>3, <2>6, <2>8, <3>2 DEF ProcsSound
      <4>2. proc'[q] = proc[q]
        BY <2>2, <3>2, <4>1
      <4>3. q < MaxProcs /\ proc[q + 1] # "none"
        BY <2>6, <2>8, <4>1, <4>2 DEF ProcsSound
      <4>4. q + 1 \in Procs
        BY <4>3 DEF Procs
      <4> QED
        BY <2>2, <4>3, <4>4
    <3> QED
      BY <3>1, <3>2
  <2>9. ASSUME NEW q \in Procs
        PROVE  /\ proc'[q] \in {"none", "boot"} => cur'[q] = 0 /\ ~retired'[q]
               /\ proc'[q] = "reload" => cur'[q] < last'[q]
               /\ ~retired'[q] => proc'[q] \notin {"stopping", "upgrading"}
               /\ q > 1 /\ phase'[q][0] = "starting" => saved'[q][0]
    <3>1. CASE q = p
      <4>1. proc'[q] = "upgrading" /\ retired'[q]
        BY <2>2, <2>3, <3>1
      <4> QED
        BY <2>5, <2>6, <4>1 DEF ProcsSound
    <3>2. CASE q # p
      <4>1. retired'[q] = retired[q]
        BY <2>3, <3>2
      <4>2. proc'[q] = proc[q] \/ (proc'[q] = "boot" /\ proc[q] = "none")
        BY <2>1, <2>2, <3>2
      <4> QED
        BY <2>5, <2>6, <4>1, <4>2 DEF ProcsSound
    <3> QED
      BY <3>1, <3>2
  <2> QED
    BY <2>7, <2>8, <2>9, <2>10 DEF ProcsSound
<1> QED
  BY <1>1, <1>2, <1>3

\* A reload that failed leaves a.srv as it is.
LEMMA ReloadFailsStep == ASSUME AppInv, NEW p \in Procs, ReloadFails(p) PROVE AppInv'
<1> USE AppAssumption DEF AppInv, ReloadFails, AppGoto, svars, pvars, hvars
<1>1. AppTypeOK'
  BY DEF AppTypeOK, Phases, Procs, Gens
<1>2. ReloadKeepsServing'
  BY DEF ReloadKeepsServing, AppTypeOK, ProcsSound, Procs, Gens
<1>3. ProcsSound'
  <2>1. /\ proc[p] = "reload" /\ ProcsSound /\ phase[p][last[p]] = "failed"
        /\ UNCHANGED <<multi, phase, asked, cur, last, stream, hvars>>
    OBVIOUS
  <2>2. \A q \in Procs : proc'[q] = IF q = p THEN "loop" ELSE proc[q]
    BY DEF AppTypeOK
  <2>3. /\ \A q \in Procs : q < MaxProcs => q + 1 \in Procs
        /\ \A q \in Procs : phase[q][0] = "starting" /\ q > 1 => saved'[q][0]
    BY DEF Procs, Gens, AppTypeOK, ProcsSound
  <2> HIDE DEF AppInv, ReloadFails
  <2> QED
    BY <2>1, <2>2, <2>3 DEF ProcsSound
<1> QED
  BY <1>1, <1>2, <1>3

\* A reload that has not failed by its timeout replaces a.srv by a server that
\* serves, or remembers that it did not.
LEMMA ReloadTimeoutStep == ASSUME AppInv, NEW p \in Procs, ReloadTimeout(p) PROVE AppInv'
<1> USE AppAssumption DEF AppInv, ReloadTimeout, AppGoto, AskStop, SetAsked, svars, pvars, hvars
<1>1. AppTypeOK'
  <2>1. early' \in [Procs -> BOOLEAN]
    BY Zenon DEF AppTypeOK
  <2>2. cur[p] \in Gens /\ last[p] \in Gens
    BY DEF AppTypeOK
  <2>3. asked' \in [Procs -> [Gens -> {"no", "asked", "returned"}]]
    BY <2>2 DEF AppTypeOK
  <2>4. cur' \in [Procs -> Gens] /\ \A q \in Procs : cur'[q] <= last'[q]
    BY <2>2 DEF AppTypeOK, Gens
  <2> QED
    BY <2>1, <2>3, <2>4 DEF AppTypeOK
<1>2. ReloadKeepsServing'
  BY DEF ReloadKeepsServing, AppTypeOK, ProcsSound, Procs, Gens
<1>3. ProcsSound'
  <2>1. cur[p] < last[p] /\ cur[p] \in Gens /\ last[p] \in Gens
    BY DEF AppTypeOK, ProcsSound
  <2>2. \A q \in Procs : /\ cur'[q] = IF q = p THEN last[p] ELSE cur[q]
                         /\ proc'[q] = IF q = p THEN "loop" ELSE proc[q]
    BY DEF AppTypeOK
  <2>3. \A q \in Procs, g \in Gens :
           asked'[q][g] = IF q = p /\ g = cur[p] THEN "asked" ELSE asked[q][g]
    BY <2>1 DEF AppTypeOK
  <2>4. proc[p] = "reload" /\ UNCHANGED <<phase, saved, last, retired>>
    OBVIOUS
  <2>5. ProcsSound /\ cur \in [Procs -> Gens]
    BY DEF AppTypeOK
  <2> HIDE DEF AppInv, ReloadTimeout
  <2>6. ASSUME NEW q \in Procs, NEW g \in Gens, asked'[q][g] # "no", ~retired'[q]
        PROVE  g < cur'[q]
    <3>1. CASE q = p
      <4>1. g < cur[p] \/ g = cur[p]
        BY <2>3, <2>4, <2>5, <2>6, <3>1 DEF ProcsSound
      <4>2. cur'[q] = last[p] /\ g \in Nat /\ cur[p] \in Nat /\ last[p] \in Nat
        BY <2>1, <2>2, <3>1 DEF Gens
      <4> QED
        BY <2>1, <4>1, <4>2
    <3>2. CASE q # p
      BY <2>2, <2>3, <2>4, <2>5, <2>6, <3>2 DEF ProcsSound
    <3> QED
      BY <3>1, <3>2
  <2>7. ASSUME NEW q \in Procs, retired'[q], proc'[q] \in {"upgrading", "loop", "reload"}
        PROVE  q < MaxProcs /\ proc'[q + 1] # "none"
    <3>1. q < MaxProcs /\ proc[q + 1] # "none"
      BY <2>2, <2>4, <2>5, <2>7 DEF ProcsSound
    <3>2. q + 1 \in Procs
      BY <3>1 DEF Procs
    <3> QED
      BY <2>2, <3>1, <3>2
  <2>8. ASSUME NEW q \in Procs
        PROVE  /\ proc'[q] \in {"none", "boot"} => cur'[q] = 0 /\ ~retired'[q]
               /\ proc'[q] = "reload" => cur'[q] < last'[q]
               /\ q > 1 /\ phase'[q][0] = "starting" => saved'[q][0]
               /\ ~retired'[q] => proc'[q] \notin {"stopping", "upgrading"}
    BY <2>2, <2>4, <2>5 DEF ProcsSound
  <2>9. ASSUME NEW q \in Procs, NEW g \in Gens, phase'[q][g] \in {"cleaned", "draining"}
        PROVE  asked'[q][g] # "no"
    BY <2>3, <2>4, <2>5, <2>9 DEF ProcsSound
  <2> QED
    BY <2>6, <2>7, <2>8, <2>9 DEF ProcsSound
<1> QED
  BY <1>1, <1>2, <1>3

\* The parent returns to its loop, still retired.
LEMMA UpgradeDoneStep == ASSUME AppInv, NEW p \in Procs, UpgradeDone(p) PROVE AppInv'
<1> USE AppAssumption DEF AppInv, UpgradeDone, AppGoto, svars, pvars, hvars
<1>1. AppTypeOK'
  BY DEF AppTypeOK, Phases, Procs, Gens
<1>2. ReloadKeepsServing'
  BY DEF ReloadKeepsServing, AppTypeOK, ProcsSound, Procs, Gens
<1>3. ProcsSound'
  <2>1. /\ proc[p] = "upgrading" /\ ProcsSound
        /\ UNCHANGED <<multi, svars, cur, last, stream, hvars>>
    OBVIOUS
  <2>2. \A q \in Procs : proc'[q] = IF q = p THEN "loop" ELSE proc[q]
    BY DEF AppTypeOK
  <2>3. \A q \in Procs : q < MaxProcs => q + 1 \in Procs
    BY DEF Procs
  <2> HIDE DEF AppInv, UpgradeDone
  <2> QED
    BY <2>1, <2>2, <2>3 DEF ProcsSound
<1> QED
  BY <1>1, <1>2, <1>3

\* A process that exits promises nothing any more.
LEMMA ExitStep ==
  ASSUME AppInv, NEW p \in Procs, BootFails(p) \/ GiveUp(p) \/ AppStopDone(p)
  PROVE  AppInv'
<1> USE AppAssumption DEF AppInv
<1>0. AppExit(p) /\ UNCHANGED <<multi, cur, last, hvars>>
  BY DEF BootFails, GiveUp, AppStopDone
<1> USE DEF AppExit, AppGoto, hvars
<1>1. AppTypeOK'
  BY <1>0 DEF AppTypeOK, Phases, Procs, Gens
<1>2. ReloadKeepsServing'
  BY <1>0 DEF ReloadKeepsServing, AppTypeOK, ProcsSound, Procs, Gens
<1>3. ProcsSound'
  BY <1>0 DEF ProcsSound, AppTypeOK, Procs, Gens
<1> QED
  BY <1>1, <1>2, <1>3

\* The steps of server g of process p: only one that was asked stops serving.
LEMMA ServerStep ==
  ASSUME AppInv, NEW p \in Procs, NEW g \in Gens, Server(p, g)
  PROVE  AppInv'
<1> USE AppAssumption DEF AppInv, SetPhase, pvars, hvars
<1>1. CASE StartServes(p, g)
  <2>1. AppTypeOK'
    BY <1>1 DEF StartServes, AppTypeOK, Phases, Procs, Gens
  <2>2. ReloadKeepsServing'
    BY <1>1 DEF StartServes, ReloadKeepsServing, AppTypeOK, ProcsSound, Procs, Gens
  <2>3. ProcsSound'
    <3>1. /\ UNCHANGED <<multi, asked, pvars, hvars>>
          /\ phase' = [phase EXCEPT ![p][g] = "serving"]
          /\ saved' = [saved EXCEPT ![p][g] = TRUE]
      BY <1>1 DEF StartServes
    <3>2. \A q \in Procs, h \in Gens : <<q, h>> # <<p, g>> =>
             phase'[q][h] = phase[q][h] /\ saved'[q][h] = saved[q][h]
      BY <3>1 DEF AppTypeOK
    <3>3. phase'[p][g] = "serving" /\ 0 \in Gens /\ ProcsSound
      BY <3>1 DEF AppTypeOK, Gens
    <3> HIDE DEF AppInv
    <3> QED
      BY <3>1, <3>2, <3>3 DEF ProcsSound, pvars, hvars
  <2> QED
    BY <2>1, <2>2, <2>3
<1>2. CASE StartFails(p, g)
  <2>1. AppTypeOK'
    BY <1>2 DEF StartFails, AppTypeOK, Phases, Procs, Gens
  <2>2. ReloadKeepsServing'
    BY <1>2 DEF StartFails, ReloadKeepsServing, AppTypeOK, ProcsSound, Procs, Gens
  <2>3. ProcsSound'
    BY <1>2 DEF StartFails, ProcsSound, AppTypeOK, Procs, Gens
  <2> QED
    BY <2>1, <2>2, <2>3
<1>3. CASE Clean(p, g)
  <2>1. AppTypeOK'
    BY <1>3 DEF Clean, AppTypeOK, Phases, Procs, Gens
  <2>2. ReloadKeepsServing'
    <3>1. asked[p][g] # "no" /\ UNCHANGED <<multi, saved, asked, pvars, hvars>>
          /\ phase' = [phase EXCEPT ![p][g] = "cleaned"]
      BY <1>3 DEF Clean
    <3>2. ASSUME ~retired[p] PROVE g < cur[p] /\ cur[p] \in Int
      BY <3>1, <3>2 DEF ProcsSound, AppTypeOK, Gens
    <3>3. \A q \in Procs, h \in Gens : <<q, h>> # <<p, g>> => phase'[q][h] = phase[q][h]
      BY <3>1 DEF AppTypeOK
    <3>4. ASSUME NEW q \in Procs, ~retired[q]
          PROVE  phase'[q][cur[q]] = phase[q][cur[q]] /\ (cur[q] = 0 => phase'[q][0] = phase[q][0])
      BY <3>2, <3>3, <3>4 DEF AppTypeOK, Gens
    <3> QED
      BY <3>1, <3>4 DEF ReloadKeepsServing, pvars, hvars
  <2>3. ProcsSound'
    BY <1>3 DEF Clean, ProcsSound, AppTypeOK, Procs, Gens
  <2> QED
    BY <2>1, <2>2, <2>3
<1>4. CASE Shutdown(p, g)
  <2>1. AppTypeOK'
    BY <1>4 DEF Shutdown, AppTypeOK, Phases, Procs, Gens
  <2>2. ReloadKeepsServing'
    <3>1. /\ phase[p][g] = "cleaned" /\ UNCHANGED <<multi, pvars, hvars>>
          /\ phase' = [phase EXCEPT ![p][g] = "draining"]
      BY <1>4 DEF Shutdown
    <3>2. ASSUME NEW q \in Procs, NEW h \in Gens, phase[q][h] # "cleaned"
          PROVE  phase'[q][h] = phase[q][h]
      BY <3>1, <3>2 DEF AppTypeOK
    <3>3. \A q \in Procs : cur[q] \in Gens /\ 0 \in Gens
      BY DEF AppTypeOK, Gens
    <3> QED
      BY <3>1, <3>2, <3>3 DEF ReloadKeepsServing, pvars, hvars
  <2>3. ProcsSound'
    <3>1. /\ asked[p][g] # "no" /\ UNCHANGED <<multi, asked, pvars, hvars>>
          /\ phase[p][g] = "cleaned" /\ phase' = [phase EXCEPT ![p][g] = "draining"]
          /\ saved' = [saved EXCEPT ![p][g] = FALSE]
      BY <1>4 DEF Shutdown, ProcsSound
    <3>2. \A q \in Procs, h \in Gens : <<q, h>> # <<p, g>> =>
             phase'[q][h] = phase[q][h] /\ saved'[q][h] = saved[q][h]
      BY <3>1 DEF AppTypeOK
    <3>3. phase'[p][g] = "draining" /\ 0 \in Gens
      BY <3>1 DEF AppTypeOK, Gens
    <3> QED
      BY <3>1, <3>2, <3>3 DEF ProcsSound, pvars, hvars
  <2> QED
    BY <2>1, <2>2, <2>3
<1>5. CASE Drained(p, g)
  <2>0. PICK f \in {"stopped", "abandoned"} : phase' = [phase EXCEPT ![p][g] = f]
    BY <1>5 DEF Drained
  <2>1. /\ phase[p][g] = "draining" /\ UNCHANGED <<multi, saved, pvars, hvars>>
        /\ asked' = [asked EXCEPT ![p][g] = "returned"]
    BY <1>5 DEF Drained, SetAsked
  <2>2. AppTypeOK'
    BY <2>0, <2>1 DEF AppTypeOK, Phases
  <2>3. ReloadKeepsServing'
    <3>1. ASSUME NEW q \in Procs, NEW h \in Gens, phase[q][h] # "draining"
          PROVE  phase'[q][h] = phase[q][h]
      BY <2>0, <2>1, <3>1 DEF AppTypeOK
    <3>2. \A q \in Procs : cur[q] \in Gens /\ 0 \in Gens
      BY DEF AppTypeOK, Gens
    <3> QED
      BY <2>1, <3>1, <3>2 DEF ReloadKeepsServing, pvars, hvars
  <2>4. ProcsSound'
    <3>1. \A q \in Procs, h \in Gens : <<q, h>> # <<p, g>> =>
             phase'[q][h] = phase[q][h] /\ asked'[q][h] = asked[q][h]
      BY <2>0, <2>1 DEF AppTypeOK
    <3>2. /\ phase'[p][g] = f /\ asked'[p][g] = "returned" /\ asked[p][g] # "no"
          /\ 0 \in Gens /\ ProcsSound
      BY <2>0, <2>1 DEF AppTypeOK, ProcsSound, Gens
    <3> HIDE DEF AppInv
    <3> QED
      BY <2>1, <3>1, <3>2 DEF ProcsSound, pvars, hvars
  <2> QED
    BY <2>2, <2>3, <2>4
<1>6. CASE StopMisses(p, g)
  <2>1. /\ UNCHANGED <<multi, phase, saved, pvars, hvars>>
        /\ asked' = [asked EXCEPT ![p][g] = "returned"] /\ asked[p][g] = "asked"
    BY <1>6 DEF StopMisses, SetAsked
  <2>2. AppTypeOK'
    BY <2>1 DEF AppTypeOK
  <2>3. ReloadKeepsServing'
    BY <2>1 DEF ReloadKeepsServing
  <2>4. ProcsSound'
    BY <2>1 DEF ProcsSound, AppTypeOK
  <2> QED
    BY <2>2, <2>3, <2>4
<1> QED
  BY <1>1, <1>2, <1>3, <1>4, <1>5, <1>6 DEF Server

LEMMA AppInitial == AppInit => AppInv
<1> SUFFICES ASSUME AppInit PROVE AppInv
  OBVIOUS
<1> USE AppAssumption DEF AppInit
<1>1. AppTypeOK
  BY DEF AppTypeOK, Phases, Procs, Gens
<1>2. ReloadKeepsServing
  BY DEF ReloadKeepsServing
<1>3. ProcsSound
  BY DEF ProcsSound, Procs, Gens
<1> QED
  BY <1>1, <1>2, <1>3 DEF AppInv

LEMMA AppStep == AppInv /\ [AppNext]_appVars => AppInv'
<1> SUFFICES ASSUME AppInv, [AppNext]_appVars PROVE AppInv'
  OBVIOUS
<1>1. ASSUME NEW p \in Procs, Boot(p) \/ BootFails(p) PROVE AppInv'
  BY <1>1, BootStep, ExitStep
<1>2. ASSUME NEW p \in Procs, Signal(p) PROVE AppInv'
  BY <1>2, StopSignalStep, ReloadStep, UpgradeStep DEF Signal
<1>3. ASSUME NEW p \in Procs, Handler(p) PROVE AppInv'
  BY <1>3, ExitStep, ReloadFailsStep, ReloadTimeoutStep, UpgradeDoneStep DEF Handler
<1>4. ASSUME NEW p \in Procs, NEW g \in Gens, Server(p, g) PROVE AppInv'
  BY <1>4, ServerStep
<1>5. CASE UNCHANGED appVars
  BY <1>5 DEF AppInv, AppTypeOK, ReloadKeepsServing, ProcsSound, appVars, svars, pvars, hvars
<1> QED
  BY <1>1, <1>2, <1>3, <1>4, <1>5 DEF AppNext

\* Neither a reload nor an upgrade interrupts the service, for any number of
\* processes and reloads: a.srv serves through every reload, and from SIGUSR2
\* on somebody has the socket (app.go:170-263, upgrade.go:160-226).
THEOREM AppServiceKept == AppSpec => []ServiceKept
<1>1. AppInv => ServiceKept
  BY UpgradeSound DEF AppInv, ServiceKept
<1> QED
  BY <1>1, AppInitial, AppStep, PTL DEF AppSpec
=============================================================================
