---------------------------- MODULE ProxyProofs ----------------------------
(***************************************************************************)
(* Proofs about Proxy for any number of requests and targets and every     *)
(* configuration of retries, health checks, limits, cache and cache lock.  *)
(***************************************************************************)
EXTENDS Proxy, FiniteSetTheorems, TLAPS

\* A request between the choice of a target and its return has a target.
HasTarget ==
  \A r \in Requests : pc[r] \notin {"select", "done"} => target[r] \in Targets

ProxyInv == TypeOK /\ HasTarget /\ ConnectionsConserved

-----------------------------------------------------------------------------
(* What the helpers of the model preserve *)

\* RecordFailure and RecordSuccess keep the soft-failure state in its range.
LEMMA RecordTyped ==
  ASSUME TargetsTyped, NEW t \in Targets, RecordFailure(t) \/ RecordSuccess(t)
  PROVE  /\ fails' \in [Targets -> 0..MaxFails]
         /\ until' \in [Targets -> {"zero", "future", "past"}]
<1>0. MaxFails \in Nat
  BY ProxyAssumption
<1>1. CASE MaxFails = 0
  BY <1>1 DEF TargetsTyped, RecordFailure, RecordSuccess
<1>2. CASE MaxFails # 0 /\ RecordFailure(t)
  <2>1. fails' = [fails EXCEPT ![t] = IF @ < MaxFails THEN @ + 1 ELSE @]
    BY <1>2 DEF RecordFailure
  <2>2. until' = until \/ until' = [until EXCEPT ![t] = "future"]
    BY <1>2 DEF RecordFailure
  <2>3. fails[t] \in 0..MaxFails
    BY DEF TargetsTyped
  <2>4. (IF fails[t] < MaxFails THEN fails[t] + 1 ELSE fails[t]) \in 0..MaxFails
    BY <1>0, <2>3
  <2> QED
    BY <2>1, <2>2, <2>4 DEF TargetsTyped
<1>3. CASE MaxFails # 0 /\ RecordSuccess(t)
  BY <1>0, <1>3 DEF TargetsTyped, RecordSuccess
<1> QED
  BY <1>1, <1>2, <1>3

\* So do the marks of the passive and the active health checks.
LEMMA MarkTyped ==
  ASSUME TargetsTyped, NEW t \in Targets, MarkHealthy(t) \/ MarkUnhealthy(t)
  PROVE  /\ fails' \in [Targets -> 0..MaxFails]
         /\ until' \in [Targets -> {"zero", "future", "past"}]
         /\ healthy' \in [Targets -> BOOLEAN]
<1>1. CASE Checker
  <2>1. RecordFailure(t) \/ RecordSuccess(t)
    BY <1>1 DEF MarkHealthy, MarkUnhealthy
  <2>2. healthy' \in [Targets -> BOOLEAN]
    BY <1>1 DEF MarkHealthy, MarkUnhealthy, TargetsTyped
  <2> QED
    BY <2>1, <2>2, RecordTyped
<1>2. CASE ~Checker
  BY <1>2 DEF MarkHealthy, MarkUnhealthy, TargetsTyped
<1> QED
  BY <1>1, <1>2

\* So does the reset in IsAvailable.
LEMMA ForgiveTyped ==
  ASSUME TargetsTyped, ForgiveCooled
  PROVE  /\ fails' \in [Targets -> 0..MaxFails]
         /\ until' \in [Targets -> {"zero", "future", "past"}]
BY ProxyAssumption DEF TargetsTyped, ForgiveCooled

EntryType == [age : Nat, maxAge : Nat, uses : Nat, from : Requests]

\* Counting a use yields an entry again.
LEMMA UsedTyped ==
  ASSUME CacheTyped
  PROVE  Used(entry) = NoEntry \/ Used(entry) \in EntryType
<1>1. CASE entry = NoEntry \/ entry.uses >= MinUses
  BY <1>1 DEF CacheTyped, Used, EntryType
<1>2. CASE ~(entry = NoEntry \/ entry.uses >= MinUses)
  <2>1. entry \in EntryType
    BY <1>2 DEF CacheTyped, EntryType
  <2>2. Used(entry) = [entry EXCEPT !.uses = @ + 1]
    BY <1>2 DEF Used
  <2> QED
    BY <2>1, <2>2 DEF EntryType
<1> QED
  BY <1>1, <1>2

\* Releasing the lock closes the channel of a request.
LEMMA CloseTyped ==
  ASSUME CacheTyped, ClosePending \/ ReleaseLock
  PROVE  pending' \in Requests \cup {None} /\ closed' \subseteq Requests
BY DEF CacheTyped, ClosePending, ReleaseLock

\* Whatever Set is given is an entry.
LEMMA NewEntryTyped ==
  ASSUME NEW ans, NEW r \in Requests
  PROVE  NewEntry(ans, r) \in EntryType
BY ProxyAssumption DEF NewEntry, EntryType, Duration

\* The loop goes round or ends, and never past next_upstream.tries.
LEMMA NextAttemptTyped ==
  ASSUME RequestsTyped, NEW r \in Requests, NextAttempt(r)
  PROVE  /\ pc' \in [Requests -> PCs]
         /\ attempt' \in [Requests -> 0..(MaxTries - 1)]
         /\ result' \in [Requests -> Results]
         /\ pc' = [pc EXCEPT ![r] = "select"] \/ pc' = [pc EXCEPT ![r] = "done"]
<1>1. MaxTries \in Nat \ {0} /\ attempt[r] \in 0..(MaxTries - 1)
  BY ProxyAssumption DEF RequestsTyped
<1>2. CASE attempt[r] + 1 < MaxTries
  BY <1>1, <1>2 DEF RequestsTyped, NextAttempt, Goto, PCs
<1>3. CASE ~(attempt[r] + 1 < MaxTries)
  BY <1>1, <1>3 DEF RequestsTyped, NextAttempt, Return, Goto, PCs, Results
<1> QED
  BY <1>2, <1>3

-----------------------------------------------------------------------------
(* The three ways a step can treat the connection counts *)

\* A step that takes or gives no connection.
Neutral ==
  /\ conns' = conns
  /\ \A q \in Requests : (pc'[q] \in Holding) <=> (pc[q] \in Holding)
  /\ \A q \in Requests : pc[q] \in Holding => target'[q] = target[q]

\* Such a step leaves the holders of every target as they were.
LEMMA NeutralStep ==
  ASSUME ConnectionsConserved, Neutral
  PROVE  ConnectionsConserved'
<1>1. \A t \in Targets : Holders(t)' = Holders(t)
  BY DEF Neutral, Holders
<1> QED
  BY <1>1 DEF Neutral, ConnectionsConserved

\* There are finitely many holders, so they can be counted.
LEMMA HoldersFinite ==
  ASSUME NEW t
  PROVE  IsFiniteSet(Holders(t)) /\ Cardinality(Holders(t)) \in Nat
<1>1. Holders(t) \in SUBSET Requests
  BY DEF Holders
<1>2. IsFiniteSet(Holders(t))
  BY <1>1, ProxyAssumption, FS_Subset
<1> QED
  BY <1>2, FS_CardinalityType

\* A step of r that counts it on its target.
LEMMA TakeStep ==
  ASSUME TypeOK, ConnectionsConserved, NEW r \in Requests,
         target[r] \in Targets, pc[r] \notin Holding, pc'[r] \in Holding,
         \A q \in Requests \ {r} : pc'[q] = pc[q],
         target' = target, IncrementConnections(target[r])
  PROVE  ConnectionsConserved' /\ conns' \in [Targets -> Nat]
<1>1. Holders(target[r])' = Holders(target[r]) \cup {r} /\ r \notin Holders(target[r])
  BY DEF Holders
<1>2. \A t \in Targets \ {target[r]} : Holders(t)' = Holders(t)
  BY DEF Holders
<1>3. Cardinality(Holders(target[r])') = Cardinality(Holders(target[r])) + 1
  BY <1>1, HoldersFinite, FS_AddElement
<1>4. conns \in [Targets -> Nat] /\ conns' = [conns EXCEPT ![target[r]] = @ + 1]
  BY DEF TypeOK, TargetsTyped, IncrementConnections
<1> QED
  BY <1>2, <1>3, <1>4 DEF ConnectionsConserved

\* A step of r that takes its count back.
LEMMA GiveStep ==
  ASSUME TypeOK, ConnectionsConserved, NEW r \in Requests,
         target[r] \in Targets, pc[r] \in Holding, pc'[r] \notin Holding,
         \A q \in Requests \ {r} : pc'[q] = pc[q],
         target' = target, DecrementConnections(target[r])
  PROVE  ConnectionsConserved' /\ conns' \in [Targets -> Nat]
<1>1. Holders(target[r])' = Holders(target[r]) \ {r} /\ r \in Holders(target[r])
  BY DEF Holders
<1>2. \A t \in Targets \ {target[r]} : Holders(t)' = Holders(t)
  BY DEF Holders
<1>3. IsFiniteSet(Holders(target[r]) \ {r})
      /\ Cardinality(Holders(target[r])') = Cardinality(Holders(target[r])) - 1
  BY <1>1, HoldersFinite, FS_RemoveElement
<1>4. Cardinality(Holders(target[r])') \in Nat
  BY <1>1, <1>3, FS_CardinalityType
<1>5. conns \in [Targets -> Nat] /\ conns' = [conns EXCEPT ![target[r]] = @ - 1]
  BY DEF TypeOK, TargetsTyped, DecrementConnections
<1>6. conns[target[r]] = Cardinality(Holders(target[r]))
  BY DEF ConnectionsConserved
<1>7. \A t \in Targets :
        conns'[t] = IF t = target[r] THEN conns[t] - 1 ELSE conns[t]
  BY <1>5
<1>8. conns[target[r]] - 1 \in Nat
  BY <1>3, <1>4, <1>6
<1>9. conns' \in [Targets -> Nat]
  BY <1>5, <1>8
<1> QED
  BY <1>2, <1>3, <1>6, <1>7, <1>9 DEF ConnectionsConserved

-----------------------------------------------------------------------------
(* Every step of a request *)

\* The parts of TypeOK a step of a request can disturb, connections apart.
MarksTyped ==
  /\ healthy \in [Targets -> BOOLEAN]
  /\ fails \in [Targets -> 0..MaxFails]
  /\ until \in [Targets -> {"zero", "future", "past"}]

CountsOK == conns \in [Targets -> Nat] /\ ConnectionsConserved

\* What a request does not touch keeps its type.
LEMMA UntouchedTyped ==
  ASSUME ProxyInv
  PROVE  /\ UNCHANGED <<healthy, fails, until>> => MarksTyped'
         /\ UNCHANGED cvars => CacheTyped'
         /\ UNCHANGED bvars => RefreshesTyped'
BY DEF ProxyInv, TypeOK, TargetsTyped, MarksTyped, CacheTyped, RefreshesTyped,
       cvars, bvars

\* A step of r that takes no connection and gives none back.
LEMMA NeutralCounts ==
  ASSUME ProxyInv, NEW r \in Requests, NEW l \in PCs, conns' = conns,
         pc' = [pc EXCEPT ![r] = l], (l \in Holding) <=> (pc[r] \in Holding),
         target' = target
  PROVE  CountsOK'
<1>1. Neutral
  BY DEF Neutral, ProxyInv, TypeOK, RequestsTyped
<1> QED
  BY <1>1, NeutralStep DEF CountsOK, ProxyInv, TypeOK, TargetsTyped

\* A step of r that keeps its target and does not go back before the choice
\* of one leaves HasTarget as it was.
LEMMA SameTarget ==
  ASSUME ProxyInv, NEW r \in Requests, NEW l \in PCs,
         pc' = [pc EXCEPT ![r] = l], target' = target, pc[r] \notin {"select", "done"}
  PROVE  HasTarget'
BY DEF ProxyInv, HasTarget, TypeOK, RequestsTyped

\* NoClient takes no connection and gives none back.
LEMMA NoClientStep ==
  ASSUME ProxyInv, NEW r \in Requests, NoClient(r)
  PROVE  ProxyInv'
<1>0. pc[r] \notin {"select", "done"} /\ target[r] \in Targets
  BY DEF NoClient, ProxyInv, HasTarget
<1>1. /\ \E l \in {"select", "done"} : pc' = [pc EXCEPT ![r] = l]
      /\ RequestsTyped'
  <2>1. RequestsTyped
    BY DEF ProxyInv, TypeOK
  <2>2. NextAttempt(r)
    BY DEF NoClient
  <2> QED
    BY <2>1, <2>2, NextAttemptTyped DEF RequestsTyped, NoClient
<1>3. MarksTyped'
  BY <1>0, MarkTyped DEF NoClient, MarksTyped, ProxyInv, TypeOK
<1>4. CacheTyped'
  BY UntouchedTyped DEF NoClient
<1>5. RefreshesTyped'
  BY UntouchedTyped DEF NoClient
<1>6. HasTarget'
  BY <1>0, <1>1, SameTarget DEF NoClient, PCs
<1>7. CountsOK'
  BY <1>1, NeutralCounts DEF NoClient, tvars, PCs, Holding
<1> QED
  BY <1>1, <1>3, <1>4, <1>5, <1>6, <1>7
  DEF ProxyInv, TypeOK, TargetsTyped, MarksTyped, CountsOK

\* Connect counts the request on its target.
LEMMA ConnectStep ==
  ASSUME ProxyInv, NEW r \in Requests, Connect(r)
  PROVE  ProxyInv'
<1>0. pc[r] \notin {"select", "done"} /\ target[r] \in Targets
  BY DEF Connect, ProxyInv, HasTarget
<1>1. \E l \in {"tunnel", "reject", "lookup", "send"} : pc' = [pc EXCEPT ![r] = l]
  <2>1. CASE Kind[r] = "websocket"
    BY <2>1 DEF Connect, Goto, Cacheable
  <2>2. CASE Kind[r] = "badPath"
    BY <2>2 DEF Connect, Goto, Cacheable
  <2>3. CASE Kind[r] \notin {"websocket", "badPath"} /\ Cacheable(r) /\ attempt[r] = 0
    BY <2>3 DEF Connect, Goto, Cacheable
  <2>4. CASE Kind[r] \notin {"websocket", "badPath"}
        /\ ~(Cacheable(r) /\ attempt[r] = 0)
    BY <2>4 DEF Connect, Goto, Cacheable
  <2> QED
    BY <2>1, <2>2, <2>3, <2>4
<1>2. RequestsTyped'
  BY <1>1, ProxyAssumption DEF Connect, ProxyInv, TypeOK, CacheTyped,
            RequestsTyped, PCs
<1>3. MarksTyped'
  BY UntouchedTyped DEF Connect, tvars
<1>4. CacheTyped'
  BY UntouchedTyped DEF Connect
<1>5. RefreshesTyped'
  BY UntouchedTyped DEF Connect
<1>6. HasTarget'
  BY <1>0, <1>1, SameTarget DEF Connect, PCs
<1>7. CountsOK'
  <2>1. TypeOK /\ ConnectionsConserved /\ target' = target
    BY DEF Connect, ProxyInv
  <2>2. pc[r] \notin Holding /\ pc'[r] \in Holding
    BY <1>1 DEF Connect, Holding, ProxyInv, TypeOK, RequestsTyped
  <2>3. \A q \in Requests \ {r} : pc'[q] = pc[q]
    BY <1>1 DEF ProxyInv, TypeOK, RequestsTyped
  <2>4. IncrementConnections(target[r])
    BY DEF Connect
  <2> QED
    BY <1>0, <2>1, <2>2, <2>3, <2>4, TakeStep DEF CountsOK
<1> QED
  BY <1>2, <1>3, <1>4, <1>5, <1>6, <1>7
  DEF ProxyInv, TypeOK, TargetsTyped, MarksTyped, CountsOK

\* EndsUncached takes the count of the request back.
LEMMA EndsUncachedStep ==
  ASSUME ProxyInv, NEW r \in Requests, EndsUncached(r)
  PROVE  ProxyInv'
<1>0. pc[r] \notin {"select", "done"} /\ target[r] \in Targets
  BY DEF EndsUncached, ProxyInv, HasTarget
<1>1. \E l \in {"done"} : pc' = [pc EXCEPT ![r] = l]
  BY DEF EndsUncached, Return, Goto
<1>2. RequestsTyped'
  BY <1>1, ProxyAssumption DEF EndsUncached, ProxyInv, TypeOK, CacheTyped,
            RequestsTyped, PCs, Return, Goto, Results
<1>3. MarksTyped'
  BY UntouchedTyped DEF EndsUncached, tvars
<1>4. CacheTyped'
  BY UntouchedTyped DEF EndsUncached
<1>5. RefreshesTyped'
  BY UntouchedTyped DEF EndsUncached
<1>6. HasTarget'
  BY <1>0, <1>1, SameTarget DEF EndsUncached, PCs
<1>7. CountsOK'
  <2>1. TypeOK /\ ConnectionsConserved /\ target' = target
    BY DEF EndsUncached, ProxyInv
  <2>2. pc[r] \in Holding /\ pc'[r] \notin Holding
    BY <1>1 DEF EndsUncached, Holding, ProxyInv, TypeOK, RequestsTyped
  <2>3. \A q \in Requests \ {r} : pc'[q] = pc[q]
    BY <1>1 DEF ProxyInv, TypeOK, RequestsTyped
  <2>4. DecrementConnections(target[r])
    BY DEF EndsUncached
  <2> QED
    BY <1>0, <2>1, <2>2, <2>3, <2>4, GiveStep DEF CountsOK
<1> QED
  BY <1>2, <1>3, <1>4, <1>5, <1>6, <1>7
  DEF ProxyInv, TypeOK, TargetsTyped, MarksTyped, CountsOK

\* HitFresh takes the count of the request back.
LEMMA HitFreshStep ==
  ASSUME ProxyInv, NEW r \in Requests, HitFresh(r)
  PROVE  ProxyInv'
<1>0. pc[r] \notin {"select", "done"} /\ target[r] \in Targets
  BY DEF HitFresh, ProxyInv, HasTarget
<1>1. \E l \in {"done"} : pc' = [pc EXCEPT ![r] = l]
  BY DEF HitFresh, Return, Goto
<1>2. RequestsTyped'
  BY <1>1, ProxyAssumption DEF HitFresh, ProxyInv, TypeOK, CacheTyped,
            RequestsTyped, PCs, Return, Goto, Results
<1>3. MarksTyped'
  BY UntouchedTyped DEF HitFresh, tvars
<1>4. CacheTyped'
  BY UsedTyped DEF HitFresh, ProxyInv, TypeOK, CacheTyped, EntryType
<1>5. RefreshesTyped'
  BY UntouchedTyped DEF HitFresh
<1>6. HasTarget'
  BY <1>0, <1>1, SameTarget DEF HitFresh, PCs
<1>7. CountsOK'
  <2>1. TypeOK /\ ConnectionsConserved /\ target' = target
    BY DEF HitFresh, ProxyInv
  <2>2. pc[r] \in Holding /\ pc'[r] \notin Holding
    BY <1>1 DEF HitFresh, Holding, ProxyInv, TypeOK, RequestsTyped
  <2>3. \A q \in Requests \ {r} : pc'[q] = pc[q]
    BY <1>1 DEF ProxyInv, TypeOK, RequestsTyped
  <2>4. DecrementConnections(target[r])
    BY DEF HitFresh
  <2> QED
    BY <1>0, <2>1, <2>2, <2>3, <2>4, GiveStep DEF CountsOK
<1> QED
  BY <1>2, <1>3, <1>4, <1>5, <1>6, <1>7
  DEF ProxyInv, TypeOK, TargetsTyped, MarksTyped, CountsOK

\* HitStale takes the count of the request back.
LEMMA HitStaleStep ==
  ASSUME ProxyInv, NEW r \in Requests, HitStale(r)
  PROVE  ProxyInv'
<1>0. pc[r] \notin {"select", "done"} /\ target[r] \in Targets
  BY DEF HitStale, ProxyInv, HasTarget
<1>1. \E l \in {"done"} : pc' = [pc EXCEPT ![r] = l]
  BY DEF HitStale, Return, Goto
<1>2. RequestsTyped'
  BY <1>1, ProxyAssumption DEF HitStale, ProxyInv, TypeOK, CacheTyped,
            RequestsTyped, PCs, Return, Goto, Results
<1>3. MarksTyped'
  BY UntouchedTyped DEF HitStale, tvars
<1>4. CacheTyped'
  BY UsedTyped DEF HitStale, ProxyInv, TypeOK, CacheTyped, EntryType
<1>5. RefreshesTyped'
  BY DEF HitStale, ProxyInv, TypeOK, RefreshesTyped
<1>6. HasTarget'
  BY <1>0, <1>1, SameTarget DEF HitStale, PCs
<1>7. CountsOK'
  <2>1. TypeOK /\ ConnectionsConserved /\ target' = target
    BY DEF HitStale, ProxyInv
  <2>2. pc[r] \in Holding /\ pc'[r] \notin Holding
    BY <1>1 DEF HitStale, Holding, ProxyInv, TypeOK, RequestsTyped
  <2>3. \A q \in Requests \ {r} : pc'[q] = pc[q]
    BY <1>1 DEF ProxyInv, TypeOK, RequestsTyped
  <2>4. DecrementConnections(target[r])
    BY DEF HitStale
  <2> QED
    BY <1>0, <2>1, <2>2, <2>3, <2>4, GiveStep DEF CountsOK
<1> QED
  BY <1>2, <1>3, <1>4, <1>5, <1>6, <1>7
  DEF ProxyInv, TypeOK, TargetsTyped, MarksTyped, CountsOK

\* Miss takes no connection and gives none back.
LEMMA MissStep ==
  ASSUME ProxyInv, NEW r \in Requests, Miss(r)
  PROVE  ProxyInv'
<1>0. pc[r] \notin {"select", "done"} /\ target[r] \in Targets
  BY DEF Miss, ProxyInv, HasTarget
<1>1. \E l \in {"lock"} : pc' = [pc EXCEPT ![r] = l]
  BY DEF Miss, Goto
<1>2. RequestsTyped'
  BY <1>1, ProxyAssumption DEF Miss, ProxyInv, TypeOK, CacheTyped,
            RequestsTyped, PCs
<1>3. MarksTyped'
  BY UntouchedTyped DEF Miss, tvars
<1>4. CacheTyped'
  BY UsedTyped DEF Miss, ProxyInv, TypeOK, CacheTyped, EntryType
<1>5. RefreshesTyped'
  BY UntouchedTyped DEF Miss
<1>6. HasTarget'
  BY <1>0, <1>1, SameTarget DEF Miss, PCs
<1>7. CountsOK'
  BY <1>1, NeutralCounts DEF Miss, tvars, PCs, Holding
<1> QED
  BY <1>2, <1>3, <1>4, <1>5, <1>6, <1>7
  DEF ProxyInv, TypeOK, TargetsTyped, MarksTyped, CountsOK

\* AcquireLock takes no connection and gives none back.
LEMMA AcquireLockStep ==
  ASSUME ProxyInv, NEW r \in Requests, AcquireLock(r)
  PROVE  ProxyInv'
<1>0. pc[r] \notin {"select", "done"} /\ target[r] \in Targets
  BY DEF AcquireLock, ProxyInv, HasTarget
<1>1. \E l \in {"send"} : pc' = [pc EXCEPT ![r] = l]
  BY DEF AcquireLock, Goto
<1>2. RequestsTyped'
  BY <1>1, ProxyAssumption DEF AcquireLock, ProxyInv, TypeOK, CacheTyped,
            RequestsTyped, PCs
<1>3. MarksTyped'
  BY UntouchedTyped DEF AcquireLock, tvars
<1>4. CacheTyped'
  BY DEF AcquireLock, ProxyInv, TypeOK, CacheTyped
<1>5. RefreshesTyped'
  BY UntouchedTyped DEF AcquireLock
<1>6. HasTarget'
  BY <1>0, <1>1, SameTarget DEF AcquireLock, PCs
<1>7. CountsOK'
  BY <1>1, NeutralCounts DEF AcquireLock, tvars, PCs, Holding
<1> QED
  BY <1>2, <1>3, <1>4, <1>5, <1>6, <1>7
  DEF ProxyInv, TypeOK, TargetsTyped, MarksTyped, CountsOK

\* WaitForLock takes no connection and gives none back.
LEMMA WaitForLockStep ==
  ASSUME ProxyInv, NEW r \in Requests, WaitForLock(r)
  PROVE  ProxyInv'
<1>0. pc[r] \notin {"select", "done"} /\ target[r] \in Targets
  BY DEF WaitForLock, ProxyInv, HasTarget
<1>1. \E l \in {"waitTimed", "release"} : pc' = [pc EXCEPT ![r] = l]
  BY DEF WaitForLock, Goto
<1>2. RequestsTyped'
  BY <1>1, ProxyAssumption DEF WaitForLock, ProxyInv, TypeOK, CacheTyped,
            RequestsTyped, PCs
<1>3. MarksTyped'
  BY UntouchedTyped DEF WaitForLock, tvars
<1>4. CacheTyped'
  BY UntouchedTyped DEF WaitForLock
<1>5. RefreshesTyped'
  BY UntouchedTyped DEF WaitForLock
<1>6. HasTarget'
  BY <1>0, <1>1, SameTarget DEF WaitForLock, PCs
<1>7. CountsOK'
  BY <1>1, NeutralCounts DEF WaitForLock, tvars, PCs, Holding
<1> QED
  BY <1>2, <1>3, <1>4, <1>5, <1>6, <1>7
  DEF ProxyInv, TypeOK, TargetsTyped, MarksTyped, CountsOK

\* WaitTimedEnds takes no connection and gives none back.
LEMMA WaitTimedEndsStep ==
  ASSUME ProxyInv, NEW r \in Requests, WaitTimedEnds(r)
  PROVE  ProxyInv'
<1>0. pc[r] \notin {"select", "done"} /\ target[r] \in Targets
  BY DEF WaitTimedEnds, ProxyInv, HasTarget
<1>1. \E l \in {"send"} : pc' = [pc EXCEPT ![r] = l]
  BY DEF WaitTimedEnds, Goto
<1>2. RequestsTyped'
  BY <1>1, ProxyAssumption DEF WaitTimedEnds, ProxyInv, TypeOK, CacheTyped,
            RequestsTyped, PCs
<1>3. MarksTyped'
  BY UntouchedTyped DEF WaitTimedEnds, tvars
<1>4. CacheTyped'
  BY UntouchedTyped DEF WaitTimedEnds
<1>5. RefreshesTyped'
  BY UntouchedTyped DEF WaitTimedEnds
<1>6. HasTarget'
  BY <1>0, <1>1, SameTarget DEF WaitTimedEnds, PCs
<1>7. CountsOK'
  BY <1>1, NeutralCounts DEF WaitTimedEnds, tvars, PCs, Holding
<1> QED
  BY <1>2, <1>3, <1>4, <1>5, <1>6, <1>7
  DEF ProxyInv, TypeOK, TargetsTyped, MarksTyped, CountsOK

\* WaitTimesOut takes no connection and gives none back.
LEMMA WaitTimesOutStep ==
  ASSUME ProxyInv, NEW r \in Requests, WaitTimesOut(r)
  PROVE  ProxyInv'
<1>0. pc[r] \notin {"select", "done"} /\ target[r] \in Targets
  BY DEF WaitTimesOut, ProxyInv, HasTarget
<1>1. \E l \in {"send"} : pc' = [pc EXCEPT ![r] = l]
  BY DEF WaitTimesOut, Goto
<1>2. RequestsTyped'
  BY <1>1, ProxyAssumption DEF WaitTimesOut, ProxyInv, TypeOK, CacheTyped,
            RequestsTyped, PCs
<1>3. MarksTyped'
  BY UntouchedTyped DEF WaitTimesOut, tvars
<1>4. CacheTyped'
  BY UntouchedTyped DEF WaitTimesOut
<1>5. RefreshesTyped'
  BY UntouchedTyped DEF WaitTimesOut
<1>6. HasTarget'
  BY <1>0, <1>1, SameTarget DEF WaitTimesOut, PCs
<1>7. CountsOK'
  BY <1>1, NeutralCounts DEF WaitTimesOut, tvars, PCs, Holding
<1> QED
  BY <1>2, <1>3, <1>4, <1>5, <1>6, <1>7
  DEF ProxyInv, TypeOK, TargetsTyped, MarksTyped, CountsOK

\* WaitReleases takes the count of the request back.
LEMMA WaitReleasesStep ==
  ASSUME ProxyInv, NEW r \in Requests, WaitReleases(r)
  PROVE  ProxyInv'
<1>0. pc[r] \notin {"select", "done"} /\ target[r] \in Targets
  BY DEF WaitReleases, ProxyInv, HasTarget
<1>1. \E l \in {"wait"} : pc' = [pc EXCEPT ![r] = l]
  BY DEF WaitReleases, Goto
<1>2. RequestsTyped'
  BY <1>1, ProxyAssumption DEF WaitReleases, ProxyInv, TypeOK, CacheTyped,
            RequestsTyped, PCs
<1>3. MarksTyped'
  BY UntouchedTyped DEF WaitReleases, tvars
<1>4. CacheTyped'
  BY UntouchedTyped DEF WaitReleases
<1>5. RefreshesTyped'
  BY UntouchedTyped DEF WaitReleases
<1>6. HasTarget'
  BY <1>0, <1>1, SameTarget DEF WaitReleases, PCs
<1>7. CountsOK'
  <2>1. TypeOK /\ ConnectionsConserved /\ target' = target
    BY DEF WaitReleases, ProxyInv
  <2>2. pc[r] \in Holding /\ pc'[r] \notin Holding
    BY <1>1 DEF WaitReleases, Holding, ProxyInv, TypeOK, RequestsTyped
  <2>3. \A q \in Requests \ {r} : pc'[q] = pc[q]
    BY <1>1 DEF ProxyInv, TypeOK, RequestsTyped
  <2>4. DecrementConnections(target[r])
    BY DEF WaitReleases
  <2> QED
    BY <1>0, <2>1, <2>2, <2>3, <2>4, GiveStep DEF CountsOK
<1> QED
  BY <1>2, <1>3, <1>4, <1>5, <1>6, <1>7
  DEF ProxyInv, TypeOK, TargetsTyped, MarksTyped, CountsOK

\* WaitEnds takes no connection and gives none back.
LEMMA WaitEndsStep ==
  ASSUME ProxyInv, NEW r \in Requests, WaitEnds(r)
  PROVE  ProxyInv'
<1>0. pc[r] \notin {"select", "done"} /\ target[r] \in Targets
  BY DEF WaitEnds, ProxyInv, HasTarget
<1>1. \E l \in {"done", "rejoin"} : pc' = [pc EXCEPT ![r] = l]
  BY DEF WaitEnds, Return, Goto
<1>2. RequestsTyped'
  BY <1>1, ProxyAssumption DEF WaitEnds, ProxyInv, TypeOK, CacheTyped,
            RequestsTyped, PCs, Return, Goto, Results
<1>3. MarksTyped'
  BY UntouchedTyped DEF WaitEnds, tvars
<1>4. CacheTyped'
  BY UsedTyped DEF WaitEnds, ProxyInv, TypeOK, CacheTyped, EntryType
<1>5. RefreshesTyped'
  BY UntouchedTyped DEF WaitEnds
<1>6. HasTarget'
  BY <1>0, <1>1, SameTarget DEF WaitEnds, PCs
<1>7. CountsOK'
  BY <1>1, NeutralCounts DEF WaitEnds, tvars, PCs, Holding
<1> QED
  BY <1>2, <1>3, <1>4, <1>5, <1>6, <1>7
  DEF ProxyInv, TypeOK, TargetsTyped, MarksTyped, CountsOK

\* WaitRejoins counts the request on its target.
LEMMA WaitRejoinsStep ==
  ASSUME ProxyInv, NEW r \in Requests, WaitRejoins(r)
  PROVE  ProxyInv'
<1>0. pc[r] \notin {"select", "done"} /\ target[r] \in Targets
  BY DEF WaitRejoins, ProxyInv, HasTarget
<1>1. \E l \in {"send"} : pc' = [pc EXCEPT ![r] = l]
  BY DEF WaitRejoins, Goto
<1>2. RequestsTyped'
  BY <1>1, ProxyAssumption DEF WaitRejoins, ProxyInv, TypeOK, CacheTyped,
            RequestsTyped, PCs
<1>3. MarksTyped'
  BY UntouchedTyped DEF WaitRejoins, tvars
<1>4. CacheTyped'
  BY UntouchedTyped DEF WaitRejoins
<1>5. RefreshesTyped'
  BY UntouchedTyped DEF WaitRejoins
<1>6. HasTarget'
  BY <1>0, <1>1, SameTarget DEF WaitRejoins, PCs
<1>7. CountsOK'
  <2>1. TypeOK /\ ConnectionsConserved /\ target' = target
    BY DEF WaitRejoins, ProxyInv
  <2>2. pc[r] \notin Holding /\ pc'[r] \in Holding
    BY <1>1 DEF WaitRejoins, Holding, ProxyInv, TypeOK, RequestsTyped
  <2>3. \A q \in Requests \ {r} : pc'[q] = pc[q]
    BY <1>1 DEF ProxyInv, TypeOK, RequestsTyped
  <2>4. IncrementConnections(target[r])
    BY DEF WaitRejoins
  <2> QED
    BY <1>0, <2>1, <2>2, <2>3, <2>4, TakeStep DEF CountsOK
<1> QED
  BY <1>2, <1>3, <1>4, <1>5, <1>6, <1>7
  DEF ProxyInv, TypeOK, TargetsTyped, MarksTyped, CountsOK

\* SendFails takes the count of the request back.
LEMMA SendFailsStep ==
  ASSUME ProxyInv, NEW r \in Requests, SendFails(r)
  PROVE  ProxyInv'
<1>0. pc[r] \notin {"select", "done"} /\ target[r] \in Targets
  BY DEF SendFails, ProxyInv, HasTarget
<1>1. \E l \in {"failed"} : pc' = [pc EXCEPT ![r] = l]
  BY DEF SendFails, Goto
<1>2. RequestsTyped'
  BY <1>1, ProxyAssumption DEF SendFails, ProxyInv, TypeOK, CacheTyped,
            RequestsTyped, PCs, AllAnswers
<1>3. MarksTyped'
  BY <1>0, MarkTyped DEF SendFails, MarksTyped, ProxyInv, TypeOK
<1>4. CacheTyped'
  BY UntouchedTyped DEF SendFails
<1>5. RefreshesTyped'
  BY UntouchedTyped DEF SendFails
<1>6. HasTarget'
  BY <1>0, <1>1, SameTarget DEF SendFails, PCs
<1>7. CountsOK'
  <2>1. TypeOK /\ ConnectionsConserved /\ target' = target
    BY DEF SendFails, ProxyInv
  <2>2. pc[r] \in Holding /\ pc'[r] \notin Holding
    BY <1>1 DEF SendFails, Holding, ProxyInv, TypeOK, RequestsTyped
  <2>3. \A q \in Requests \ {r} : pc'[q] = pc[q]
    BY <1>1 DEF ProxyInv, TypeOK, RequestsTyped
  <2>4. DecrementConnections(target[r])
    BY DEF SendFails
  <2> QED
    BY <1>0, <2>1, <2>2, <2>3, <2>4, GiveStep DEF CountsOK
<1> QED
  BY <1>2, <1>3, <1>4, <1>5, <1>6, <1>7
  DEF ProxyInv, TypeOK, TargetsTyped, MarksTyped, CountsOK

\* StaleAnswers takes no connection and gives none back.
LEMMA StaleAnswersStep ==
  ASSUME ProxyInv, NEW r \in Requests, StaleAnswers(r)
  PROVE  ProxyInv'
<1>0. pc[r] \notin {"select", "done"} /\ target[r] \in Targets
  BY DEF StaleAnswers, ProxyInv, HasTarget
<1>1. \E l \in {"done"} : pc' = [pc EXCEPT ![r] = l]
  BY DEF StaleAnswers, Return, Goto
<1>2. RequestsTyped'
  BY <1>1, ProxyAssumption DEF StaleAnswers, ProxyInv, TypeOK, CacheTyped,
            RequestsTyped, PCs, Return, Goto, Results
<1>3. MarksTyped'
  BY UntouchedTyped DEF StaleAnswers, tvars
<1>4. CacheTyped'
  BY UntouchedTyped DEF StaleAnswers
<1>5. RefreshesTyped'
  BY UntouchedTyped DEF StaleAnswers
<1>6. HasTarget'
  BY <1>0, <1>1, SameTarget DEF StaleAnswers, PCs
<1>7. CountsOK'
  BY <1>1, NeutralCounts DEF StaleAnswers, tvars, PCs, Holding
<1> QED
  BY <1>2, <1>3, <1>4, <1>5, <1>6, <1>7
  DEF ProxyInv, TypeOK, TargetsTyped, MarksTyped, CountsOK

\* RetryAfterError takes no connection and gives none back.
LEMMA RetryAfterErrorStep ==
  ASSUME ProxyInv, NEW r \in Requests, RetryAfterError(r)
  PROVE  ProxyInv'
<1>0. pc[r] \notin {"select", "done"} /\ target[r] \in Targets
  BY DEF RetryAfterError, ProxyInv, HasTarget
<1>1. /\ \E l \in {"select", "done"} : pc' = [pc EXCEPT ![r] = l]
      /\ RequestsTyped'
  <2>1. RequestsTyped
    BY DEF ProxyInv, TypeOK
  <2>2. NextAttempt(r)
    BY DEF RetryAfterError
  <2> QED
    BY <2>1, <2>2, NextAttemptTyped DEF RequestsTyped, RetryAfterError
<1>3. MarksTyped'
  BY UntouchedTyped DEF RetryAfterError, tvars
<1>4. CacheTyped'
  BY CloseTyped DEF RetryAfterError, ProxyInv, TypeOK, CacheTyped
<1>5. RefreshesTyped'
  BY UntouchedTyped DEF RetryAfterError
<1>6. HasTarget'
  BY <1>0, <1>1, SameTarget DEF RetryAfterError, PCs
<1>7. CountsOK'
  BY <1>1, NeutralCounts DEF RetryAfterError, tvars, PCs, Holding
<1> QED
  BY <1>1, <1>3, <1>4, <1>5, <1>6, <1>7
  DEF ProxyInv, TypeOK, TargetsTyped, MarksTyped, CountsOK

\* SendAnswers takes the count of the request back.
LEMMA SendAnswersStep ==
  ASSUME ProxyInv, NEW r \in Requests, SendAnswers(r)
  PROVE  ProxyInv'
<1>0. pc[r] \notin {"select", "done"} /\ target[r] \in Targets
  BY DEF SendAnswers, ProxyInv, HasTarget
<1>1. \E l \in {"answered"} : pc' = [pc EXCEPT ![r] = l]
  BY DEF SendAnswers, Goto
<1>2. RequestsTyped'
  BY <1>1, ProxyAssumption DEF SendAnswers, ProxyInv, TypeOK, CacheTyped,
            RequestsTyped, PCs, AllAnswers
<1>3. MarksTyped'
  BY <1>0, RecordTyped DEF SendAnswers, MarksTyped, ProxyInv, TypeOK, TargetsTyped
<1>4. CacheTyped'
  BY UntouchedTyped DEF SendAnswers
<1>5. RefreshesTyped'
  BY UntouchedTyped DEF SendAnswers
<1>6. HasTarget'
  BY <1>0, <1>1, SameTarget DEF SendAnswers, PCs
<1>7. CountsOK'
  <2>1. TypeOK /\ ConnectionsConserved /\ target' = target
    BY DEF SendAnswers, ProxyInv
  <2>2. pc[r] \in Holding /\ pc'[r] \notin Holding
    BY <1>1 DEF SendAnswers, Holding, ProxyInv, TypeOK, RequestsTyped
  <2>3. \A q \in Requests \ {r} : pc'[q] = pc[q]
    BY <1>1 DEF ProxyInv, TypeOK, RequestsTyped
  <2>4. DecrementConnections(target[r])
    BY DEF SendAnswers
  <2> QED
    BY <1>0, <2>1, <2>2, <2>3, <2>4, GiveStep DEF CountsOK
<1> QED
  BY <1>2, <1>3, <1>4, <1>5, <1>6, <1>7
  DEF ProxyInv, TypeOK, TargetsTyped, MarksTyped, CountsOK

\* AccelRedirect takes no connection and gives none back.
LEMMA AccelRedirectStep ==
  ASSUME ProxyInv, NEW r \in Requests, AccelRedirect(r)
  PROVE  ProxyInv'
<1>0. pc[r] \notin {"select", "done"} /\ target[r] \in Targets
  BY DEF AccelRedirect, ProxyInv, HasTarget
<1>1. \E l \in {"done"} : pc' = [pc EXCEPT ![r] = l]
  BY DEF AccelRedirect, Return, Goto
<1>2. RequestsTyped'
  BY <1>1, ProxyAssumption DEF AccelRedirect, ProxyInv, TypeOK, CacheTyped,
            RequestsTyped, PCs, Return, Goto, Results
<1>3. MarksTyped'
  BY UntouchedTyped DEF AccelRedirect, tvars
<1>4. CacheTyped'
  BY UntouchedTyped DEF AccelRedirect
<1>5. RefreshesTyped'
  BY UntouchedTyped DEF AccelRedirect
<1>6. HasTarget'
  BY <1>0, <1>1, SameTarget DEF AccelRedirect, PCs
<1>7. CountsOK'
  BY <1>1, NeutralCounts DEF AccelRedirect, tvars, PCs, Holding
<1> QED
  BY <1>2, <1>3, <1>4, <1>5, <1>6, <1>7
  DEF ProxyInv, TypeOK, TargetsTyped, MarksTyped, CountsOK

\* RetryStatus takes no connection and gives none back.
LEMMA RetryStatusStep ==
  ASSUME ProxyInv, NEW r \in Requests, RetryStatus(r)
  PROVE  ProxyInv'
<1>0. pc[r] \notin {"select", "done"} /\ target[r] \in Targets
  BY DEF RetryStatus, ProxyInv, HasTarget
<1>1. /\ \E l \in {"select", "done"} : pc' = [pc EXCEPT ![r] = l]
      /\ RequestsTyped'
  <2>1. RequestsTyped
    BY DEF ProxyInv, TypeOK
  <2>2. NextAttempt(r)
    BY DEF RetryStatus
  <2> QED
    BY <2>1, <2>2, NextAttemptTyped DEF RequestsTyped, RetryStatus
<1>3. MarksTyped'
  BY <1>0, MarkTyped DEF RetryStatus, MarksTyped, ProxyInv, TypeOK
<1>4. CacheTyped'
  BY CloseTyped DEF RetryStatus, ProxyInv, TypeOK, CacheTyped
<1>5. RefreshesTyped'
  BY UntouchedTyped DEF RetryStatus
<1>6. HasTarget'
  BY <1>0, <1>1, SameTarget DEF RetryStatus, PCs
<1>7. CountsOK'
  BY <1>1, NeutralCounts DEF RetryStatus, tvars, PCs, Holding
<1> QED
  BY <1>1, <1>3, <1>4, <1>5, <1>6, <1>7
  DEF ProxyInv, TypeOK, TargetsTyped, MarksTyped, CountsOK

\* Deliver takes no connection and gives none back.
LEMMA DeliverStep ==
  ASSUME ProxyInv, NEW r \in Requests, Deliver(r)
  PROVE  ProxyInv'
<1>0. pc[r] \notin {"select", "done"} /\ target[r] \in Targets
  BY DEF Deliver, ProxyInv, HasTarget
<1>1. \E l \in {"store", "done"} : pc' = [pc EXCEPT ![r] = l]
  BY DEF Deliver, Return, Goto
<1>2. RequestsTyped'
  BY <1>1, ProxyAssumption DEF Deliver, ProxyInv, TypeOK, CacheTyped,
            RequestsTyped, PCs, Return, Goto, Results
<1>3. MarksTyped'
  BY <1>0, MarkTyped, UntouchedTyped DEF Deliver, MarksTyped, ProxyInv, TypeOK
<1>4. CacheTyped'
  BY CloseTyped DEF Deliver, ProxyInv, TypeOK, CacheTyped
<1>5. RefreshesTyped'
  BY UntouchedTyped DEF Deliver
<1>6. HasTarget'
  BY <1>0, <1>1, SameTarget DEF Deliver, PCs
<1>7. CountsOK'
  BY <1>1, NeutralCounts DEF Deliver, tvars, PCs, Holding
<1> QED
  BY <1>2, <1>3, <1>4, <1>5, <1>6, <1>7
  DEF ProxyInv, TypeOK, TargetsTyped, MarksTyped, CountsOK

\* KeepEntry takes no connection and gives none back.
LEMMA KeepEntryStep ==
  ASSUME ProxyInv, NEW r \in Requests, KeepEntry(r)
  PROVE  ProxyInv'
<1>0. pc[r] \notin {"select", "done"} /\ target[r] \in Targets
  BY DEF KeepEntry, ProxyInv, HasTarget
<1>1. \E l \in {"done"} : pc' = [pc EXCEPT ![r] = l]
  BY DEF KeepEntry, Return, Goto
<1>2. RequestsTyped'
  BY <1>1, ProxyAssumption DEF KeepEntry, ProxyInv, TypeOK, CacheTyped,
            RequestsTyped, PCs, Return, Goto, Results
<1>3. MarksTyped'
  BY UntouchedTyped DEF KeepEntry, tvars
<1>4. CacheTyped'
  BY UsedTyped, CloseTyped DEF KeepEntry, ProxyInv, TypeOK, CacheTyped, EntryType
<1>5. RefreshesTyped'
  BY UntouchedTyped DEF KeepEntry
<1>6. HasTarget'
  BY <1>0, <1>1, SameTarget DEF KeepEntry, PCs
<1>7. CountsOK'
  BY <1>1, NeutralCounts DEF KeepEntry, tvars, PCs, Holding
<1> QED
  BY <1>2, <1>3, <1>4, <1>5, <1>6, <1>7
  DEF ProxyInv, TypeOK, TargetsTyped, MarksTyped, CountsOK

\* StoreEntry takes no connection and gives none back.
LEMMA StoreEntryStep ==
  ASSUME ProxyInv, NEW r \in Requests, StoreEntry(r)
  PROVE  ProxyInv'
<1>0. pc[r] \notin {"select", "done"} /\ target[r] \in Targets
  BY DEF StoreEntry, ProxyInv, HasTarget
<1>1. \E l \in {"done"} : pc' = [pc EXCEPT ![r] = l]
  BY DEF StoreEntry, Return, Goto
<1>2. RequestsTyped'
  BY <1>1, ProxyAssumption DEF StoreEntry, ProxyInv, TypeOK, CacheTyped,
            RequestsTyped, PCs, Return, Goto, Results
<1>3. MarksTyped'
  BY UntouchedTyped DEF StoreEntry, tvars
<1>4. CacheTyped'
  BY NewEntryTyped, CloseTyped
  DEF StoreEntry, Set, ProxyInv, TypeOK, CacheTyped, EntryType
<1>5. RefreshesTyped'
  BY UntouchedTyped DEF StoreEntry
<1>6. HasTarget'
  BY <1>0, <1>1, SameTarget DEF StoreEntry, PCs
<1>7. CountsOK'
  BY <1>1, NeutralCounts DEF StoreEntry, tvars, PCs, Holding
<1> QED
  BY <1>2, <1>3, <1>4, <1>5, <1>6, <1>7
  DEF ProxyInv, TypeOK, TargetsTyped, MarksTyped, CountsOK

\* StoreVariant takes no connection and gives none back.
LEMMA StoreVariantStep ==
  ASSUME ProxyInv, NEW r \in Requests, StoreVariant(r)
  PROVE  ProxyInv'
<1>0. pc[r] \notin {"select", "done"} /\ target[r] \in Targets
  BY DEF StoreVariant, ProxyInv, HasTarget
<1>1. \E l \in {"done"} : pc' = [pc EXCEPT ![r] = l]
  BY DEF StoreVariant, Return, Goto
<1>2. RequestsTyped'
  BY <1>1, ProxyAssumption DEF StoreVariant, ProxyInv, TypeOK, CacheTyped,
            RequestsTyped, PCs, Return, Goto, Results
<1>3. MarksTyped'
  BY UntouchedTyped DEF StoreVariant, tvars
<1>4. CacheTyped'
  BY UntouchedTyped DEF StoreVariant
<1>5. RefreshesTyped'
  BY UntouchedTyped DEF StoreVariant
<1>6. HasTarget'
  BY <1>0, <1>1, SameTarget DEF StoreVariant, PCs
<1>7. CountsOK'
  BY <1>1, NeutralCounts DEF StoreVariant, tvars, PCs, Holding
<1> QED
  BY <1>2, <1>3, <1>4, <1>5, <1>6, <1>7
  DEF ProxyInv, TypeOK, TargetsTyped, MarksTyped, CountsOK

\* StoreNothing takes no connection and gives none back.
LEMMA StoreNothingStep ==
  ASSUME ProxyInv, NEW r \in Requests, StoreNothing(r)
  PROVE  ProxyInv'
<1>0. pc[r] \notin {"select", "done"} /\ target[r] \in Targets
  BY DEF StoreNothing, ProxyInv, HasTarget
<1>1. \E l \in {"done"} : pc' = [pc EXCEPT ![r] = l]
  BY DEF StoreNothing, Return, Goto
<1>2. RequestsTyped'
  BY <1>1, ProxyAssumption DEF StoreNothing, ProxyInv, TypeOK, CacheTyped,
            RequestsTyped, PCs, Return, Goto, Results
<1>3. MarksTyped'
  BY UntouchedTyped DEF StoreNothing, tvars
<1>4. CacheTyped'
  BY CloseTyped DEF StoreNothing, ProxyInv, TypeOK, CacheTyped
<1>5. RefreshesTyped'
  BY UntouchedTyped DEF StoreNothing
<1>6. HasTarget'
  BY <1>0, <1>1, SameTarget DEF StoreNothing, PCs
<1>7. CountsOK'
  BY <1>1, NeutralCounts DEF StoreNothing, tvars, PCs, Holding
<1> QED
  BY <1>2, <1>3, <1>4, <1>5, <1>6, <1>7
  DEF ProxyInv, TypeOK, TargetsTyped, MarksTyped, CountsOK

\* Select gives the request a target, which it holds only from Connect on.
LEMMA SelectStep ==
  ASSUME ProxyInv, NEW r \in Requests, Select(r)
  PROVE  ProxyInv'
<1> DEFINE cand == Candidates(IF attempt[r] = 0 THEN {} ELSE tried[r])
<1>1. cand \subseteq Targets
  BY DEF Candidates
<1>2. \/ \E t \in Targets : /\ target' = [target EXCEPT ![r] = t]
                            /\ tried' = [tried EXCEPT ![r] = @ \cup {t}]
                            /\ pc' = [pc EXCEPT ![r] = "connect"]
                            /\ result' = result
      \/ /\ pc' = [pc EXCEPT ![r] = "done"] /\ UNCHANGED <<target, tried>>
         /\ result' = [result EXCEPT ![r] = "failed"]
  BY <1>1 DEF Select, Return, Goto
<1>3. RequestsTyped' /\ HasTarget'
  BY <1>2 DEF Select, ProxyInv, HasTarget, TypeOK, RequestsTyped, PCs, Results
<1>4. MarksTyped'
  BY ForgiveTyped DEF Select, MarksTyped, ProxyInv, TypeOK, TargetsTyped
<1>5. CacheTyped' /\ RefreshesTyped'
  BY UntouchedTyped DEF Select
<1>6. Neutral
  BY <1>2 DEF Select, Neutral, Holding, ProxyInv, TypeOK, RequestsTyped
<1>7. CountsOK'
  BY <1>6, NeutralStep DEF Select, CountsOK, ProxyInv, TypeOK, TargetsTyped
<1> QED
  BY <1>3, <1>4, <1>5, <1>7
  DEF ProxyInv, TypeOK, TargetsTyped, MarksTyped, CountsOK

-----------------------------------------------------------------------------
(* The other steps, and the theorems *)

\* A step that touches no request and no connection.
LEMMA OutsideStep ==
  ASSUME ProxyInv, UNCHANGED <<conns, rvars>>,
         MarksTyped', CacheTyped', RefreshesTyped'
  PROVE  ProxyInv'
<1>1. Neutral
  BY DEF Neutral, rvars
<1>2. ConnectionsConserved'
  BY <1>1, NeutralStep DEF ProxyInv
<1>3. RequestsTyped' /\ HasTarget'
  BY DEF ProxyInv, TypeOK, RequestsTyped, HasTarget, rvars
<1> QED
  BY <1>2, <1>3 DEF ProxyInv, TypeOK, TargetsTyped, MarksTyped

\* The refresh goroutine touches the cache and the flight only.
LEMMA RefreshStep ==
  ASSUME ProxyInv, NEW r \in Requests, Refresh(r)
  PROVE  ProxyInv'
<1>1. UNCHANGED <<tvars, rvars>>
  BY DEF Refresh, RefreshEnter, RefreshNotModified, RefreshFails, RefreshStores
<1>2. RefreshesTyped'
  BY DEF Refresh, RefreshEnter, RefreshNotModified, RefreshFails, RefreshStores,
         RefreshEnds, ProxyInv, TypeOK, RefreshesTyped
<1>3. CacheTyped'
  <2>1. CASE RefreshEnter(r)
    BY <2>1, UsedTyped DEF RefreshEnter, ProxyInv, TypeOK, CacheTyped, EntryType
  <2>2. CASE RefreshNotModified(r)
    BY <2>2, UntouchedTyped DEF RefreshNotModified
  <2>3. CASE RefreshFails(r)
    BY <2>3, CloseTyped DEF RefreshFails, ProxyInv, TypeOK, CacheTyped
  <2>4. CASE RefreshStores(r)
    BY <2>4, NewEntryTyped, CloseTyped
    DEF RefreshStores, Set, ProxyInv, TypeOK, CacheTyped, EntryType
  <2> QED
    BY <2>1, <2>2, <2>3, <2>4 DEF Refresh
<1> QED
  BY <1>1, <1>2, <1>3, UntouchedTyped, OutsideStep DEF tvars

\* Health checks and cooldowns touch the marks only.
LEMMA TargetStep ==
  ASSUME ProxyInv, NEW t \in Targets, HealthCheck(t) \/ CooldownEnds(t)
  PROVE  ProxyInv'
<1>1. UNCHANGED <<conns, cvars, rvars, bvars>>
  BY DEF HealthCheck, CooldownEnds
<1>2. MarksTyped'
  <2>1. CASE HealthCheck(t)
    BY <2>1, MarkTyped DEF HealthCheck, MarksTyped, ProxyInv, TypeOK
  <2>2. CASE CooldownEnds(t)
    BY <2>2 DEF CooldownEnds, MarksTyped, ProxyInv, TypeOK, TargetsTyped
  <2> QED
    BY <2>1, <2>2
<1> QED
  BY <1>1, <1>2, UntouchedTyped, OutsideStep

\* Time and purges touch the entry only.
LEMMA EntryStep ==
  ASSUME ProxyInv, Tick \/ Purge
  PROVE  ProxyInv'
<1>1. UNCHANGED <<tvars, rvars, bvars>>
  BY DEF Tick, Purge
<1>2. CacheTyped'
  BY DEF Tick, Purge, ProxyInv, TypeOK, CacheTyped
<1> QED
  BY <1>1, <1>2, UntouchedTyped, OutsideStep DEF tvars

\* Every step of ServeHTTP preserves the invariant.
LEMMA ServeStep ==
  ASSUME ProxyInv, NEW r \in Requests, ServeHTTP(r)
  PROVE  ProxyInv'
BY SelectStep, NoClientStep, ConnectStep, EndsUncachedStep, 
   HitFreshStep, HitStaleStep, MissStep, AcquireLockStep, 
   WaitForLockStep, WaitTimedEndsStep, WaitTimesOutStep, 
   WaitReleasesStep, WaitEndsStep, WaitRejoinsStep, SendFailsStep, 
   StaleAnswersStep, RetryAfterErrorStep, SendAnswersStep, 
   AccelRedirectStep, RetryStatusStep, DeliverStep, KeepEntryStep, 
   StoreEntryStep, StoreVariantStep, StoreNothingStep
DEF ServeHTTP

\* Initially nobody holds a connection.
LEMMA ProxyInit == Init => ProxyInv
<1> SUFFICES ASSUME Init PROVE ProxyInv
  OBVIOUS
<1>1. \A t \in Targets : Holders(t) = {}
  BY DEF Init, Holders, Holding
<1>2. ConnectionsConserved
  BY <1>1, FS_EmptySet DEF Init, ConnectionsConserved
<1>3. TargetsTyped
  BY ProxyAssumption DEF Init, TargetsTyped
<1>4. CacheTyped /\ RefreshesTyped
  BY DEF Init, CacheTyped, RefreshesTyped
<1>5. RequestsTyped
  BY ProxyAssumption DEF Init, RequestsTyped, PCs, Results, AllAnswers
<1> QED
  BY <1>2, <1>3, <1>4, <1>5 DEF ProxyInv, TypeOK, HasTarget, Init

\* The invariant is inductive.
LEMMA ProxyNext == ProxyInv /\ [Next]_vars => ProxyInv'
<1> SUFFICES ASSUME ProxyInv, [Next]_vars PROVE ProxyInv'
  OBVIOUS
<1>1. ASSUME NEW r \in Requests, ServeHTTP(r) \/ Refresh(r) PROVE ProxyInv'
  BY <1>1, ServeStep, RefreshStep
<1>2. ASSUME NEW t \in Targets, HealthCheck(t) \/ CooldownEnds(t) PROVE ProxyInv'
  BY <1>2, TargetStep
<1>3. CASE Tick \/ Purge
  BY <1>3, EntryStep
<1>4. CASE UNCHANGED vars
  BY <1>4, UntouchedTyped, OutsideStep DEF vars, tvars
<1> QED
  BY <1>1, <1>2, <1>3, <1>4 DEF Next

\* Every variable keeps its type, and in particular a request never makes more
\* than next_upstream.tries attempts.
THEOREM ProxyTypeOK == Spec => []TypeOK
<1>1. ProxyInv => TypeOK
  BY DEF ProxyInv
<1> QED
  BY <1>1, ProxyInit, ProxyNext, PTL DEF Spec

\* Whatever mix of requests, failures, retries, cache hits, lock waits, health
\* checks and purges: the Connections counter of every target is the number of
\* requests that are using it.
THEOREM ProxyConnections == Spec => []ConnectionsConserved
<1>1. ProxyInv => ConnectionsConserved
  BY DEF ProxyInv
<1> QED
  BY <1>1, ProxyInit, ProxyNext, PTL DEF Spec

-----------------------------------------------------------------------------
(* The cache lock *)

\* What the code between the lookup and the store relies on.  A request asks
\* for the lock once, on its first attempt; a request whose channel is closed
\* is past asking.
AsksOnce ==
  \A r \in Requests :
    /\ pc[r] \in {"lookup", "lock"} => attempt[r] = 0 /\ Cacheable(r)
    /\ r \in closed =>
         attempt[r] > 0 \/ pc[r] \notin {"select", "connect", "lookup", "lock"}

\* The lock guards an absent entry, and its owner is a cacheable request that
\* has not returned, or has left the lock behind.
OwnerAlive ==
  pending # None =>
    /\ CacheLock /\ entry = NoEntry /\ Cacheable(pending) /\ LockOwned

LockInv == AsksOnce /\ OwnerAlive

\* What a step does to the lock: nothing, while an absent entry stays absent;
\* or it closes the channel of whoever owns it.
LockKept == UNCHANGED <<pending, closed>> /\ (entry = NoEntry => entry' = NoEntry)

\* A step that closes the lock, of whatever owner, leaves it without an owner.
LEMMA LockClosed ==
  ASSUME ProxyInv, LockInv, ClosePending
  PROVE  /\ OwnerAlive'
         /\ \A q \in Requests : q \in closed' =>
              \/ q \in closed
              \/ /\ attempt[q] = 0
                 /\ pc[q] \in {"send", "failed", "answered", "store", "done"}
<1>1. pending' = None /\ closed' = closed \cup ({pending} \ {None})
  BY DEF ClosePending
<1>2. pending # None =>
        /\ attempt[pending] = 0
        /\ pc[pending] \in {"send", "failed", "answered", "store", "done"}
  BY DEF LockInv, OwnerAlive, LockOwned, LeftBehind
<1> QED
  BY <1>1, <1>2 DEF OwnerAlive

\* The request r moves to l on attempt a.
Moves(r, l, a) ==
  pc' = [pc EXCEPT ![r] = l] /\ attempt' = [attempt EXCEPT ![r] = a]

\* A step of r that leaves the lock alone: if r owns it, r must stay on the way
\* to releasing it, or return in one of the two ways that leave it behind.
LEMMA KeepStep ==
  ASSUME ProxyInv, LockInv, NEW r \in Requests, NEW l, NEW a \in Nat,
         Moves(r, l, a), LockKept,
         l \in {"lookup", "lock"} => a = 0 /\ Cacheable(r),
         \A q \in Requests \ {r} : answer'[q] = answer[q],
         l \in {"select", "connect", "lookup", "lock"} =>
            \/ a > 0
            \/ pc[r] \in {"select", "connect", "lookup", "lock"} /\ attempt[r] = 0,
         pending = r =>
            /\ a = 0
            /\ \/ l \in {"send", "failed", "answered", "store"}
               \/ l = "done" /\ answer'[r] \in {"okVary", "xaccel"}
  PROVE  LockInv'
<1>1. pc' = [pc EXCEPT ![r] = l] /\ attempt' = [attempt EXCEPT ![r] = a]
  BY DEF Moves
<1>2. pc \in [Requests -> PCs] /\ attempt \in [Requests -> 0..(MaxTries - 1)]
  BY DEF ProxyInv, TypeOK, RequestsTyped
<1>3. AsksOnce'
  BY <1>1, <1>2 DEF LockInv, AsksOnce, LockKept, Cacheable
<1>4. OwnerAlive'
  <2>1. CASE pending = None
    BY <2>1 DEF OwnerAlive, LockKept
  <2>2. CASE pending # None
    <3>1. CASE pending = r
      BY <1>1, <1>2, <2>2, <3>1 DEF LockInv, OwnerAlive, LockOwned, LeftBehind,
         LockKept, Cacheable
    <3>2. CASE pending \in Requests \ {r}
      BY <1>1, <1>2, <2>2, <3>2 DEF LockInv, OwnerAlive, LockOwned, LeftBehind,
         LockKept, Cacheable
    <3> QED
      BY <2>2, <3>1, <3>2 DEF ProxyInv, TypeOK, CacheTyped
  <2> QED
    BY <2>1, <2>2
<1> QED
  BY <1>3, <1>4 DEF LockInv

\* A step of r that closes the lock, whoever owns it.
LEMMA CloseStep ==
  ASSUME ProxyInv, LockInv, NEW r \in Requests, NEW l, NEW a \in Nat,
         Moves(r, l, a), ClosePending,
         l \notin {"connect", "lookup", "lock"}, l = "select" => a > 0,
         \A q \in Requests \ {r} : answer'[q] = answer[q]
  PROVE  LockInv'
<1>1. pc' = [pc EXCEPT ![r] = l] /\ attempt' = [attempt EXCEPT ![r] = a]
  BY DEF Moves
<1>2. pc \in [Requests -> PCs] /\ attempt \in [Requests -> 0..(MaxTries - 1)]
  BY DEF ProxyInv, TypeOK, RequestsTyped
<1>3. AsksOnce'
  BY <1>1, <1>2, LockClosed DEF LockInv, AsksOnce, Cacheable
<1> QED
  BY <1>3, LockClosed DEF LockInv

\* Most steps of r keep the attempt and leave the lock alone: the labels from
\* which they start are not those of an owner, or the label they reach is.
LEMMA StaysStep ==
  ASSUME ProxyInv, LockInv, NEW r \in Requests, NEW l,
         pc' = [pc EXCEPT ![r] = l], attempt' = attempt, LockKept,
         l \in {"lookup", "lock"} =>
            attempt[r] = 0 /\ Cacheable(r) /\ pc[r] \in {"connect", "lookup"},
         \A q \in Requests \ {r} : answer'[q] = answer[q],
         l # "select", l = "connect" => pc[r] = "select", pc[r] # "done",
         \/ pc[r] \notin {"send", "failed", "answered", "store"}
         \/ l \in {"send", "failed", "answered", "store"}
         \/ entry # NoEntry
  PROVE  LockInv'
<1>1. attempt \in [Requests -> 0..(MaxTries - 1)] /\ MaxTries \in Nat
  BY ProxyAssumption DEF ProxyInv, TypeOK, RequestsTyped
<1>2. Moves(r, l, attempt[r]) /\ attempt[r] \in Nat
  BY <1>1 DEF Moves
<1>3. pending = r =>
        attempt[r] = 0 /\ l \in {"send", "failed", "answered", "store"}
  BY ProxyAssumption DEF LockInv, OwnerAlive, LockOwned, LeftBehind
<1>4. CASE l = "connect"
  <2>1. attempt[r] > 0 \/ attempt[r] = 0
    BY <1>1
  <2> QED
    BY <1>2, <1>3, <1>4, <2>1, KeepStep
<1>5. CASE l # "connect"
  BY <1>2, <1>3, <1>5, KeepStep
<1> QED
  BY <1>4, <1>5

\* The turn of the loop: the owner must have let go before.
LEMMA TurnStep ==
  ASSUME ProxyInv, LockInv, NEW r \in Requests, NextAttempt(r), answer' = answer,
         ClosePending \/ (LockKept /\ pending # r)
  PROVE  LockInv'
<1>1. attempt \in [Requests -> 0..(MaxTries - 1)] /\ MaxTries \in Nat
  BY ProxyAssumption DEF ProxyInv, TypeOK, RequestsTyped
<1>2. CASE attempt[r] + 1 < MaxTries
  <2>1. Moves(r, "select", attempt[r] + 1) /\ attempt[r] + 1 \in Nat
        /\ attempt[r] + 1 > 0
    BY <1>1, <1>2 DEF NextAttempt, Goto, Moves
  <2> QED
    BY <2>1, KeepStep, CloseStep
<1>3. CASE ~(attempt[r] + 1 < MaxTries)
  <2>1. Moves(r, "done", attempt[r]) /\ attempt[r] \in Nat
    BY <1>1, <1>3 DEF NextAttempt, Return, Goto, Moves
  <2> QED
    BY <2>1, KeepStep, CloseStep
<1> QED
  BY <1>2, <1>3

\* The steps that keep the attempt and do not release the lock.
LEMMA LockStays ==
  ASSUME ProxyInv, LockInv, NEW r \in Requests,
         \/ Select(r) \/ Connect(r) \/ EndsUncached(r)
         \/ HitFresh(r) \/ HitStale(r) \/ Miss(r) \/ WaitForLock(r)
         \/ WaitTimedEnds(r) \/ WaitTimesOut(r) \/ WaitReleases(r) \/ WaitEnds(r)
         \/ WaitRejoins(r) \/ SendFails(r) \/ StaleAnswers(r) \/ SendAnswers(r)
  PROVE  LockInv'
<1>1. CASE Select(r)
  <2>1. \E l \in {"connect", "done"} : pc' = [pc EXCEPT ![r] = l]
    BY <1>1 DEF Select, Return, Goto
  <2>2. LockKept /\ attempt' = attempt
    BY <1>1 DEF Select, LockKept, cvars
  <2>3. answer' = answer
    BY <1>1 DEF Select
  <2> QED
    BY <1>1, <2>1, <2>2, <2>3, StaysStep DEF Select
<1>2. CASE Connect(r)
  <2>1. \/ /\ pc' = [pc EXCEPT ![r] = "lookup"]
           /\ attempt[r] = 0 /\ Cacheable(r)
        \/ \E l \in {"tunnel", "reject", "send"} : pc' = [pc EXCEPT ![r] = l]
    <3>1. CASE Kind[r] = "websocket"
      BY <1>2, <3>1 DEF Connect, Goto, Cacheable
    <3>2. CASE Kind[r] = "badPath"
      BY <1>2, <3>2 DEF Connect, Goto, Cacheable
    <3>3. CASE Kind[r] \notin {"websocket", "badPath"} /\ Cacheable(r) /\ attempt[r] = 0
      BY <1>2, <3>3 DEF Connect, Goto, Cacheable
    <3>4. CASE Kind[r] \notin {"websocket", "badPath"}
               /\ ~(Cacheable(r) /\ attempt[r] = 0)
      BY <1>2, <3>4 DEF Connect, Goto, Cacheable
    <3> QED
      BY <3>1, <3>2, <3>3, <3>4
  <2>2. LockKept /\ attempt' = attempt
    BY <1>2 DEF Connect, LockKept, cvars
  <2>3. answer' = answer
    BY <1>2 DEF Connect
  <2> QED
    BY <1>2, <2>1, <2>2, <2>3, StaysStep DEF Connect
<1>3. CASE EndsUncached(r)
  <2>1. \E l \in {"done"} : pc' = [pc EXCEPT ![r] = l]
    BY <1>3 DEF EndsUncached, Return, Goto
  <2>2. LockKept /\ attempt' = attempt
    BY <1>3 DEF EndsUncached, LockKept, cvars
  <2>3. answer' = answer
    BY <1>3 DEF EndsUncached
  <2> QED
    BY <1>3, <2>1, <2>2, <2>3, StaysStep DEF EndsUncached
<1>5. CASE HitFresh(r)
  <2>1. \E l \in {"done"} : pc' = [pc EXCEPT ![r] = l]
    BY <1>5 DEF HitFresh, Return, Goto
  <2>2. LockKept /\ attempt' = attempt
    BY <1>5 DEF HitFresh, LockKept, cvars, Used
  <2>3. answer' = answer
    BY <1>5 DEF HitFresh
  <2> QED
    BY <1>5, <2>1, <2>2, <2>3, StaysStep DEF HitFresh
<1>6. CASE HitStale(r)
  <2>1. \E l \in {"done"} : pc' = [pc EXCEPT ![r] = l]
    BY <1>6 DEF HitStale, Return, Goto
  <2>2. LockKept /\ attempt' = attempt
    BY <1>6 DEF HitStale, LockKept, cvars, Used
  <2>3. answer' = answer
    BY <1>6 DEF HitStale
  <2> QED
    BY <1>6, <2>1, <2>2, <2>3, StaysStep DEF HitStale
<1>7. CASE Miss(r)
  <2>1. \E l \in {"lock"} : pc' = [pc EXCEPT ![r] = l]
    BY <1>7 DEF Miss, Goto
  <2>2. LockKept /\ attempt' = attempt
    BY <1>7 DEF Miss, LockKept, cvars, Used
  <2>3. answer' = answer
    BY <1>7 DEF Miss
  <2>4. attempt[r] = 0 /\ Cacheable(r)
    BY <1>7 DEF Miss, LockInv, AsksOnce
  <2> QED
    BY <1>7, <2>1, <2>2, <2>3, <2>4, StaysStep DEF Miss
<1>8. CASE WaitForLock(r)
  <2>1. \E l \in {"waitTimed", "release"} : pc' = [pc EXCEPT ![r] = l]
    BY <1>8 DEF WaitForLock, Goto
  <2>2. LockKept /\ attempt' = attempt
    BY <1>8 DEF WaitForLock, LockKept, cvars
  <2>3. answer' = answer
    BY <1>8 DEF WaitForLock
  <2> QED
    BY <1>8, <2>1, <2>2, <2>3, StaysStep DEF WaitForLock
<1>9. CASE WaitTimedEnds(r)
  <2>1. \E l \in {"send"} : pc' = [pc EXCEPT ![r] = l]
    BY <1>9 DEF WaitTimedEnds, Goto
  <2>2. LockKept /\ attempt' = attempt
    BY <1>9 DEF WaitTimedEnds, LockKept, cvars
  <2>3. answer' = answer
    BY <1>9 DEF WaitTimedEnds
  <2> QED
    BY <1>9, <2>1, <2>2, <2>3, StaysStep DEF WaitTimedEnds
<1>10. CASE WaitTimesOut(r)
  <2>1. \E l \in {"send"} : pc' = [pc EXCEPT ![r] = l]
    BY <1>10 DEF WaitTimesOut, Goto
  <2>2. LockKept /\ attempt' = attempt
    BY <1>10 DEF WaitTimesOut, LockKept, cvars
  <2>3. answer' = answer
    BY <1>10 DEF WaitTimesOut
  <2> QED
    BY <1>10, <2>1, <2>2, <2>3, StaysStep DEF WaitTimesOut
<1>11. CASE WaitReleases(r)
  <2>1. \E l \in {"wait"} : pc' = [pc EXCEPT ![r] = l]
    BY <1>11 DEF WaitReleases, Goto
  <2>2. LockKept /\ attempt' = attempt
    BY <1>11 DEF WaitReleases, LockKept, cvars
  <2>3. answer' = answer
    BY <1>11 DEF WaitReleases
  <2> QED
    BY <1>11, <2>1, <2>2, <2>3, StaysStep DEF WaitReleases
<1>12. CASE WaitEnds(r)
  <2>1. \E l \in {"done", "rejoin"} : pc' = [pc EXCEPT ![r] = l]
    BY <1>12 DEF WaitEnds, Return, Goto
  <2>2. LockKept /\ attempt' = attempt
    BY <1>12 DEF WaitEnds, LockKept, cvars, Used
  <2>3. answer' = answer
    BY <1>12 DEF WaitEnds
  <2> QED
    BY <1>12, <2>1, <2>2, <2>3, StaysStep DEF WaitEnds
<1>13. CASE WaitRejoins(r)
  <2>1. \E l \in {"send"} : pc' = [pc EXCEPT ![r] = l]
    BY <1>13 DEF WaitRejoins, Goto
  <2>2. LockKept /\ attempt' = attempt
    BY <1>13 DEF WaitRejoins, LockKept, cvars
  <2>3. answer' = answer
    BY <1>13 DEF WaitRejoins
  <2> QED
    BY <1>13, <2>1, <2>2, <2>3, StaysStep DEF WaitRejoins
<1>14. CASE SendFails(r)
  <2>1. \E l \in {"failed"} : pc' = [pc EXCEPT ![r] = l]
    BY <1>14 DEF SendFails, Goto
  <2>2. LockKept /\ attempt' = attempt
    BY <1>14 DEF SendFails, LockKept, cvars
  <2>3. \A q \in Requests \ {r} : answer'[q] = answer[q]
    BY <1>14 DEF SendFails, ProxyInv, TypeOK, RequestsTyped
  <2> QED
    BY <1>14, <2>1, <2>2, <2>3, StaysStep DEF SendFails
<1>15. CASE StaleAnswers(r)
  <2>1. \E l \in {"done"} : pc' = [pc EXCEPT ![r] = l]
    BY <1>15 DEF StaleAnswers, Return, Goto
  <2>2. LockKept /\ attempt' = attempt
    BY <1>15 DEF StaleAnswers, LockKept, cvars
  <2>3. answer' = answer
    BY <1>15 DEF StaleAnswers
  <2> QED
    BY <1>15, <2>1, <2>2, <2>3, StaysStep DEF StaleAnswers, GetStaleOnError
<1>16. CASE SendAnswers(r)
  <2>1. \E l \in {"answered"} : pc' = [pc EXCEPT ![r] = l]
    BY <1>16 DEF SendAnswers, Goto
  <2>2. LockKept /\ attempt' = attempt
    BY <1>16 DEF SendAnswers, LockKept, cvars
  <2>3. \A q \in Requests \ {r} : answer'[q] = answer[q]
    BY <1>16 DEF SendAnswers, ProxyInv, TypeOK, RequestsTyped
  <2> QED
    BY <1>16, <2>1, <2>2, <2>3, StaysStep DEF SendAnswers
<1> QED
  BY <1>1, <1>2, <1>3, <1>5, <1>6, <1>7, <1>8,
     <1>9, <1>10, <1>11, <1>12, <1>13, <1>14, <1>15, <1>16

\* Asking for the lock: the owner is the request that asks.
LEMMA LockTaken ==
  ASSUME ProxyInv, LockInv, NEW r \in Requests, AcquireLock(r)
  PROVE  LockInv'
<1>1. /\ pc' = [pc EXCEPT ![r] = "send"] /\ attempt' = attempt /\ answer' = answer
      /\ entry' = entry /\ closed' = closed /\ pc[r] = "lock"
  BY DEF AcquireLock, Goto
<1>2. attempt[r] = 0 /\ Cacheable(r) /\ r \notin closed
  BY <1>1 DEF LockInv, AsksOnce
<1>3. CASE CacheLock /\ entry = NoEntry
  <2>1. pending' = r
    BY <1>3 DEF AcquireLock
  <2>2. OwnerAlive'
    BY <1>1, <1>2, <1>3, <2>1
    DEF OwnerAlive, LockOwned, Cacheable, ProxyInv, TypeOK, RequestsTyped
  <2>3. AsksOnce'
    BY <1>1 DEF LockInv, AsksOnce, Cacheable, ProxyInv, TypeOK, RequestsTyped
  <2> QED
    BY <2>2, <2>3 DEF LockInv
<1>4. CASE ~(CacheLock /\ entry = NoEntry)
  <2>1. LockKept
    BY <1>1, <1>4 DEF AcquireLock, LockKept
  <2> QED
    BY <1>1, <2>1, StaysStep
<1> QED
  BY <1>3, <1>4

\* The turns of the loop: an owner of the lock is cacheable and on its first
\* attempt, so it has released the lock, unless it never had a client.
LEMMA LockTurns ==
  ASSUME ProxyInv, LockInv, NEW r \in Requests,
         NoClient(r) \/ RetryAfterError(r) \/ RetryStatus(r)
  PROVE  LockInv'
<1>1. NextAttempt(r) /\ answer' = answer /\ entry' = entry
  BY DEF NoClient, RetryAfterError, RetryStatus, cvars
<1>2. pending = r => /\ CacheLock /\ Cacheable(r) /\ attempt[r] = 0
                     /\ pc[r] \in {"send", "failed", "answered", "store", "done"}
  BY ProxyAssumption DEF LockInv, OwnerAlive, LockOwned, LeftBehind
<1>3. ClosePending \/ (LockKept /\ pending # r)
  <2>1. CASE NoClient(r)
    BY <1>2, <2>1 DEF NoClient, LockKept, cvars
  <2>2. CASE RetryAfterError(r)
    BY <1>2, <2>2 DEF RetryAfterError, ReleaseLock, LockKept
  <2>3. CASE RetryStatus(r)
    BY <1>2, <2>3 DEF RetryStatus, ReleaseLock, LockKept
  <2> QED
    BY <2>1, <2>2, <2>3
<1> QED
  BY <1>1, <1>3, TurnStep

\* The ends of a request that got its answer.
LEMMA LockDelivers ==
  ASSUME ProxyInv, LockInv, NEW r \in Requests,
         \/ AccelRedirect(r) \/ Deliver(r) \/ KeepEntry(r) \/ StoreEntry(r)
         \/ StoreVariant(r) \/ StoreNothing(r)
  PROVE  LockInv'
<1>1. attempt \in [Requests -> 0..(MaxTries - 1)] /\ MaxTries \in Nat
  BY ProxyAssumption DEF ProxyInv, TypeOK, RequestsTyped
<1>2. pending = r => CacheLock /\ Cacheable(r) /\ attempt[r] = 0
  BY ProxyAssumption DEF LockInv, OwnerAlive, LockOwned
<1>3. answer' = answer
  BY DEF AccelRedirect, Deliver, KeepEntry, StoreEntry, StoreVariant, StoreNothing
<1>4. CASE AccelRedirect(r) \/ StoreVariant(r)
  <2>1. Moves(r, "done", attempt[r]) /\ attempt[r] \in Nat
    BY <1>1, <1>4 DEF AccelRedirect, StoreVariant, Return, Goto, Moves
  <2>2. LockKept /\ answer[r] \in {"okVary", "xaccel"}
    BY <1>4 DEF AccelRedirect, StoreVariant, LockKept, cvars
  <2> QED
    BY <1>2, <1>3, <2>1, <2>2, KeepStep
<1>5. ASSUME ~CacheLock PROVE pending = None
  BY <1>5 DEF LockInv, OwnerAlive
<1>6. CASE KeepEntry(r) \/ StoreEntry(r) \/ StoreNothing(r)
  <2>1. Moves(r, "done", attempt[r]) /\ attempt[r] \in Nat
    BY <1>1, <1>6 DEF KeepEntry, StoreEntry, StoreNothing, Return, Goto, Moves
  <2>2. ClosePending \/ (LockKept /\ pending # r)
    BY <1>5, <1>6, ProxyAssumption
    DEF KeepEntry, StoreEntry, StoreNothing, Set, ReleaseLock, LockKept, Used
  <2> QED
    BY <1>3, <2>1, <2>2, KeepStep, CloseStep
<1>7. CASE Deliver(r)
  <2>1. entry' = entry /\ attempt' = attempt /\ (ReleaseLock \/ UNCHANGED <<pending, closed>>)
    BY <1>7 DEF Deliver
  <2>2. ClosePending \/ LockKept
    BY <2>1 DEF ReleaseLock, LockKept
  <2>3. CASE Cacheable(r)
    <3>1. pc' = [pc EXCEPT ![r] = "store"]
      BY <1>7, <2>3 DEF Deliver, Goto
    <3>2. Moves(r, "store", attempt[r]) /\ attempt[r] \in Nat
      BY <1>1, <2>1, <3>1 DEF Moves
    <3> QED
      BY <1>2, <1>3, <2>2, <3>2, KeepStep, CloseStep
  <2>4. CASE ~Cacheable(r)
    <3>1. pc' = [pc EXCEPT ![r] = "done"]
      BY <1>7, <2>4 DEF Deliver, Return, Goto
    <3>2. Moves(r, "done", attempt[r]) /\ attempt[r] \in Nat
      BY <1>1, <2>1, <3>1 DEF Moves
    <3> QED
      BY <1>2, <1>3, <2>2, <2>4, <3>2, KeepStep, CloseStep
  <2> QED
    BY <2>3, <2>4
<1> QED
  BY <1>4, <1>6, <1>7

\* A step that moves no request: the refresh goroutine, the health checker,
\* time and purges close the lock or leave it alone.
LEMMA LockOutside ==
  ASSUME ProxyInv, LockInv, UNCHANGED rvars, ClosePending \/ LockKept
  PROVE  LockInv'
<1>1. CASE ClosePending
  <2>1. AsksOnce'
    BY <1>1, LockClosed DEF LockInv, AsksOnce, rvars, Cacheable
  <2> QED
    BY <1>1, <2>1, LockClosed DEF LockInv
<1>2. CASE LockKept
  BY <1>2 DEF LockKept, LockInv, AsksOnce, OwnerAlive, LockOwned, LeftBehind, rvars,
     Cacheable
<1> QED
  BY <1>1, <1>2

\* Initially nobody has asked.
LEMMA LockInit == Init => LockInv
BY DEF Init, LockInv, AsksOnce, OwnerAlive

\* The lock invariant is inductive relative to ProxyInv.
LEMMA LockNext == ProxyInv /\ LockInv /\ [Next]_vars => LockInv'
<1> SUFFICES ASSUME ProxyInv, LockInv, [Next]_vars PROVE LockInv'
  OBVIOUS
<1>1. ASSUME NEW r \in Requests, ServeHTTP(r) PROVE LockInv'
  BY <1>1, LockStays, LockTaken, LockTurns, LockDelivers DEF ServeHTTP
<1>2. ASSUME NEW r \in Requests, Refresh(r) PROVE LockInv'
  <2>1. UNCHANGED rvars
    BY <1>2 DEF Refresh, RefreshEnter, RefreshNotModified, RefreshFails,
                RefreshStores
  <2>2. ClosePending \/ LockKept
    BY <1>2 DEF Refresh, RefreshEnter, RefreshNotModified, RefreshFails,
                RefreshStores, ReleaseLock, Set, LockKept, Used, cvars
  <2> QED
    BY <2>1, <2>2, LockOutside
<1>3. ASSUME NEW t \in Targets, HealthCheck(t) \/ CooldownEnds(t) PROVE LockInv'
  BY <1>3, LockOutside DEF HealthCheck, CooldownEnds, LockKept, cvars
<1>4. CASE Tick \/ Purge \/ UNCHANGED vars
  BY <1>4, LockOutside DEF Tick, Purge, LockKept, vars, cvars
<1> QED
  BY <1>1, <1>2, <1>3, <1>4 DEF Next

\* For any number of requests, whatever the upstreams answer and whatever fails,
\* expires, times out or is purged: the owner of the cache lock is on its way to
\* releasing it or has left it behind by a Vary header or an X-Accel-Redirect,
\* and no channel is closed twice.
THEOREM ProxyLockOwned == Spec => []LockOwned
<1>1. LockInv => LockOwned
  BY DEF LockInv, OwnerAlive, LockOwned
<1>2. ProxyInv /\ LockInv /\ [Next]_vars => LockInv'
  BY LockNext
<1> QED
  BY <1>1, <1>2, ProxyInit, ProxyNext, LockInit, PTL DEF Spec

-----------------------------------------------------------------------------
(* Waiting for the cache lock *)

\* A step does not forget a lock: whoever was in the map still is, or its
\* channel has been closed; and a closed channel stays closed.
LockNotLost ==
  /\ closed \subseteq closed'
  /\ pending # None => pending' = pending \/ pending \in closed'

LEMMA ServeLoses ==
  ASSUME NEW r \in Requests, ServeHTTP(r)
  PROVE  LockNotLost
<1>1. CASE \/ Select(r) \/ NoClient(r) \/ Connect(r) \/ EndsUncached(r)
           \/ WaitForLock(r) \/ WaitTimedEnds(r) \/ WaitTimesOut(r)
           \/ WaitReleases(r) \/ WaitRejoins(r) \/ SendFails(r) \/ StaleAnswers(r)
           \/ SendAnswers(r) \/ AccelRedirect(r) \/ StoreVariant(r)
  <2>1. UNCHANGED cvars
    BY <1>1 DEF Select, NoClient, Connect, EndsUncached, WaitForLock,
       WaitTimedEnds, WaitTimesOut, WaitReleases, WaitRejoins, SendFails,
       StaleAnswers, SendAnswers, AccelRedirect, StoreVariant
  <2> QED
    BY <2>1 DEF cvars, LockNotLost
<1>2. CASE HitFresh(r) \/ HitStale(r) \/ Miss(r) \/ AcquireLock(r) \/ WaitEnds(r)
  BY <1>2 DEF HitFresh, HitStale, Miss, AcquireLock, WaitEnds, LockNotLost
<1>3. CASE \/ RetryAfterError(r) \/ RetryStatus(r) \/ Deliver(r) \/ KeepEntry(r)
           \/ StoreEntry(r) \/ StoreNothing(r)
  <2>1. ClosePending \/ UNCHANGED <<pending, closed>>
    BY <1>3 DEF RetryAfterError, RetryStatus, Deliver, KeepEntry, StoreEntry,
       StoreNothing, ReleaseLock, Set
  <2> QED
    BY <2>1 DEF ClosePending, LockNotLost
<1> QED
  BY <1>1, <1>2, <1>3 DEF ServeHTTP

\* Whoever waits after a step of r was waiting for the same request before it,
\* or is r, which has just been told to wait for the owner.
LEMMA ServeWaits ==
  ASSUME ProxyInv, NEW r \in Requests, ServeHTTP(r), NEW q \in Requests,
         pc'[q] \in {"waitTimed", "release", "wait"}
  PROVE  \/ /\ pc[q] \in {"waitTimed", "release", "wait"}
            /\ waitOn'[q] = waitOn[q]
         \/ pending # None /\ pending' = pending /\ waitOn'[q] = pending
<1> DEFINE W == {"waitTimed", "release", "wait"}
<1>1. pc \in [Requests -> PCs] /\ waitOn \in [Requests -> Requests \cup {None}]
  BY DEF ProxyInv, TypeOK, RequestsTyped
<1>2. CASE WaitForLock(r)
  BY <1>1, <1>2 DEF WaitForLock, Goto, cvars
<1>3. CASE WaitReleases(r)
  BY <1>1, <1>3 DEF WaitReleases, Goto
<1>4. CASE WaitTimedEnds(r) \/ WaitTimesOut(r) \/ WaitEnds(r)
  BY <1>1, <1>4 DEF WaitTimedEnds, WaitTimesOut, WaitEnds, Return, Goto
<1>5. ASSUME waitOn' = waitOn, NEW l, pc' = [pc EXCEPT ![r] = l], l \notin W
      PROVE  pc[q] \in W /\ waitOn'[q] = waitOn[q]
  BY <1>1, <1>5
<1>6. CASE \/ Connect(r) \/ EndsUncached(r) \/ HitFresh(r)
           \/ HitStale(r) \/ Miss(r) \/ AcquireLock(r) \/ WaitRejoins(r)
           \/ SendFails(r) \/ StaleAnswers(r) \/ SendAnswers(r) \/ AccelRedirect(r)
           \/ KeepEntry(r) \/ StoreEntry(r) \/ StoreVariant(r) \/ StoreNothing(r)
  <2>1. waitOn' = waitOn
    BY <1>6 DEF Connect, EndsUncached, HitFresh, HitStale, Miss,
       AcquireLock, WaitRejoins, SendFails, StaleAnswers, SendAnswers,
       AccelRedirect, KeepEntry, StoreEntry, StoreVariant, StoreNothing
  <2>2. \E l \in PCs \ W : pc' = [pc EXCEPT ![r] = l]
    BY <1>6 DEF Connect, EndsUncached, HitFresh, HitStale, Miss,
       AcquireLock, WaitRejoins, SendFails, StaleAnswers, SendAnswers,
       AccelRedirect, KeepEntry, StoreEntry, StoreVariant, StoreNothing,
       Return, Goto, PCs
  <2> QED
    BY <2>1, <2>2, <1>5
<1>7. CASE Select(r) \/ Deliver(r)
  <2>1. waitOn' = waitOn
    BY <1>7 DEF Select, Deliver
  <2>2. \E l \in {"connect", "done", "store"} : pc' = [pc EXCEPT ![r] = l]
    BY <1>7 DEF Select, Deliver, Return, Goto
  <2> QED
    BY <2>1, <2>2, <1>5
<1>8. CASE NoClient(r) \/ RetryAfterError(r) \/ RetryStatus(r)
  <2>1. waitOn' = waitOn /\ NextAttempt(r)
    BY <1>8 DEF NoClient, RetryAfterError, RetryStatus
  <2>2. \E l \in {"select", "done"} : pc' = [pc EXCEPT ![r] = l]
    BY <2>1 DEF NextAttempt, Return, Goto
  <2> QED
    BY <2>1, <2>2, <1>5
<1> QED
  BY <1>2, <1>3, <1>4, <1>6, <1>7, <1>8 DEF ServeHTTP

\* A step that moves no request and loses no lock leaves every waiter right.
LEMMA WaitsOutside ==
  ASSUME WaitersReachable, UNCHANGED rvars, LockNotLost
  PROVE  WaitersReachable'
BY DEF WaitersReachable, LockNotLost, rvars

\* Every step keeps what a waiter relies on, whatever the upstreams answer.
LEMMA WaitsNext == ProxyInv /\ WaitersReachable /\ [Next]_vars => WaitersReachable'
<1> SUFFICES ASSUME ProxyInv, WaitersReachable, [Next]_vars PROVE WaitersReachable'
  OBVIOUS
<1>1. ASSUME NEW r \in Requests, ServeHTTP(r) PROVE WaitersReachable'
  <2> SUFFICES ASSUME NEW q \in Requests, pc'[q] \in {"waitTimed", "release", "wait"}
               PROVE  \/ waitOn'[q] \in closed'
                      \/ pending' # None /\ waitOn'[q] = pending'
    BY DEF WaitersReachable
  <2>1. LockNotLost
    BY <1>1, ServeLoses
  <2> QED
    BY <1>1, <2>1, ServeWaits DEF WaitersReachable, LockNotLost
<1>2. ASSUME NEW r \in Requests, Refresh(r) PROVE WaitersReachable'
  <2>1. UNCHANGED rvars
    BY <1>2 DEF Refresh, RefreshEnter, RefreshNotModified, RefreshFails,
                RefreshStores
  <2>2. ClosePending \/ UNCHANGED <<pending, closed>>
    BY <1>2 DEF Refresh, RefreshEnter, RefreshNotModified, RefreshFails,
                RefreshStores, ReleaseLock, Set, cvars
  <2> QED
    BY <2>1, <2>2, WaitsOutside DEF ClosePending, LockNotLost
<1>3. ASSUME NEW t \in Targets, HealthCheck(t) \/ CooldownEnds(t) PROVE WaitersReachable'
  BY <1>3, WaitsOutside DEF HealthCheck, CooldownEnds, LockNotLost, cvars
<1>4. CASE Tick \/ Purge \/ UNCHANGED vars
  BY <1>4, WaitsOutside DEF Tick, Purge, LockNotLost, vars, cvars
<1> QED
  BY <1>1, <1>2, <1>3, <1>4 DEF Next

\* Whatever the upstreams answer, whoever waits for the cache lock waits for a
\* channel that is closed or that the next Set or ReleaseLock closes; with
\* ProxyLockOwned, its owner is on the way there or has left the lock behind.
THEOREM ProxyWaitersReachable == Spec => []WaitersReachable
<1>1. Init => WaitersReachable
  BY DEF Init, WaitersReachable
<1> QED
  BY <1>1, ProxyInit, ProxyNext, WaitsNext, PTL DEF Spec
=============================================================================
