------------------------------- MODULE Proxy -------------------------------
(***************************************************************************)
(* One proxied location: Proxy.ServeHTTP (internal/proxy/proxy.go) with    *)
(* the ProxyCache it shares between requests (internal/cache), the passive *)
(* and active health marks on its targets (internal/proxy/health.go) and   *)
(* the connection counts and soft-failure state of a target                *)
(* (internal/loadbalance/balancer.go).                                     *)
(*                                                                         *)
(* All requests here have the same cache key.  Time is the age of the      *)
(* entry and the state of each target's cooldown.  The balancer is any     *)
(* choice among the targets that filterInto leaves.                        *)
(***************************************************************************)
EXTENDS Integers, FiniteSets

CONSTANTS
    Requests,
    Kind,            \* per request: a member of Kinds
    Targets,
    Backups, Down,   \* the targets configured as backup, as down
    Clientless,      \* the targets getClient has no HostClient for
    Answers,         \* what an upstream may answer: a subset of AllAnswers
    MaxTries,        \* next_upstream.tries, after the default
    MaxConns,        \* per target, 0 for no limit
    MaxFails,        \* per target, 0 for no soft failures
    Checker,         \* TRUE iff there is a health checker
    CacheEnabled,    \* p.cache # nil
    CacheLock,       \* cache.cache_lock
    LockTimeout,     \* TRUE iff the wait for the lock is bounded
    Background,      \* ~BackgroundUpdateDisable
    Revalidate,
    MinUses,
    MaxAge, ErrorAge,                        \* getCacheDuration
    StaleTime, StaleIfError, StaleIfTimeout, \* the three stale windows
    None

\* "cacheable": a cache rule matches; "badPath": the upstream path holds one of
\* the characters ServeHTTP rejects; "plain": neither, and no upgrade.
Kinds == {"cacheable", "plain", "websocket", "badPath"}
AllAnswers == {"ok", "okVary", "notFound", "badGateway", "xaccel",
               "timeout", "refused"}

ASSUME ProxyAssumption ==
    /\ IsFiniteSet(Requests) /\ None \notin Requests
    /\ Kind \in [Requests -> Kinds]
    /\ None \notin Targets
    /\ Backups \subseteq Targets /\ Down \subseteq Targets
    /\ Clientless \subseteq Targets
    /\ Answers \subseteq AllAnswers
    /\ MaxTries \in Nat \ {0}
    /\ {MaxConns, MaxFails, MinUses, MaxAge, ErrorAge,
        StaleTime, StaleIfError, StaleIfTimeout} \subseteq Nat
    /\ {Checker, CacheEnabled, CacheLock, LockTimeout, Background, Revalidate}
          \subseteq BOOLEAN

VARIABLES
    conns,     \* per target: Connections
    healthy,   \* per target: Healthy
    fails,     \* per target: failCount, capped at MaxFails
    until,     \* per target: failedUntil: "zero", "future" or "past"
    entry,     \* the cache entry of the key, or NoEntry
    pending,   \* the request whose pendingRequest is in the map, or None
    closed,    \* the requests whose pendingRequest.done has been closed
    pc, attempt, tried, target, waitOn, answer, result,  \* per request
    bg,        \* per request: the refresh goroutine it started
    flight     \* the goroutine inside refreshGroup.Do, or None

tvars == <<conns, healthy, fails, until>>
cvars == <<entry, pending, closed>>
rvars == <<pc, attempt, tried, target, waitOn, answer, result>>
bvars == <<bg, flight>>
vars == <<tvars, cvars, rvars, bvars>>

NoEntry == [age |-> -1, maxAge |-> 0, uses |-> 0, from |-> None]
LargerOf(a, b) == IF a >= b THEN a ELSE b
\* The age at which no window is open any more: time stops to matter there.
AgeCap == LargerOf(MaxAge, ErrorAge)
          + LargerOf(StaleTime, LargerOf(StaleIfError, StaleIfTimeout)) + 1

Cacheable(r) == CacheEnabled /\ Kind[r] = "cacheable"

Init ==
    /\ conns = [t \in Targets |-> 0]
    /\ healthy = [t \in Targets |-> t \notin Down]
    /\ fails = [t \in Targets |-> 0]
    /\ until = [t \in Targets |-> "zero"]
    /\ entry = NoEntry /\ pending = None /\ closed = {}
    /\ pc = [r \in Requests |-> "select"]
    /\ attempt = [r \in Requests |-> 0]
    /\ tried = [r \in Requests |-> {}]
    /\ target = [r \in Requests |-> None]
    /\ waitOn = [r \in Requests |-> None]
    /\ answer = [r \in Requests |-> "ok"]
    /\ result = [r \in Requests |-> "none"]
    /\ bg = [r \in Requests |-> "none"] /\ flight = None

-----------------------------------------------------------------------------
(* Targets *)

CoolingDown(t) == MaxFails > 0 /\ fails[t] >= MaxFails /\ until[t] = "future"

HasRoom(t) == MaxConns = 0 \/ conns[t] < MaxConns

IsAvailable(t) ==
    healthy[t] /\ t \notin Down /\ HasRoom(t) /\ ~CoolingDown(t)

\* IsAvailable forgets a cooldown that has passed, on every target it is
\* asked about.
Forgiven(t) ==
    /\ IsAvailable(t) /\ MaxFails > 0 /\ fails[t] >= MaxFails
    /\ until[t] = "past"

ForgiveCooled ==
    /\ fails' = [t \in Targets |-> IF Forgiven(t) THEN 0 ELSE fails[t]]
    /\ until' = [t \in Targets |-> IF Forgiven(t) THEN "zero" ELSE until[t]]

\* filterInto and filterIntoExcluding: primaries first, then backups.
Candidates(excluded) ==
    LET avail == {t \in Targets \ excluded : IsAvailable(t)}
    IN  IF avail \ Backups # {} THEN avail \ Backups ELSE avail

RecordFailure(t) ==
    IF MaxFails = 0 THEN UNCHANGED <<fails, until>>
    ELSE /\ fails' = [fails EXCEPT ![t] = IF @ < MaxFails THEN @ + 1 ELSE @]
         /\ until' = IF fails'[t] >= MaxFails
                     THEN [until EXCEPT ![t] = "future"] ELSE until

RecordSuccess(t) ==
    IF MaxFails = 0 THEN UNCHANGED <<fails, until>>
    ELSE /\ fails' = [fails EXCEPT ![t] = 0]
         /\ until' = [until EXCEPT ![t] = "zero"]

MarkUnhealthy(t) ==
    IF Checker THEN healthy' = [healthy EXCEPT ![t] = FALSE] /\ RecordFailure(t)
    ELSE UNCHANGED <<healthy, fails, until>>

MarkHealthy(t) ==
    IF Checker THEN healthy' = [healthy EXCEPT ![t] = TRUE] /\ RecordSuccess(t)
    ELSE UNCHANGED <<healthy, fails, until>>

IncrementConnections(t) == conns' = [conns EXCEPT ![t] = @ + 1]
DecrementConnections(t) == conns' = [conns EXCEPT ![t] = @ - 1]

-----------------------------------------------------------------------------
(* The cache: each of these is one critical section of ProxyCache.mu *)

Expired == entry.age > entry.maxAge
\* Get returns the entry fresh, returns it stale, or returns nothing.
GetFresh == entry # NoEntry /\ ~Expired
GetStaleWhileRevalidate ==
    /\ entry # NoEntry /\ Expired
    /\ StaleTime > 0 /\ entry.age <= entry.maxAge + StaleTime
GetHit == GetFresh \/ GetStaleWhileRevalidate

\* GetStale, after an error of the given kind.
GetStaleOnError(err) ==
    LET window == IF err = "timeout" THEN StaleIfTimeout ELSE StaleIfError
    IN  /\ entry # NoEntry
        /\ \/ ~Expired
           \/ window > 0 /\ entry.age - entry.maxAge <= window

\* Get counts the use of an entry whose key matches, usable or not.
Used(e) == IF e = NoEntry \/ e.uses >= MinUses THEN e
           ELSE [e EXCEPT !.uses = @ + 1]

\* Closing pending.done and deleting it from the map.
ClosePending ==
    /\ pending' = None
    /\ closed' = closed \cup ({pending} \ {None})

\* Mutant of ReleaseLock: the lock is free again, the waiters are not told.
ReleaseLockSilently == (IF CacheLock THEN pending' = None ELSE UNCHANGED pending)
                       /\ UNCHANGED closed

ReleaseLock == IF CacheLock THEN ClosePending ELSE UNCHANGED <<pending, closed>>

\* Set stores a new entry and wakes the waiters in the same critical section.
Set(e) == entry' = e /\ ClosePending

Duration(ans) == IF ans \in {"notFound", "badGateway"} THEN ErrorAge ELSE MaxAge
NewEntry(ans, from) ==
    [age |-> 0, maxAge |-> Duration(ans), uses |-> 0, from |-> from]

-----------------------------------------------------------------------------
(* ServeHTTP *)

Goto(r, label) == pc' = [pc EXCEPT ![r] = label]
Return(r, res) == Goto(r, "done") /\ result' = [result EXCEPT ![r] = res]

\* continue: the next turn of the loop, or the end of it
NextAttempt(r) ==
    IF attempt[r] + 1 < MaxTries
    THEN /\ attempt' = [attempt EXCEPT ![r] = @ + 1]
         /\ Goto(r, "select") /\ UNCHANGED result
    ELSE Return(r, "failed") /\ UNCHANGED attempt

\* selectTarget, selectTargetExcluding
Select(r) ==
    /\ pc[r] = "select"
    /\ ForgiveCooled
    /\ \/ \E t \in Candidates(IF attempt[r] = 0 THEN {} ELSE tried[r]) :
             /\ target' = [target EXCEPT ![r] = t]
             /\ tried' = [tried EXCEPT ![r] = @ \cup {t}]
             /\ Goto(r, "connect") /\ UNCHANGED result
       \/ /\ Candidates(IF attempt[r] = 0 THEN {} ELSE tried[r]) = {}
          /\ Return(r, "failed") /\ UNCHANGED <<target, tried>>
    /\ UNCHANGED <<conns, healthy, cvars, attempt, waitOn, answer, bvars>>

\* getClient returned nil
NoClient(r) ==
    /\ pc[r] = "connect" /\ target[r] \in Clientless
    /\ MarkUnhealthy(target[r])
    /\ NextAttempt(r)
    /\ UNCHANGED <<conns, cvars, tried, target, waitOn, answer, bvars>>

\* IncrementConnections, then the branch on the kind of request
Connect(r) ==
    /\ pc[r] = "connect" /\ target[r] \notin Clientless
    /\ IncrementConnections(target[r])
    /\ Goto(r, CASE Kind[r] = "websocket" -> "tunnel"
                 [] Kind[r] = "badPath" -> "reject"
                 [] Cacheable(r) /\ attempt[r] = 0 -> "lookup"
                 [] OTHER -> "send")
    /\ UNCHANGED <<healthy, fails, until, cvars, attempt, tried, target, waitOn,
                   answer, result, bvars>>

\* Mutant of EndsUncached: the decrement is missing.
EndsUncachedKeepsCount(r) ==
    /\ pc[r] \in {"tunnel", "reject"}
    /\ Return(r, IF pc[r] = "tunnel" THEN "tunnelled" ELSE "rejected")
    /\ UNCHANGED <<tvars, cvars, attempt, tried, target, waitOn, answer, bvars>>

\* WebSocket returned, or the path holds one of the rejected characters: the
\* connection is given back, there is no retry.
EndsUncached(r) ==
    /\ pc[r] \in {"tunnel", "reject"}
    /\ DecrementConnections(target[r])
    /\ Return(r, IF pc[r] = "tunnel" THEN "tunnelled" ELSE "rejected")
    /\ UNCHANGED <<healthy, fails, until, cvars, attempt, tried, target, waitOn,
                   answer, bvars>>

\* Get found a fresh entry
HitFresh(r) ==
    /\ pc[r] = "lookup" /\ GetFresh
    /\ entry' = Used(entry)
    /\ DecrementConnections(target[r])
    /\ Return(r, "hit")
    /\ UNCHANGED <<healthy, fails, until, pending, closed, attempt, tried,
                   target, waitOn, answer, bvars>>

\* Get found a stale entry it may serve while a goroutine refreshes it
HitStale(r) ==
    /\ pc[r] = "lookup" /\ GetStaleWhileRevalidate
    /\ entry' = Used(entry)
    /\ DecrementConnections(target[r])
    /\ bg' = IF Background THEN [bg EXCEPT ![r] = "spawned"] ELSE bg
    /\ Return(r, "stale")
    /\ UNCHANGED <<healthy, fails, until, pending, closed, attempt, tried,
                   target, waitOn, answer, flight>>

Miss(r) ==
    /\ pc[r] = "lookup" /\ ~GetHit
    /\ entry' = Used(entry)
    /\ Goto(r, "lock")
    /\ UNCHANGED <<tvars, pending, closed, attempt, tried, target, waitOn,
                   answer, result, bvars>>

\* AcquireLockWithTimeout: no lock in use, an entry is there, or the lock is
\* free; the caller goes upstream in each case.
AcquireLock(r) ==
    /\ pc[r] = "lock"
    /\ ~CacheLock \/ entry # NoEntry \/ pending = None
    /\ pending' = IF CacheLock /\ entry = NoEntry THEN r ELSE pending
    /\ Goto(r, "send")
    /\ UNCHANGED <<tvars, entry, closed, attempt, tried, target, waitOn, answer,
                   result, bvars>>

\* AcquireLockWithTimeout: another request is generating the entry
WaitForLock(r) ==
    /\ pc[r] = "lock" /\ CacheLock /\ entry = NoEntry /\ pending # None
    /\ waitOn' = [waitOn EXCEPT ![r] = pending]
    /\ Goto(r, IF LockTimeout THEN "waitTimed" ELSE "release")
    /\ UNCHANGED <<tvars, cvars, attempt, tried, target, answer, result, bvars>>

\* case <-pending.done and case <-time.After(timeout): both lead upstream
WaitTimedEnds(r) ==
    /\ pc[r] = "waitTimed" /\ waitOn[r] \in closed
    /\ waitOn' = [waitOn EXCEPT ![r] = None]
    /\ Goto(r, "send")
    /\ UNCHANGED <<tvars, cvars, attempt, tried, target, answer, result, bvars>>

\* Mutant of WaitTimesOut: it asks for the lock again.
WaitTimesOutRetries(r) ==
    /\ pc[r] = "waitTimed"
    /\ waitOn' = [waitOn EXCEPT ![r] = None]
    /\ Goto(r, "lock")
    /\ UNCHANGED <<tvars, cvars, attempt, tried, target, answer, result, bvars>>

WaitTimesOut(r) ==
    /\ pc[r] = "waitTimed"
    /\ waitOn' = [waitOn EXCEPT ![r] = None]
    /\ Goto(r, "send")
    /\ UNCHANGED <<tvars, cvars, attempt, tried, target, answer, result, bvars>>

\* the unbounded wait: the connection is given back first
WaitReleases(r) ==
    /\ pc[r] = "release"
    /\ DecrementConnections(target[r])
    /\ Goto(r, "wait")
    /\ UNCHANGED <<healthy, fails, until, cvars, attempt, tried, target, waitOn,
                   answer, result, bvars>>

\* <-waitCh, then Get again
WaitEnds(r) ==
    /\ pc[r] = "wait" /\ waitOn[r] \in closed
    /\ waitOn' = [waitOn EXCEPT ![r] = None]
    /\ entry' = Used(entry)
    /\ IF GetHit THEN Return(r, "hit") ELSE Goto(r, "rejoin") /\ UNCHANGED result
    /\ UNCHANGED <<tvars, pending, closed, attempt, tried, target, answer, bvars>>

WaitRejoins(r) ==
    /\ pc[r] = "rejoin"
    /\ IncrementConnections(target[r])
    /\ Goto(r, "send")
    /\ UNCHANGED <<healthy, fails, until, cvars, attempt, tried, target, waitOn,
                   answer, result, bvars>>

\* client.Do failed
SendFails(r) ==
    /\ pc[r] = "send"
    /\ \E err \in Answers \cap {"timeout", "refused"} :
          answer' = [answer EXCEPT ![r] = err]
    /\ DecrementConnections(target[r])
    /\ MarkUnhealthy(target[r])
    /\ Goto(r, "failed")
    /\ UNCHANGED <<cvars, attempt, tried, target, waitOn, result, bvars>>

\* a stale entry answers for the failed upstream ...
StaleAnswers(r) ==
    /\ pc[r] = "failed" /\ Cacheable(r) /\ GetStaleOnError(answer[r])
    /\ Return(r, "stale")
    /\ UNCHANGED <<tvars, cvars, attempt, tried, target, waitOn, answer, bvars>>

\* ... or the lock is released and the next target is tried
RetryAfterError(r) ==
    /\ pc[r] = "failed" /\ ~(Cacheable(r) /\ GetStaleOnError(answer[r]))
    /\ IF Cacheable(r) /\ attempt[r] = 0 THEN ReleaseLock
       ELSE UNCHANGED <<pending, closed>>
    /\ NextAttempt(r)
    /\ UNCHANGED <<tvars, entry, tried, target, waitOn, answer, bvars>>

\* client.Do succeeded: the count, then RecordSuccess
SendAnswers(r) ==
    /\ pc[r] = "send"
    /\ \E ans \in Answers \ {"timeout", "refused"} :
          answer' = [answer EXCEPT ![r] = ans]
    /\ DecrementConnections(target[r])
    /\ RecordSuccess(target[r])
    /\ Goto(r, "answered")
    /\ UNCHANGED <<healthy, cvars, attempt, tried, target, waitOn, result, bvars>>

\* X-Accel-Redirect: the router serves the new path, ServeHTTP returns
AccelRedirect(r) ==
    /\ pc[r] = "answered" /\ answer[r] = "xaccel"
    /\ Return(r, "redirected")
    /\ UNCHANGED <<tvars, cvars, attempt, tried, target, waitOn, answer, bvars>>

\* a status to retry, with a try left
RetryStatus(r) ==
    /\ pc[r] = "answered" /\ answer[r] = "badGateway"
    /\ attempt[r] < MaxTries - 1
    /\ IF Cacheable(r) /\ attempt[r] = 0 THEN ReleaseLock
       ELSE UNCHANGED <<pending, closed>>
    /\ MarkUnhealthy(target[r])
    /\ NextAttempt(r)
    /\ UNCHANGED <<conns, entry, tried, target, waitOn, answer, bvars>>

\* A response to return.  With the cache enabled, a request no rule matches
\* returns here, before the headers are rewritten.
Deliver(r) ==
    /\ pc[r] = "answered"
    /\ \/ answer[r] \in {"ok", "okVary", "notFound"}
       \/ answer[r] = "badGateway" /\ attempt[r] >= MaxTries - 1
    /\ IF answer[r] = "badGateway" /\ Cacheable(r) /\ attempt[r] = 0
       THEN ReleaseLock ELSE UNCHANGED <<pending, closed>>
    /\ IF attempt[r] > 0 THEN MarkHealthy(target[r])
       ELSE UNCHANGED <<healthy, fails, until>>
    /\ CASE Cacheable(r) -> Goto(r, "store") /\ UNCHANGED result
         [] CacheEnabled /\ ~Cacheable(r) -> Return(r, "unfinished")
         [] OTHER -> Return(r, "proxied")
    /\ UNCHANGED <<conns, entry, attempt, tried, target, waitOn, answer, bvars>>

\* MinUses keeps the entry that is there
KeepEntry(r) ==
    /\ pc[r] = "store" /\ answer[r] = "ok"
    /\ GetHit /\ MinUses > 0 /\ Used(entry).uses < MinUses
    /\ entry' = Used(entry)
    /\ ReleaseLock
    /\ Return(r, "unfinished")
    /\ UNCHANGED <<tvars, attempt, tried, target, waitOn, answer, bvars>>

\* Mutant of StoreEntry: the entry is stored, the waiters are not told.
StoreEntryKeepsLock(r) ==
    /\ pc[r] = "store" /\ answer[r] = "ok"
    /\ ~(GetHit /\ MinUses > 0 /\ Used(entry).uses < MinUses)
    /\ entry' = NewEntry("ok", r)
    /\ Return(r, "proxied")
    /\ UNCHANGED <<tvars, pending, closed, attempt, tried, target, waitOn, answer,
                   bvars>>

\* Set, SetValidationHeaders, ReleaseLock: a 2xx response under the same key
StoreEntry(r) ==
    /\ pc[r] = "store" /\ answer[r] = "ok"
    /\ ~(GetHit /\ MinUses > 0 /\ Used(entry).uses < MinUses)
    /\ Set(NewEntry("ok", r))
    /\ Return(r, "proxied")
    /\ UNCHANGED <<tvars, attempt, tried, target, waitOn, answer, bvars>>

\* A Vary header in the response gives another key: that key's entry is set
\* and that key's lock is released.
StoreVariant(r) ==
    /\ pc[r] = "store" /\ answer[r] = "okVary"
    /\ Return(r, "proxied")
    /\ UNCHANGED <<tvars, cvars, attempt, tried, target, waitOn, answer, bvars>>

\* not 2xx: only the lock is released
StoreNothing(r) ==
    /\ pc[r] = "store" /\ answer[r] \in {"notFound", "badGateway"}
    /\ ReleaseLock
    /\ Return(r, "proxied")
    /\ UNCHANGED <<tvars, entry, attempt, tried, target, waitOn, answer, bvars>>

ServeHTTP(r) ==
    \/ Select(r) \/ NoClient(r) \/ Connect(r) \/ EndsUncached(r)
    \/ HitFresh(r) \/ HitStale(r) \/ Miss(r) \/ AcquireLock(r) \/ WaitForLock(r)
    \/ WaitTimedEnds(r) \/ WaitTimesOut(r) \/ WaitReleases(r) \/ WaitEnds(r)
    \/ WaitRejoins(r) \/ SendFails(r) \/ StaleAnswers(r) \/ RetryAfterError(r)
    \/ SendAnswers(r) \/ AccelRedirect(r) \/ RetryStatus(r) \/ Deliver(r)
    \/ KeepEntry(r) \/ StoreEntry(r) \/ StoreVariant(r) \/ StoreNothing(r)

-----------------------------------------------------------------------------
(* The refresh goroutine of a stale hit *)

\* refreshGroup.Do: the first caller runs backgroundRefresh, the others share
\* its result.  Revalidate looks the entry up once more.
RefreshEnter(r) ==
    /\ bg[r] = "spawned"
    /\ IF flight = None
       THEN /\ flight' = r /\ bg' = [bg EXCEPT ![r] = "running"]
            /\ entry' = IF Revalidate THEN Used(entry) ELSE entry
       ELSE bg' = [bg EXCEPT ![r] = "joined"] /\ UNCHANGED <<flight, entry>>
    /\ UNCHANGED <<tvars, pending, closed, rvars>>

\* The flight lands: everyone who joined it returns with its caller.
RefreshEnds(r) ==
    /\ bg[r] = "running"
    /\ flight' = None
    /\ bg' = [q \in Requests |-> IF q = r \/ bg[q] = "joined"
                                 THEN "finished" ELSE bg[q]]

\* 304: RefreshTTL records the validation, Created stays what it was
RefreshNotModified(r) ==
    /\ RefreshEnds(r) /\ Revalidate /\ target[r] \notin Clientless
    /\ UNCHANGED <<tvars, cvars, rvars>>

RefreshFails(r) ==
    /\ RefreshEnds(r) /\ Answers \cap {"timeout", "refused"} # {}
    /\ IF target[r] \in Clientless THEN UNCHANGED <<pending, closed>>
       ELSE ReleaseLock
    /\ UNCHANGED <<tvars, entry, rvars>>

\* any other status replaces the entry
RefreshStores(r) ==
    /\ RefreshEnds(r) /\ target[r] \notin Clientless
    /\ \E ans \in Answers \ {"timeout", "refused"} : Set(NewEntry(ans, r))
    /\ UNCHANGED <<tvars, rvars>>

Refresh(r) == RefreshEnter(r) \/ RefreshNotModified(r) \/ RefreshFails(r)
              \/ RefreshStores(r)

-----------------------------------------------------------------------------
(* The environment *)

\* checkTarget of the active health checker
HealthCheck(t) ==
    /\ Checker
    /\ MarkHealthy(t) \/ MarkUnhealthy(t)
    /\ UNCHANGED <<conns, cvars, rvars, bvars>>

CooldownEnds(t) ==
    /\ until[t] = "future"
    /\ until' = [until EXCEPT ![t] = "past"]
    /\ UNCHANGED <<conns, healthy, fails, cvars, rvars, bvars>>

\* time.Now() moves on
Tick ==
    /\ entry # NoEntry /\ entry.age < AgeCap
    /\ entry' = [entry EXCEPT !.age = @ + 1]
    /\ UNCHANGED <<tvars, pending, closed, rvars, bvars>>

\* ProxyCache.Delete, called by the purge handler
Purge ==
    /\ entry # NoEntry
    /\ entry' = NoEntry
    /\ UNCHANGED <<tvars, pending, closed, rvars, bvars>>

Next ==
    \/ \E r \in Requests : ServeHTTP(r) \/ Refresh(r)
    \/ \E t \in Targets : HealthCheck(t) \/ CooldownEnds(t)
    \/ Tick \/ Purge

Spec == Init /\ [][Next]_vars

\* Upstreams answer or the client times out, so every request and every
\* refresh goroutine keeps moving.  Health checks, the passing of time and
\* purges are not assumed to happen.
FairSpec == Spec /\ \A r \in Requests : WF_vars(ServeHTTP(r)) /\ WF_vars(Refresh(r))

-----------------------------------------------------------------------------
(* Properties *)

PCs == {"select", "connect", "tunnel", "reject", "lookup", "lock", "waitTimed",
        "release", "wait", "rejoin", "send", "failed", "answered", "store",
        "done"}

Results == {"none", "failed", "tunnelled", "rejected", "hit", "stale",
            "redirected", "unfinished", "proxied"}

TargetsTyped ==
    /\ conns \in [Targets -> Nat]
    /\ healthy \in [Targets -> BOOLEAN]
    /\ fails \in [Targets -> 0..MaxFails]
    /\ until \in [Targets -> {"zero", "future", "past"}]

CacheTyped ==
    /\ \/ entry = NoEntry
       \/ entry \in [age : Nat, maxAge : Nat, uses : Nat, from : Requests]
    /\ pending \in Requests \cup {None} /\ closed \subseteq Requests

RequestsTyped ==
    /\ pc \in [Requests -> PCs]
    /\ attempt \in [Requests -> 0..(MaxTries - 1)]
    /\ tried \in [Requests -> SUBSET Targets]
    /\ target \in [Requests -> Targets \cup {None}]
    /\ waitOn \in [Requests -> Requests \cup {None}]
    /\ answer \in [Requests -> AllAnswers]
    /\ result \in [Requests -> Results]

RefreshesTyped ==
    /\ bg \in [Requests -> {"none", "spawned", "running", "joined", "finished"}]
    /\ flight \in Requests \cup {None}

TypeOK == TargetsTyped /\ CacheTyped /\ RequestsTyped /\ RefreshesTyped

Holding == {"tunnel", "reject", "lookup", "lock", "waitTimed", "release", "send"}

\* The requests that have counted themselves on t and not yet taken it back.
Holders(t) ==
    {r \in Requests : target[r] = t /\ pc[r] \in Holding}

\* Connections, which least_conn and max_conns decide by, is exact on every
\* one of the twelve paths through ServeHTTP that give it back, retries, cache
\* hits and lock waits included (proxy.go:694,706,744,781,823,840,862,910).
ConnectionsConserved == \A t \in Targets : conns[t] = Cardinality(Holders(t))

\* A request that has returned without giving the lock back: its response named
\* another key, or the router was sent elsewhere (proxy.go:922,963).
LeftBehind(r) == pc[r] = "done" /\ answer[r] \in {"okVary", "xaccel"}

\* While a pendingRequest is in the map its creator is on its first attempt, on
\* a path that ends in Set or ReleaseLock, or it has left the lock behind in one
\* of the two ways the code has; either way its channel has not been closed
\* yet, so that the close in Set or ReleaseLock cannot panic
\* (file_cache.go:515-520,575-580; proxy.go:883,932,996).
LockOwned ==
    pending # None =>
        /\ pending \notin closed
        /\ attempt[pending] = 0
        /\ \/ pc[pending] \in {"send", "failed", "answered", "store"}
           \/ LeftBehind(pending)

\* Whoever waits for "another request to complete" (file_cache.go:525) can be
\* woken: the channel it waits for is closed, or is the one in the map, which
\* the next Set or ReleaseLock of any request closes, its creator's or, after a
\* creator that left the lock behind, a timed-out waiter's.
WaitersReachable ==
    \A r \in Requests :
        pc[r] \in {"waitTimed", "release", "wait"} =>
            waitOn[r] \in closed \/ (pending # None /\ waitOn[r] = pending)

\* The wait without a timeout (a negative cache_lock_timeout, proxy.go:816-823)
\* for a lock left behind: only another request's Set or ReleaseLock ends it.
Stranded(r) == ~LockTimeout /\ pc[r] = "wait" /\ LeftBehind(waitOn[r])

\* Every request is answered for good, whatever the health checker, purges,
\* expiry, the other requests and the answers they leave the lock behind with
\* do, unless it waits without a timeout for a lock left behind; and every
\* refresh goroutine leaves refreshGroup.Do (proxy.go:593,793-803).
RequestsComplete ==
    \A r \in Requests : /\ <>[](pc[r] = "done" \/ Stranded(r))
                        /\ (bg[r] = "spawned") ~> (bg[r] = "finished")
=============================================================================
