------------------------------- MODULE Limits -------------------------------
(***************************************************************************)
(* The limits a request passes (internal/middleware/security): the rate    *)
(* limiter, as token bucket (ratelimit.go) or as sliding window            *)
(* (sliding_window.go), and after it the connection limiter, in the order  *)
(* of buildMiddlewareChain.                                                *)
(*                                                                         *)
(* Time is counted in ticks, rates in tokens per tick.  Allow of the token *)
(* bucket finds the bucket under the lock of its shard and takes the token *)
(* under the lock of the bucket, so that a bucket may be removed from the  *)
(* map in between.  Everything else holds one lock.  Handlers leave the    *)
(* headers alone that the key is taken from.                               *)
(***************************************************************************)
EXTENDS Integers, Sequences, FiniteSets, Functions

CONSTANTS
    Requests, Keys,
    Buckets,        \* the memory of the token buckets
    None,
    Rate, Burst,    \* of the token bucket
    CleanupAge,     \* age at which a bucket is dropped: 24 hours
    Window, Limit,  \* of the sliding window
    MaxConns        \* of the connection limiter

\* newTokenBucketLimiter and NewConnLimiter refuse other values; a day is time
\* for a burst and the requests that run at once.  A window of one request is a
\* case of its own: the approximation counts the first request of a key twice.
ASSUME LimitsAssumption ==
    /\ IsFiniteSet(Requests) /\ Rate \in Nat \ {0} /\ Burst \in Nat /\ Burst >= Rate
    /\ CleanupAge \in Nat /\ CleanupAge * Rate >= Burst + Cardinality(Requests)
    /\ Window \in Nat \ {0} /\ Limit \in Nat \ {0, 1}
    /\ MaxConns \in Nat \ {0} /\ None \notin Buckets \cup Keys

VARIABLES
    alg,      \* "token", "precise" or "approximate"
    perKey,   \* connections are counted per key, or all together
    cleaning, \* the goroutine of startCleanup runs
    phase,    \* place of the time in the window, for the approximation
    map,      \* shard.buckets: the bucket of each key
    bucket,   \* tokens and age of lastUpdate
    stamps,   \* windowCounter.timestamps: their ages, the oldest first
    empty,    \* windowCounter.count is 0
    conns,    \* counts, or current under the key None
    pc, key, held,  \* of each request; the bucket it has found
    credit,   \* history: the tokens a bucket that is never replaced would have
    admitted  \* history: the ages of the requests admitted, as far back as the window

rvars == <<map, bucket>>
wvars == <<stamps, empty>>
qvars == <<pc, key, held>>
hvars == <<credit, admitted>>
limitVars == <<alg, perKey, cleaning, phase, rvars, wvars, conns, qvars, hvars>>

Full == [tokens |-> Burst, age |-> 0]

LimitInit ==
    /\ alg \in {"token", "precise", "approximate"} /\ perKey \in BOOLEAN
    /\ cleaning = (alg = "token") /\ phase = 0
    /\ map = [k \in Keys |-> None] /\ bucket = [b \in Buckets |-> Full]
    /\ stamps = [k \in Keys |-> <<>>] /\ empty = [k \in Keys |-> TRUE]
    /\ conns = [k \in Keys \cup {None} |-> 0]
    /\ pc = [r \in Requests |-> "idle"]
    /\ key = [r \in Requests |-> None] /\ held = [r \in Requests |-> None]
    /\ credit = [k \in Keys |-> Burst]
    /\ admitted = [k \in Keys |-> <<>>]

Least(m, n) == IF m < n THEN m ELSE n

\* Ages are kept up to the largest one that is compared with.
Aged(s) == [i \in DOMAIN s |-> Least(s[i] + 1, Window + 1)]

\* The ages of s below a.  The clock is read under the lock and never goes back, so
\* that the others come first.
Younger(s, a) == SubSeq(s, Cardinality({i \in DOMAIN s : s[i] >= a}) + 1, Len(s))

Goto(r, label) == pc' = [pc EXCEPT ![r] = label]
InUse == Range(map) \cup Range(held)

\* 429, 503 or the end of the handler: the request is over.
LimitEnd(r) ==
    /\ Goto(r, "idle")
    /\ key' = [key EXCEPT ![r] = None] /\ held' = [held EXCEPT ![r] = None]

Admit(r, k) ==
    /\ Goto(r, "conn")
    /\ held' = [held EXCEPT ![r] = None]
    /\ admitted' = [admitted EXCEPT ![k] = Append(@, 0)]
    /\ UNCHANGED key

-----------------------------------------------------------------------------
(* RateLimiter *)

\* Allow: the bucket of the key, which is made if there is none
Find(r, k) ==
    /\ alg = "token" /\ pc[r] = "idle"
    /\ Goto(r, "found") /\ key' = [key EXCEPT ![r] = k]
    /\ \/ /\ map[k] # None
          /\ held' = [held EXCEPT ![r] = map[k]]
          /\ UNCHANGED rvars
       \/ /\ map[k] = None
          /\ \E b \in Buckets \ InUse :
               /\ map' = [map EXCEPT ![k] = b]
               /\ bucket' = [bucket EXCEPT ![b] = Full]
               /\ held' = [held EXCEPT ![r] = b]
    /\ UNCHANGED <<alg, perKey, cleaning, phase, wvars, conns, hvars>>

Refilled(b) == Least(Burst, bucket[b].tokens + bucket[b].age * Rate)

\* tokenBucket.consume
Consume(r) ==
    LET b == held[r]
        k == key[r]
        t == Refilled(b)
    IN /\ pc[r] = "found"
       /\ \/ /\ t >= 1
             /\ bucket' = [bucket EXCEPT ![b] = [tokens |-> t - 1, age |-> 0]]
             /\ credit' = [credit EXCEPT ![k] = @ - 1]
             /\ Admit(r, k)
          \/ /\ t < 1
             /\ bucket' = [bucket EXCEPT ![b] = [tokens |-> t, age |-> 0]]
             /\ LimitEnd(r) /\ UNCHANGED hvars
       /\ UNCHANGED <<alg, perKey, cleaning, phase, map, wvars, conns>>

\* Reset of one key, or ResetAll: the limit starts anew.
Reset(K) ==
    /\ map' = [k \in Keys |-> IF k \in K THEN None ELSE map[k]]
    /\ stamps' = [k \in Keys |-> IF k \in K THEN <<>> ELSE stamps[k]]
    /\ empty' = [k \in Keys |-> k \in K \/ empty[k]]
    /\ credit' = [k \in Keys |-> IF k \in K THEN Burst ELSE credit[k]]
    /\ admitted' = [k \in Keys |-> IF k \in K THEN <<>> ELSE admitted[k]]
    /\ UNCHANGED <<alg, perKey, cleaning, phase, bucket, conns, qvars>>

\* Mutant of Cleanup: buckets that are in use are dropped too.
CleanupAll ==
    /\ cleaning
    /\ map' = [k \in Keys |-> None]
    /\ UNCHANGED <<alg, perKey, cleaning, phase, bucket, wvars, conns, qvars, hvars>>

\* The ticker: buckets nobody has used for CleanupAge are dropped.
Cleanup ==
    /\ cleaning
    /\ map' = [k \in Keys |->
                 IF map[k] # None /\ bucket[map[k]].age > CleanupAge THEN None ELSE map[k]]
    /\ UNCHANGED <<alg, perKey, cleaning, phase, bucket, wvars, conns, qvars, hvars>>

StopCleanup ==
    /\ cleaning /\ cleaning' = FALSE
    /\ UNCHANGED <<alg, perKey, phase, rvars, wvars, conns, qvars, hvars>>

-----------------------------------------------------------------------------
(* SlidingWindowLimiter *)

\* allowPrecise: the requests of the last Window
Precise(k) ==
    LET valid == Younger(stamps[k], Window)
    IN [ok |-> Len(valid) < Limit, stamps |-> valid]

\* allowApproximate: the requests since the oldest one, weighted with the rest
\* of the window of the clock.  The first request puts its time there twice.
Approximate(k) ==
    LET old == IF empty[k] \/ stamps[k] = <<>> THEN <<0>>
               ELSE IF stamps[k][1] > Window THEN <<>> ELSE stamps[k]
    IN [ok |-> (Len(old) * (Window - phase)) \div Window < Limit, stamps |-> old]

Slide(r, k) ==
    /\ alg # "token" /\ pc[r] = "idle"
    /\ LET w == IF alg = "precise" THEN Precise(k) ELSE Approximate(k) IN
         /\ stamps' = [stamps EXCEPT ![k] = IF w.ok THEN Append(w.stamps, 0)
                                            ELSE w.stamps]
         /\ empty' = [empty EXCEPT ![k] = IF w.ok THEN FALSE ELSE @ \/ w.stamps = <<>>]
         /\ \/ w.ok /\ Goto(r, "conn") /\ key' = [key EXCEPT ![r] = k]
               /\ admitted' = [admitted EXCEPT ![k] = Append(@, 0)]
            \/ ~w.ok /\ UNCHANGED <<pc, key, admitted>>
    /\ UNCHANGED <<alg, perKey, cleaning, phase, rvars, conns, held, credit>>

-----------------------------------------------------------------------------
(* ConnLimiter *)

\* Acquire with a key
Acquire(r) ==
    /\ pc[r] = "conn" /\ perKey
    /\ \/ conns[key[r]] >= MaxConns /\ LimitEnd(r) /\ UNCHANGED conns
       \/ conns[key[r]] < MaxConns /\ Goto(r, "in")
          /\ conns' = [conns EXCEPT ![key[r]] = @ + 1] /\ UNCHANGED <<key, held>>
    /\ UNCHANGED <<alg, perKey, cleaning, phase, rvars, wvars, hvars>>

\* Acquire without: the counter is raised first and lowered again if it was
\* full; in between others are refused on account of it.
Raise(r) ==
    /\ pc[r] = "conn" /\ ~perKey
    /\ conns' = [conns EXCEPT ![None] = @ + 1]
    /\ Goto(r, IF conns[None] + 1 > MaxConns THEN "over" ELSE "in")
    /\ UNCHANGED <<alg, perKey, cleaning, phase, rvars, wvars, key, held, hvars>>

Lower(r) ==
    /\ pc[r] = "over" /\ LimitEnd(r)
    /\ conns' = [conns EXCEPT ![None] = @ - 1]
    /\ UNCHANGED <<alg, perKey, cleaning, phase, rvars, wvars, hvars>>

\* The deferred Release, however the handler ends
Release(r) ==
    /\ pc[r] = "in" /\ LimitEnd(r)
    /\ conns' = [conns EXCEPT ![IF perKey THEN key[r] ELSE None] = @ - 1]
    /\ UNCHANGED <<alg, perKey, cleaning, phase, rvars, wvars, hvars>>

-----------------------------------------------------------------------------

\* A request that has found its bucket takes its token before the next tick.
Tick ==
    /\ \A r \in Requests : pc[r] # "found"
    /\ phase' = (phase + 1) % Window
    /\ bucket' = [b \in Buckets |-> IF b \notin InUse THEN Full ELSE
                    [bucket[b] EXCEPT !.age = Least(@ + 1, CleanupAge + 1)]]
    /\ stamps' = [k \in Keys |-> Aged(stamps[k])]
    /\ credit' = [k \in Keys |-> Least(Burst, credit[k] + Rate)]
    /\ admitted' = [k \in Keys |-> Younger(Aged(admitted[k]), Window + 1)]
    /\ UNCHANGED <<alg, perKey, cleaning, map, empty, conns, qvars>>

LimitNext ==
    \/ \E r \in Requests, k \in Keys : Find(r, k) \/ Slide(r, k)
    \/ \E r \in Requests :
         Consume(r) \/ Acquire(r) \/ Raise(r) \/ Lower(r) \/ Release(r)
    \/ \E K \in {{k} : k \in Keys} \cup {Keys} : Reset(K)
    \/ Cleanup \/ StopCleanup \/ Tick

LimitSpec == LimitInit /\ [][LimitNext]_limitVars

-----------------------------------------------------------------------------
(* Properties *)

Labels == {"idle", "found", "conn", "over", "in"}

LimitTypeOK ==
    /\ alg \in {"token", "precise", "approximate"}
    /\ perKey \in BOOLEAN /\ cleaning \in BOOLEAN /\ phase \in 0..(Window - 1)
    /\ map \in [Keys -> Buckets \cup {None}]
    /\ bucket \in [Buckets -> [tokens : 0..Burst, age : 0..(CleanupAge + 1)]]
    /\ stamps \in [Keys -> Seq(0..(Window + 1))]
    /\ empty \in [Keys -> BOOLEAN] /\ conns \in [Keys \cup {None} -> Nat]
    /\ pc \in [Requests -> Labels] /\ key \in [Requests -> Keys \cup {None}]
    /\ held \in [Requests -> Buckets \cup {None}]
    /\ credit \in [Keys -> Int] /\ admitted \in [Keys -> Seq(0..Window)]

\* ratelimit.go:288-343.  A key is admitted at most Burst requests at once and
\* Rate per tick in the long run, whatever the cleanup drops and the requests
\* create concurrently.  A request that has found its bucket still uses it when
\* it has been dropped, so that each running request may add one.
RateRespected ==
    alg = "token" => \A k \in Keys : credit[k] >= - Cardinality(Requests)

\* sliding_window.go:179-215, "limit: 窗口内最大请求数": in precise mode no span of
\* Window ticks ever has more than Limit admitted requests.
WindowRespected ==
    alg = "precise" =>
        \A k \in Keys : Cardinality({i \in DOMAIN admitted[k] : admitted[k][i] < Window}) <= Limit

\* No key is shut out: one that has had no request admitted for more than Window
\* ticks is admitted, in every mode and whatever was refused meanwhile.
NotShutOut ==
    \A k \in Keys :
        admitted[k] = <<>> =>
            CASE alg = "token"   -> map[k] # None => Refilled(map[k]) >= 1
              [] alg = "precise" -> Precise(k).ok
              [] OTHER           -> Approximate(k).ok

\* ratelimit.go:629-674.  The counters are the requests that hold a place, and
\* those that are about to give one back; no more than MaxConns are inside.
ConnsExact ==
    /\ LimitTypeOK
    /\ \A k \in Keys \cup {None} :
          LET Mine == {r \in Requests : perKey = (k # None) /\ (perKey => key[r] = k)}
              In(labels) == Cardinality({r \in Mine : pc[r] \in labels})
          IN conns[k] = In({"in", "over"}) /\ In({"in"}) <= MaxConns

\* All limiters keep to what they are configured with, neither admitting more nor
\* shutting a key out, whichever requests, resets and clean-ups meet.
LimitsRespected == RateRespected /\ WindowRespected /\ NotShutOut /\ ConnsExact
=============================================================================
