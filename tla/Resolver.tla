------------------------------ MODULE Resolver ------------------------------
(***************************************************************************)
(* The caching DNS resolver (internal/resolver): lookups by any number of  *)
(* goroutines, the LRU cache they share, its deletion, and the refresh     *)
(* loop that Start and Stop control.                                       *)
(*                                                                         *)
(* An answer is "ok" or "error"; which addresses it holds does not matter  *)
(* here.  Start and Stop are called by one goroutine.                      *)
(***************************************************************************)
EXTENDS Integers, FiniteSets, SequencesExt

CONSTANTS
    Hosts,
    Callers,      \* goroutines that look hosts up
    CacheSize,    \* 0 for no limit
    DnsStarts,    \* bound: the calls of Start
    DnsNone

\* The refresh loop of each call of Start.
Loops == 1..DnsStarts

ASSUME ResolverAssumption ==
    /\ IsFiniteSet(Hosts) /\ DnsNone \notin Hosts
    /\ CacheSize \in Nat /\ DnsStarts \in Nat
    /\ Callers \cap Loops = {}

Lookers == Callers \cup Loops

VARIABLES
    cache,            \* per host: "none", "ok" or "error"
    fresh,            \* the hosts whose entry has not expired
    lru,              \* lruList, most recent first; lruIndex is its range
    refreshHosts,
    dnsPc, host,      \* per looker: the call of lookup it is in
    started, dnsGen,  \* Start has been called; how often
    closed,           \* the loops whose stopCh has been closed
    loop, todo        \* per loop: where it is; the hosts left to refresh

kvars == <<cache, fresh, lru, refreshHosts>>
dnsLvars == <<dnsPc, host>>
rvars == <<started, dnsGen, closed, loop, todo>>
dnsVars == <<kvars, dnsLvars, rvars>>

DnsInit ==
    /\ cache = [h \in Hosts |-> "none"] /\ fresh = {}
    /\ lru = <<>> /\ refreshHosts = {}
    /\ dnsPc = [l \in Lookers |-> "idle"]
    /\ host = [l \in Lookers |-> DnsNone]
    /\ started = FALSE /\ dnsGen = 0 /\ closed = {}
    /\ loop = [g \in Loops |-> "off"] /\ todo = [g \in Loops |-> {}]

\* MoveToFront, or PushFront for a host that has no element
ToFront(s, h) == <<h>> \o RemoveFirst(s, h)
Cached == {h \in Hosts : cache[h] # "none"}

-----------------------------------------------------------------------------
(* lookup *)

Begin(l, h, useCache) ==
    /\ dnsPc[l] = "idle"
    /\ dnsPc' = [dnsPc EXCEPT ![l] = IF useCache THEN "check" ELSE "query"]
    /\ host' = [host EXCEPT ![l] = h]

\* lookup returns; what it held is gone.
Leave(l) ==
    /\ dnsPc' = [dnsPc EXCEPT ![l] = "idle"]
    /\ host' = [host EXCEPT ![l] = DnsNone]

\* LookupHostWithCache and LookupHost
Call(c) ==
    /\ \E h \in Hosts, useCache \in BOOLEAN : Begin(c, h, useCache)
    /\ UNCHANGED <<kvars, rvars>>

\* An entry that has not expired answers, be it an error.
CheckHit(l) ==
    /\ dnsPc[l] = "check" /\ host[l] \in Cached /\ host[l] \in fresh
    /\ Leave(l)
    /\ UNCHANGED <<kvars, rvars>>

CheckMiss(l) ==
    /\ dnsPc[l] = "check" /\ ~(host[l] \in Cached /\ host[l] \in fresh)
    /\ dnsPc' = [dnsPc EXCEPT ![l] = "query"]
    /\ UNCHANGED <<kvars, host, rvars>>

\* evictLRULocked makes room for h at the back of the list, if there is a back.
Evicts(h) ==
    /\ CacheSize > 0 /\ Cardinality(Cached) >= CacheSize
    /\ h \notin Range(lru) /\ lru # <<>>

Evicted(h) == IF Evicts(h) THEN {Last(lru)} ELSE {}

\* What queryDNS, outside the lock and bounded by its timeout, comes back with.
Answers == {"ok", "error"}

\* storeCache, which replaces whatever is there, a good answer by an error too.
Store(l) ==
    LET h == host[l] out == Evicted(host[l]) IN
    /\ dnsPc[l] = "query"
    /\ \E answer \in Answers :
          cache' = [k \in Hosts |-> IF k = h THEN answer
                                    ELSE IF k \in out THEN "none" ELSE cache[k]]
    /\ fresh' = (fresh \ out) \cup {h}
    /\ lru' = ToFront(IF Evicts(h) THEN Front(lru) ELSE lru, h)
    /\ dnsPc' = [dnsPc EXCEPT ![l] = "add"]
    /\ UNCHANGED <<refreshHosts, host, rvars>>

\* the second critical section of lookup
AddRefresh(l) ==
    /\ dnsPc[l] = "add"
    /\ refreshHosts' = refreshHosts \cup {host[l]}
    /\ Leave(l)
    /\ UNCHANGED <<cache, fresh, lru, rvars>>

Lookup(l) == CheckHit(l) \/ CheckMiss(l) \/ Store(l) \/ AddRefresh(l)

-----------------------------------------------------------------------------
(* Expiry and deletion *)

Expire(h) ==
    /\ h \in fresh
    /\ fresh' = fresh \ {h}
    /\ UNCHANGED <<cache, lru, refreshHosts, dnsLvars, rvars>>

\* Mutant of DeleteCacheEntry: the list element stays behind.
DeleteCacheEntryKeepsElement(h) ==
    /\ h \in Cached \cup refreshHosts
    /\ cache' = [cache EXCEPT ![h] = "none"] /\ fresh' = fresh \ {h}
    /\ refreshHosts' = refreshHosts \ {h}
    /\ UNCHANGED <<lru, dnsLvars, rvars>>

DeleteCacheEntry(h) ==
    /\ h \in Cached \cup refreshHosts
    /\ cache' = [cache EXCEPT ![h] = "none"] /\ fresh' = fresh \ {h}
    /\ lru' = RemoveFirst(lru, h)
    /\ refreshHosts' = refreshHosts \ {h}
    /\ UNCHANGED <<dnsLvars, rvars>>

ClearCache ==
    /\ Cached \cup refreshHosts # {}
    /\ cache' = [h \in Hosts |-> "none"] /\ fresh' = {}
    /\ lru' = <<>> /\ refreshHosts' = {}
    /\ UNCHANGED <<dnsLvars, rvars>>

-----------------------------------------------------------------------------
(* The refresh loop *)

\* Mutant of DnsStart: the flag is not tested.
StartAgain ==
    /\ dnsGen < DnsStarts
    /\ started' = TRUE /\ dnsGen' = dnsGen + 1
    /\ loop' = [loop EXCEPT ![dnsGen + 1] = "wait"]
    /\ UNCHANGED <<kvars, dnsLvars, closed, todo>>

\* A new stopCh and a loop that waits for it.
DnsStart ==
    /\ ~started /\ dnsGen < DnsStarts
    /\ started' = TRUE /\ dnsGen' = dnsGen + 1
    /\ loop' = [loop EXCEPT ![dnsGen + 1] = "wait"]
    /\ UNCHANGED <<kvars, dnsLvars, closed, todo>>

\* Stop closes the channel of the last Start and does not wait for the loop.
DnsStop ==
    /\ started
    /\ started' = FALSE /\ closed' = closed \cup {dnsGen}
    /\ UNCHANGED <<kvars, dnsLvars, dnsGen, loop, todo>>

\* doRefresh takes the hosts under the lock and looks them up one by one.
Tick(g) ==
    /\ loop[g] = "wait"
    /\ loop' = [loop EXCEPT ![g] = "refresh"]
    /\ todo' = [todo EXCEPT ![g] = refreshHosts]
    /\ UNCHANGED <<kvars, dnsLvars, started, dnsGen, closed>>

RefreshNext(g) ==
    /\ loop[g] = "refresh" /\ dnsPc[g] = "idle"
    /\ \E h \in todo[g] :
          /\ todo' = [todo EXCEPT ![g] = @ \ {h}]
          /\ Begin(g, h, FALSE)
    /\ UNCHANGED <<kvars, started, dnsGen, closed, loop>>

RefreshDone(g) ==
    /\ loop[g] = "refresh" /\ dnsPc[g] = "idle" /\ todo[g] = {}
    /\ loop' = [loop EXCEPT ![g] = "wait"]
    /\ UNCHANGED <<kvars, dnsLvars, started, dnsGen, closed, todo>>

LoopEnds(g) ==
    /\ loop[g] = "wait" /\ g \in closed
    /\ loop' = [loop EXCEPT ![g] = "off"]
    /\ UNCHANGED <<kvars, dnsLvars, started, dnsGen, closed, todo>>

RefreshLoop(g) == Tick(g) \/ RefreshNext(g) \/ RefreshDone(g)

DnsNext ==
    \/ \E c \in Callers : Call(c)
    \/ \E l \in Lookers : Lookup(l)
    \/ \E h \in Hosts : Expire(h) \/ DeleteCacheEntry(h)
    \/ ClearCache \/ DnsStart \/ DnsStop
    \/ \E g \in Loops : RefreshLoop(g) \/ LoopEnds(g)

DnsSpec == DnsInit /\ [][DnsNext]_dnsVars

\* Queries end by their timeout.  When a tick and a closed stopCh are both
\* ready, select chooses at random: the loop cannot miss the channel for ever.
DnsFairness ==
    /\ \A l \in Lookers : WF_dnsVars(Lookup(l))
    /\ \A g \in Loops : WF_dnsVars(RefreshLoop(g))
    /\ SF_dnsVars(\E g \in Loops : LoopEnds(g))

DnsFairSpec == DnsSpec /\ DnsFairness

-----------------------------------------------------------------------------
(* Properties *)

DnsTypeOK ==
    /\ cache \in [Hosts -> {"none", "ok", "error"}] /\ fresh \subseteq Hosts
    /\ lru \in Seq(Hosts) /\ Len(lru) <= Cardinality(Hosts)
    /\ refreshHosts \subseteq Hosts
    /\ dnsPc \in [Lookers -> {"idle", "check", "query", "add"}]
    /\ host \in [Lookers -> Hosts \cup {DnsNone}]
    /\ started \in BOOLEAN /\ dnsGen \in 0..DnsStarts /\ closed \subseteq Loops
    /\ loop \in [Loops -> {"off", "wait", "refresh"}]
    /\ todo \in [Loops -> SUBSET Hosts]

\* cache, lruList and lruIndex hold the same hosts, each once: an element of
\* the list for a host that is not cached would be evicted in its stead and
\* the cache would outgrow cache_size.  cache_size is respected, whichever
\* lookups and refreshes store at once (resolver.go:61-90, cache.go:61-80).
CacheExact ==
    /\ Range(lru) = Cached
    /\ \A i, j \in DOMAIN lru : i # j => lru[i] # lru[j]
    /\ CacheSize > 0 => Cardinality(Cached) <= CacheSize

\* Every cached host will be refreshed: it is in refreshHosts or the lookup
\* that stored it is about to add it, although the two are separate critical
\* sections with deletions between them (resolver.go:228-233).
CachedIsRefreshed ==
    \A h \in Cached :
        h \in refreshHosts \/ \E l \in Lookers : dnsPc[l] = "add" /\ host[l] = h

\* The cache keeps its accounts and its size, and what it holds stays fresh.
CacheKept == DnsTypeOK /\ CacheExact /\ CachedIsRefreshed

\* The loop of every Start but the current one ends, whatever it was doing when
\* Stop closed its channel and however soon Start was called again
\* (resolver.go:359-363,407-414).
OldLoopsEnd ==
    []<>(\A g \in Loops : loop[g] # "off" => g = dnsGen /\ started)
=============================================================================
