---------------------------- MODULE StaticFiles ----------------------------
(***************************************************************************)
(* The static file handler (internal/handler/static.go) with its cache of  *)
(* file information (fileinfo_cache.go) and the file cache it shares with  *)
(* the other handlers (internal/cache/file_cache.go), under requests that  *)
(* run concurrently while the files change.                                *)
(*                                                                         *)
(* A file is its version: a new modification time, size and content; 0 is  *)
(* no file.  A version stands for its ETag and its Last-Modified too.      *)
(* Time is the age of what is stored, counted in ticks; a request lasts at *)
(* most MaxSpan ticks.  Both caches have the same TTL (SetCacheTTL).  An   *)
(* entry of the file cache is an object: Get returns a pointer that is     *)
(* read after the lock is released, and removeEntry gives the object to a  *)
(* pool from which Set takes it.                                           *)
(***************************************************************************)
EXTENDS Integers, Sequences, FiniteSets, Functions

CONSTANTS
    StaticRequests,     \* the clients; each has one request at a time
    StaticPaths,        \* file paths below root or alias
    Objs,         \* the memory of the entries of the file cache
    StaticNone,         \* no object, no file
    First,        \* what $uri is in the try_files request
    Fallback,     \* the last element of try_files, and the second index file
    MaxChanges,   \* bound: modifications and removals of files
    MaxSpan,      \* bound: ticks a request lasts
    TTL,          \* cacheTTL and the TTL of the file information
    Size,         \* size of each version of each file
    MaxEntries, MaxSize,  \* limits of the file cache
    LargeFrom,    \* size from which a file is not kept in the cache
    Validators    \* the sets of headers with which clients ask for what they have

ASSUME StaticAssumption ==
    /\ {First, Fallback} \subseteq StaticPaths
    /\ {MaxChanges, MaxSpan, TTL, MaxEntries, MaxSize, LargeFrom} \subseteq Nat
    /\ Size \in [StaticPaths -> [0..(MaxChanges + 1) -> Nat]]
    /\ StaticNone \notin Objs \cup StaticPaths
    /\ Validators \subseteq SUBSET {"If-None-Match", "If-Modified-Since"}

Versions == 0..(MaxChanges + 1)

\* A body is at most this old: the information that confirmed it was at most
\* TTL old and the entry was served for less than TTL after that.  The request
\* that read the information, the one that used it and the one that was served
\* may each have been slow.
Served == IF TTL = 0 THEN 0 ELSE 2 * TTL - 1
Bound == Served + 3 * MaxSpan

VARIABLES
    fs,     \* version of each file
    changes,    \* changes so far, the newest version is one more
    gone,   \* history: ticks since the file was in this version
    info,   \* FileInfoCache: ver, age; None without entry
    obj,    \* FileEntry objects: path, data, ver (ModTime, ETag, Size), age
    lru,    \* entries of the cache, the most recently used first
    size,   \* currentSize
    staticReq,    \* the requests
    copy    \* the copy each client has of First: body, etag and Last-Modified

cvars == <<obj, lru, size>>
staticVars == <<fs, changes, gone, info, cvars, staticReq, copy>>

Zeroed == [path |-> StaticNone, data |-> 0, ver |-> 0, age |-> 0]
NoCopy == [body |-> 0, etag |-> 0, since |-> 0]
Idle == [pc |-> "idle", mode |-> "std", cond |-> {}, todo |-> <<>>, at |-> 1, ver |-> 0,
         held |-> StaticNone, torn |-> FALSE, data |-> 0, etag |-> 0, ticks |-> 0]

StaticInit ==
    /\ fs \in [StaticPaths -> {0, 1}] /\ changes = 0
    /\ gone = [f \in StaticPaths |->
                 [v \in Versions |-> IF v = fs[f] THEN 0 ELSE Bound + 1]]
    /\ info = [f \in StaticPaths |-> StaticNone]
    /\ obj = [o \in Objs |-> Zeroed] /\ lru = <<>> /\ size = 0
    /\ staticReq = [r \in StaticRequests |-> Idle]
    /\ copy = [r \in StaticRequests |-> NoCopy]

-----------------------------------------------------------------------------
(* The file cache: every operation holds the lock *)

Entries == Range(lru)
Entry(f) == {o \in Objs : obj[o].path = f}

SizeOf(e) == IF e.path = StaticNone THEN 0 ELSE Size[e.path][e.ver]

Total(objs, S) == FoldFunctionOnSet(+, 0, [o \in Objs |-> SizeOf(objs[o])], S)

\* The list without the objects S, the others in their order.
Unlisted(list, S) ==
    LET kept == {i \in 1..Len(list) : list[i] \notin S}
    IN [k \in 1..Cardinality(kept) |->
          list[CHOOSE i \in kept : Cardinality({j \in kept : j <= i}) = k]]

\* removeEntry of the objects S: they are reset and go to the pool.
Removed(c, S) ==
    [obj |-> [o \in Objs |-> IF o \in S THEN Zeroed ELSE c.obj[o]],
     lru |-> Unlisted(c.lru, S), size |-> c.size - Total(c.obj, S)]

Cache == [obj |-> obj, lru |-> lru, size |-> size]

\* Mutant of Evicted: only the number of entries is limited.
EvictedEntries(c) ==
    Removed(c, Range(SubSeq(c.lru, MaxEntries + 1, Len(c.lru))))

\* evictIfNeeded: the last entries of the list go until both limits hold.
Evicted(c) ==
    LET Kept == {n \in 0..Len(c.lru) :
                   /\ MaxEntries > 0 => n <= MaxEntries
                   /\ MaxSize > 0 =>
                        Removed(c, Range(SubSeq(c.lru, n + 1, Len(c.lru)))).size
                            <= MaxSize}
        n == CHOOSE n \in Kept : \A m \in Kept : m <= n
    IN Removed(c, Range(SubSeq(c.lru, n + 1, Len(c.lru))))

MovedToFront(c, o) == [c EXCEPT !.lru = <<o>> \o Unlisted(@, {o})]

\* The same file, content and information, whenever it was stored.
Same(d, e) == d.path = e.path /\ d.data = e.data /\ d.ver = e.ver

\* A reader that holds an object that changes: what it reads next is torn.
Torn(m, objs) ==
    [m EXCEPT !.torn = @ \/ (m.held # StaticNone /\ ~Same(obj[m.held], objs[m.held]))]

Becomes(c, reqs) ==
    /\ obj' = c.obj /\ lru' = c.lru /\ size' = c.size
    /\ staticReq' = [r \in StaticRequests |-> Torn(reqs[r], c.obj)]

\* Set: an entry is updated in place, a new one takes any free object.
Stored(f, data, ver, o) ==
    LET e == [path |-> f, data |-> data, ver |-> ver, age |-> 0]
        c == [Cache EXCEPT !.obj[o] = e, !.size = @ - SizeOf(obj[o]) + SizeOf(e)]
    IN Evicted(MovedToFront(c, o))

Target(f) == IF Entry(f) # {} THEN Entry(f) ELSE Objs \ Entries

\* RefreshCachedAt
Refreshed(f) ==
    IF Entry(f) = {} THEN Cache
    ELSE LET o == CHOOSE o \in Entry(f) : TRUE
         IN MovedToFront([Cache EXCEPT !.obj[o].age = 0], o)

-----------------------------------------------------------------------------
(* Requests *)

Me(r, pc) == [staticReq EXCEPT ![r].pc = pc]
File(r) == staticReq[r].todo[staticReq[r].at]
Client(r) == IF File(r) = First THEN copy[r] ELSE NoCopy

\* isNotModified: the ETag is compared first, and the date even if the ETag
\* differs.  Modification times are whole seconds.
SameTag(r, etag) ==
    "If-None-Match" \in staticReq[r].cond /\ Client(r).etag # 0 /\ Client(r).etag = etag
NotSince(r) ==
    /\ "If-Modified-Since" \in staticReq[r].cond
    /\ Client(r).since # 0 /\ staticReq[r].ver <= Client(r).since
NotModified(r, etag) == SameTag(r, etag) \/ NotSince(r)

\* The answer, with the version whose content the client then has.
StaticAnswer(reqs, r, out, data, etag) ==
    [reqs EXCEPT ![r].pc = out, ![r].data = data, ![r].etag = etag,
                 ![r].held = StaticNone]

\* A 304 says that the client's copy is what the file has under its ETag or, if
\* it is for the date alone, that the file has its present modification time.
Status304(reqs, r, etag) ==
    IF SameTag(r, etag) THEN StaticAnswer(reqs, r, "304", Client(r).body, Client(r).etag)
    ELSE StaticAnswer(reqs, r, "304", staticReq[r].ver, 0)

\* Handle: a file, a directory with two index files, or try_files.
StaticHandle(r) ==
    /\ staticReq[r].pc = "idle"
    /\ \E todo \in {<<f>> : f \in StaticPaths} \cup {<<First, Fallback>>},
          mode \in {"std", "try"}, cond \in Validators \cup {{}} :
         /\ mode = "try" => Len(todo) = 2
         /\ IF copy[r] = NoCopy \/ First \notin Range(todo) THEN cond = {}
            ELSE cond \in Validators
         /\ staticReq' = [staticReq EXCEPT ![r].pc = "stat", ![r].mode = mode,
                                           ![r].cond = cond, ![r].todo = todo]
    /\ UNCHANGED <<fs, changes, gone, info, cvars, copy>>

\* What the caller of statWithCache does with the file's information.  The
\* fallback of try_files is an internal redirect: it is looked up once more and
\* served directly, or, with try_files_pass, as a request of its own.
Found(r, v) ==
    LET last == staticReq[r].at = Len(staticReq[r].todo)
        next == [Me(r, "stat") EXCEPT ![r].at = @ + 1]
    IN \/ v = 0 /\ ~last /\ staticReq' = next
       \/ v = 0 /\ last /\ staticReq' = StaticAnswer(staticReq, r, "404", 0, 0)
       \/ v # 0 /\ staticReq[r].mode = "try" /\ last
            /\ \E mode \in {"direct", "std"} :
                 staticReq' = [Me(r, "stat") EXCEPT ![r].mode = mode]
       \/ v # 0 /\ staticReq[r].mode = "std"
            /\ staticReq' = [Me(r, "get") EXCEPT ![r].ver = v]
       \/ v # 0 /\ (staticReq[r].mode = "direct" \/ (staticReq[r].mode = "try" /\ ~last))
            /\ staticReq' = [Me(r, "serve") EXCEPT ![r].ver = v]

\* GetWithNotFound has an entry that has not expired.
Known(f) == info[f] # StaticNone /\ info[f].age <= TTL

\* statWithCache: the cached information, absence included
StatHit(r) ==
    /\ staticReq[r].pc = "stat"
    /\ Known(File(r))
    /\ Found(r, info[File(r)].ver)
    /\ UNCHANGED <<fs, changes, gone, info, cvars, copy>>

\* os.Stat, outside every lock
StatMiss(r) ==
    /\ staticReq[r].pc = "stat"
    /\ ~Known(File(r))
    /\ staticReq' = [Me(r, "stored") EXCEPT ![r].ver = fs[File(r)]]
    /\ info' = [info EXCEPT ![File(r)] = StaticNone]
    /\ UNCHANGED <<fs, changes, gone, cvars, copy>>

\* SetWithNotFound
StatSet(r) ==
    /\ staticReq[r].pc = "stored"
    /\ info' = [info EXCEPT ![File(r)] = [ver |-> staticReq[r].ver, age |-> 0]]
    /\ Found(r, staticReq[r].ver)
    /\ UNCHANGED <<fs, changes, gone, cvars, copy>>

\* serveFile up to the lookup, which handleStandard has done already
StaticServe(r) ==
    /\ staticReq[r].pc = "serve"
    /\ staticReq' = IF NotModified(r, staticReq[r].ver) THEN Status304(staticReq, r, staticReq[r].ver)
              ELSE Me(r, IF staticReq[r].mode = "std" THEN "read" ELSE "get")
    /\ UNCHANGED <<fs, changes, gone, info, cvars, copy>>

Missed(r) == IF staticReq[r].mode = "std" THEN "serve" ELSE "read"

\* FileCache.Get: no entry, or one that nobody has asked for in a long time.
GetMiss(r) ==
    /\ staticReq[r].pc = "get"
    /\ \E S \in SUBSET Entry(File(r)) :
         /\ S = Entry(File(r)) /\ \A o \in S : obj[o].age > 0
         /\ Becomes(Removed(Cache, S), Me(r, Missed(r)))
    /\ UNCHANGED <<fs, changes, gone, info, copy>>

GetHit(r) ==
    /\ staticReq[r].pc = "get"
    /\ \E o \in Entry(File(r)) :
         staticReq' = [Me(r, "check") EXCEPT ![r].held = o, ![r].torn = FALSE]
    /\ UNCHANGED <<fs, changes, gone, info, cvars, copy>>

\* tryServeFromFileCache, or the lookup of serveFile: within the TTL an entry
\* is served as it is, otherwise if the file has its modification time.
StaticValidate(r) ==
    LET e == obj[staticReq[r].held]
        std == staticReq[r].mode = "std"
        fresh == std /\ e.age < TTL
        same == e.ver = staticReq[r].ver
    IN /\ staticReq[r].pc = "check"
       /\ \/ /\ fresh \/ same
             /\ std /\ NotModified(r, e.ver)
             /\ Becomes(Cache, Status304(staticReq, r, e.ver))
          \/ /\ fresh \/ same
             /\ std => ~NotModified(r, e.ver)
             /\ Becomes(IF std /\ ~fresh THEN Refreshed(File(r)) ELSE Cache, Me(r, "send"))
          \/ /\ ~fresh /\ ~same
             /\ Becomes(Removed(Cache, Entry(File(r))),
                        [Me(r, Missed(r)) EXCEPT ![r].held = StaticNone, ![r].torn = FALSE])
       /\ UNCHANGED <<fs, changes, gone, info, copy>>

\* The body and the headers are read from the object that was returned.
StaticSend(r) ==
    /\ staticReq[r].pc = "send"
    /\ LET e == obj[staticReq[r].held] IN
         staticReq' = [StaticAnswer(staticReq, r, "200", e.data, e.ver) EXCEPT
                   ![r].torn = @ \/ e.path # File(r)]
    /\ UNCHANGED <<fs, changes, gone, info, cvars, copy>>

\* os.ReadFile, or os.Open for sendfile: the file as it is now
Read(r) ==
    /\ staticReq[r].pc = "read"
    /\ staticReq' = IF fs[File(r)] = 0 THEN StaticAnswer(staticReq, r, "500", 0, 0)
              ELSE [Me(r, "set") EXCEPT ![r].data = fs[File(r)]]
    /\ UNCHANGED <<fs, changes, gone, info, cvars, copy>>

\* Mutant of Store: the entry takes the modification time of now.
StoreNow(r) ==
    /\ staticReq[r].pc = "set" /\ Size[File(r)][staticReq[r].ver] < LargeFrom
    /\ \E o \in Target(File(r)) :
         Becomes(Stored(File(r), staticReq[r].data, fs[File(r)], o),
                 StaticAnswer(staticReq, r, "200", staticReq[r].data, staticReq[r].ver))
    /\ UNCHANGED <<fs, changes, gone, info, copy>>

\* The content that was read is kept under the information that was read before.
Store(r) ==
    /\ staticReq[r].pc = "set" /\ Size[File(r)][staticReq[r].ver] < LargeFrom
    /\ \E o \in Target(File(r)) :
         Becomes(Stored(File(r), staticReq[r].data, staticReq[r].ver, o),
                 StaticAnswer(staticReq, r, "200", staticReq[r].data, staticReq[r].ver))
    /\ UNCHANGED <<fs, changes, gone, info, copy>>

SendLarge(r) ==
    /\ staticReq[r].pc = "set" /\ Size[File(r)][staticReq[r].ver] >= LargeFrom
    /\ staticReq' = StaticAnswer(staticReq, r, "200", staticReq[r].data, staticReq[r].ver)
    /\ UNCHANGED <<fs, changes, gone, info, cvars, copy>>

\* The client keeps what it got, for its next request.  A 304 for its ETag also
\* gives it a new Last-Modified.
StaticLeave(r) ==
    LET m == staticReq[r]
        kept == File(r) = First /\ ~m.torn /\ m.pc \in {"200", "304"} /\ m.etag # 0
    IN /\ m.pc \in {"200", "304", "404", "500"}
       /\ staticReq' = [staticReq EXCEPT ![r] = Idle]
       /\ copy' = IF kept
                  THEN [copy EXCEPT ![r] = [body |-> m.data, etag |-> m.etag, since |-> m.ver]]
                  ELSE copy
       /\ UNCHANGED <<fs, changes, gone, info, cvars>>

Step(r) ==
    \/ StaticHandle(r) \/ StatHit(r) \/ StatMiss(r) \/ StatSet(r) \/ StaticServe(r)
    \/ GetMiss(r) \/ GetHit(r) \/ StaticValidate(r) \/ StaticSend(r) \/ Read(r)
    \/ Store(r) \/ SendLarge(r) \/ StaticLeave(r)

-----------------------------------------------------------------------------
(* The environment: files change and time passes *)

Write(f) ==
    /\ changes < MaxChanges /\ changes' = changes + 1
    /\ fs' = [fs EXCEPT ![f] = changes' + 1]
    /\ gone' = [gone EXCEPT ![f][changes' + 1] = 0]
    /\ UNCHANGED <<info, cvars, staticReq, copy>>

Delete(f) ==
    /\ fs[f] # 0 /\ changes < MaxChanges /\ changes' = changes + 1
    /\ fs' = [fs EXCEPT ![f] = 0]
    /\ gone' = [gone EXCEPT ![f][0] = 0]
    /\ UNCHANGED <<info, cvars, staticReq, copy>>

Older(n, cap) == IF n < cap THEN n + 1 ELSE cap

StaticTick ==
    /\ \A r \in StaticRequests :
         \/ staticReq[r].pc = "idle"
         \/ staticReq[r].ticks < MaxSpan /\ staticReq[r].pc \notin {"200", "304", "404", "500"}
    /\ gone' = [f \in StaticPaths |-> [v \in Versions |->
                  IF v = fs[f] THEN 0 ELSE Older(gone[f][v], Bound + 1)]]
    /\ info' = [f \in StaticPaths |-> IF info[f] = StaticNone THEN StaticNone
                  ELSE [info[f] EXCEPT !.age = Older(@, TTL + 1)]]
    /\ obj' = [o \in Objs |-> IF obj[o].path # StaticNone
                 THEN [obj[o] EXCEPT !.age = Older(@, TTL)] ELSE obj[o]]
    /\ staticReq' = [r \in StaticRequests |-> IF staticReq[r].pc = "idle" THEN staticReq[r]
                 ELSE [staticReq[r] EXCEPT !.ticks = @ + 1]]
    /\ UNCHANGED <<fs, changes, lru, size, copy>>

StaticNext ==
    \/ \E r \in StaticRequests : Step(r)
    \/ \E f \in StaticPaths : Write(f) \/ Delete(f)
    \/ StaticTick

StaticSpec == StaticInit /\ [][StaticNext]_staticVars

-----------------------------------------------------------------------------
(* Properties *)

StaticTypeOK ==
    /\ fs \in [StaticPaths -> Versions] /\ changes \in 0..MaxChanges
    /\ gone \in [StaticPaths -> [Versions -> 0..(Bound + 1)]]
    /\ info \in [StaticPaths -> [ver : Versions, age : 0..(TTL + 1)] \cup {StaticNone}]
    /\ obj \in [Objs -> [path : StaticPaths \cup {StaticNone}, data : Versions, ver : Versions,
                         age : 0..TTL]]
    /\ lru \in Seq(Objs) /\ size \in Nat
    /\ \A r \in StaticRequests : staticReq[r].held \in Objs \cup {StaticNone}

\* file_cache.go:261-292.  The list, the map and the pool agree and currentSize
\* is the sum of the sizes, in every order of updates, evictions and removals;
\* the limits hold whenever the lock is free.
CacheExact ==
    /\ StaticTypeOK
    /\ IsInjective(lru)
    /\ \A o \in Objs : (obj[o].path # StaticNone) = (o \in Entries)
    /\ \A f \in StaticPaths : Cardinality(Entry(f)) <= 1
    /\ size = Total(obj, Entries)
    /\ MaxEntries > 0 => Len(lru) <= MaxEntries
    /\ MaxSize > 0 => size <= MaxSize

\* An entry and an answer never carry an older content than the modification
\* time and the ETag they announce, although they are read at different times
\* (static.go:701-783): otherwise the old content would be confirmed for ever.
ContentNotOlder ==
    /\ \A o \in Objs : obj[o].data >= obj[o].ver
    /\ \A r \in StaticRequests : staticReq[r].pc = "200" /\ ~staticReq[r].torn
                              => staticReq[r].data >= staticReq[r].etag

Recent(f, v) == gone[f][v] <= Bound

\* static.go:320, "ttl > 0: TTL 内跳过 ModTime 验证，过期后验证": whatever the
\* two caches, the concurrent requests and the redirections do, an answer that
\* says a file has a content, is unchanged or is absent is one that was right
\* at most Bound ticks ago.  The exception is a client that sends a date whose
\* ETag does not match: isNotModified goes on to the date (static.go:917), and
\* the date such a client has may be that of a newer version than its copy,
\* because static.go:450 sends the date of the information with the content of
\* the entry.  The 304 it gets is right about the date of the file and says
\* nothing of its copy, which it keeps until the file changes again.
AnswersRecent ==
    \A r \in StaticRequests :
        LET m == staticReq[r] IN
        /\ m.pc \in {"200", "304"} /\ ~m.torn => Recent(File(r), m.data)
        /\ m.pc = "404" => Recent(File(r), 0)
        /\ m.pc # "idle" => \A i \in 1..(m.at - 1) : Recent(m.todo[i], 0)

\* No answer carries content older than it announces or than the caches allow.
AnswersSound == ContentNotOlder /\ AnswersRecent
=============================================================================
