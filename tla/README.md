# Verification of lolly

lolly is an HTTP server and reverse proxy in Go. This directory holds TLA+
modules of its parts, the TLC configurations that check them on small
instances, and TLAPS proofs of the invariants that matter most. Paths below are
relative to the repository; `pool.go:174` is a file and a line.

Every module is a translation of source code, one action per operation, handler
or atomic step. `PROJECT.json` maps each definition to the lines it stands for,
and lists the runs, the mutants that show each property can fail, the hazards
and the theorems.

## Inventory

A process (`internal/app`) reads a configuration, starts one HTTP server, or
several, and perhaps a stream server, and waits for signals. A request that a
server accepts goes through the goroutine pool, a chain of middlewares (access,
limits, authentication, rewriting, Lua) and ends in a handler: the proxy, the
static files, a Lua script. The parts share state only through memory: counters,
maps behind mutexes, channels.

| Part | State | Operations | Hard behaviour | What makes it correct |
|---|---|---|---|---|
| goroutine pool, `server/pool.go` | queue, two counters, `running`, context | Submit, worker loop, Start, Stop | counters tested and changed in separate steps; Submit against Stop | each task runs exactly once, counters exact, Stop drains |
| proxy, `proxy/proxy.go` | per target: connections, health, failures | ServeHTTP, failover, health marks | a dozen ways out of one function; retries | connection counts exact, every request answered |
| proxy cache, `cache/file_cache.go`, `proxy/cache_handler.go` | entries, pending requests | Get, Set, lock, release, refresh | lock owner fails, times out, answers under another key or leaves without releasing | a lock is with a request that will release it, or was left behind in a known way; every waiter can be woken |
| stream server, `stream/stream.go` | listeners, loops, connections, checker | Listen, Start, Stop, accept, copy | Stop waits for blocked loops; half-closed peers | Stop returns, counts exact, connections end |
| UDP proxy, `stream/stream.go` | sessions by client, reader per session | serve, read, cleanup, Stop | a session closed by one goroutine and replaced by another | map, readers, counts agree; an active session is kept |
| resolver, `resolver/` | cache, LRU list, refresh set, loop | lookup, store, delete, Start, Stop | entry and refresh set in two critical sections; restart | cache within its size, cached hosts are refreshed, loops end |
| app, `app/`, `server/lifecycle.go`, `server/upgrade.go` | process, servers, listeners | signals, reload, upgrade, stop | a start slower than its timeout; two processes with one socket | address always served, process ends when told |
| static files, `handler/static.go`, `fileinfo_cache.go`, `cache/file_cache.go` | file information, file cache | lookup, validate, read, store, evict | files change between stat, read and store | answers recent, contents match what they announce, cache within limits |
| limits, `middleware/security/ratelimit.go`, `sliding_window.go` | buckets, windows, counters | Allow, Acquire, Release, cleanup | a bucket dropped while in use; add before compare | the rate holds, nobody is shut out, places are given back |
| upstreams, `proxy/health.go`, `health_match.go`, `proxy_dns.go` | marks, addresses of clients | check, mark, look up, replace | checks and requests mark in another order than they looked; names move | marks and addresses follow the world |
| balancers, `loadbalance/`, `proxy/target_selector.go` | counters, circle, response times, cookies | select, select excluding | a second algorithm for retries; a circle built once | a retry goes elsewhere if there is anybody; shares are kept |
| locations and hosts, `matcher/`, `server/vhost.go`, `router.go` | radix trees, lists, maps | register, match | precedence, order of registration | the location and server that apply, by rank |
| middlewares, `server/middleware_builder.go`, `middleware/` | chain, sampling counter | one step in, one step out | order of guards, rewriting and filters | a handler sees only what passed every guard; answers leave whole |
| Lua engine, `lua/engine.go`, `pool.go`, `api_timer.go` | coroutine count, state pool, timers | run, yield, At, Cancel, Close | timers against Cancel and Close | nothing lent twice, no callback after cancel, all ends |
| Lua services, `lua/cache.go`, `shared_dict.go`, `socket_manager.go`, `api_socket_tcp.go` | compiled scripts, dictionaries, operations | compile, get/set/incr, connect/send/receive/close, clean-up | file changes between read and stat; eviction against expiry; late completions | accounts exact, scripts catch up, operations end |
| TLS, `ssl/` | ticket keys and their file, OCSP responses, client verification | rotate, save, refresh, handshake | rotation, reload and crash around one file; read and mark in two locks | tickets survive, marks are true, a verified client is one |
| configuration, `config/`, `server/server.go` | files, servers, listeners | include, merge, validate, start | cycles; two sets of checks; shared listeners | what is accepted starts, guards are at work, servers reachable |
| nginx converter, `converter/nginx/`, `app/import.go` | parser stack, result | parse, convert, validate | nested blocks and includes, directives without counterpart | nothing is dropped silently |
| HTTP/2, HTTP/3, `http2/`, `http3/` | connections, running | Serve, Stop | never started | |
| header and redirect rewriting, variables, Lua request API, logging, helpers | none shared | pure functions, output | | |

Everything in the table is a component in `PROJECT.json` with its status.

## Modules

| Module | Models | State ↔ code |
|---|---|---|
| `GoroutinePool` | `server/pool.go` | `queue` is taskQueue, `workers`, `idleWorkers`, `running` the atomics, `cancelled` the context; `spc`, `wpc` say at which atomic operation each Submit and each worker is |
| `Proxy` | `proxy/proxy.go`, `cache_handler.go`, `health.go`, `cache/file_cache.go` (ProxyCache), parts of `loadbalance/balancer.go` | `conns`, `healthy`, `fails`, `until` per target; `entry`, `pending`, `closed` the cache of one key and its lock; `pc`, `attempt`, `tried`, `target` per call of ServeHTTP; `bg`, `flight` the background refresh |
| `StreamUDP` | udpServer in `stream/stream.go` | `sessions` is the map, `open`, `reader` per session object, `serve` the loop |
| `StreamServer` | Server in `stream/stream.go` | `running`, `stopCh`, listeners, loops; `pc`, `copying` per TCP connection |
| `Resolver` | `resolver/` | `cache`, `lru`, `refreshHosts`; `pc` per lookup; `loop` per call of Start |
| `App` | `app/`, `server/server.go`, `lifecycle.go`, `upgrade.go` | `proc` per process, `phase` per server, `saved` its listeners, `cur` is `a.srv` |
| `StaticFiles` | `handler/static.go`, `fileinfo_cache.go`, `cache/file_cache.go` (FileCache) | `info`, `obj`, `lru`, `size` the caches; `fs` the disk; `req` per request |
| `Limits` | `middleware/security/ratelimit.go`, `sliding_window.go` | `map`, `bucket`, `stamps`, `conns`; `pc` per request |
| `Upstreams` | `proxy/health.go`, `health_match.go`, `proxy_dns.go` | `marked` is Healthy, `prober` the goroutine of run, `checks` and `passive` what has been found and not yet marked, `addr` HostClient.Addr |
| `Balancers` | `loadbalance/`, selection in `proxy/` | `turn` the counter, `circle` the targets the circle was built of, `lat` the response times, `cookie`, `at` per client |
| `Locations` | `matcher/`, `server/vhost.go`, `router.go` | `exact`, `tree`, `regexes`, `named`, `hosts`, `regexHosts` are the tables of the matcher and the host manager |
| `Pipeline` | `server/middleware_builder.go`, `middleware/*`, `lua/middleware.go`, error pages | `chain` the middlewares in their order, `pos` and `way` where the request is, `req`, `resp` what the steps look at |
| `ConfigLoad` | `config/config.go`, `validate.go`, `server/server.go` | `frames` the nested processIncludes, `servers` the merged configuration, `bound` the listener of each server |
| `ConfigRules` | `config/validate.go`, `defaults.go`, the constructors | `cfg` one value per setting the rules look at, `installed` what the start has put to work |
| `NginxImport` | `converter/nginx/`, `app/import.go` | `files` and the open blocks of the parser, `server` what the conversion has made so far |
| `SessionTickets` | `ssl/session_tickets.go` | `managers` with their keys and the keys TLS has, `keyFile`, one `ticket` |
| `TlsHandshakes` | `ssl/ocsp.go`, `client_verify.go`, `ssl.go` | `ocsp` the response and its status, `shake` per handshake, `staple` the shared certificate |
| `SharedDict` | `lua/shared_dict.go`, `api_shared_dict.go` | `data`, `lruList`; `replacing` the gap between the two halves of replace |
| `BoundedMap` | the promise of a shared dictionary | `map` what can be read, `taken` the places |
| `CodeCache` | `lua/cache.go` | `protos`, `order`, `accessed`; `disk` and `run` the files and the requests that compile them |
| `Cosockets` | `lua/socket_manager.go`, `api_socket_tcp.go` | `operations`, `activeOps`; `ops` per operation with its goroutine |
| `LuaEngine` | `lua/engine.go`, `pool.go`, `api_timer.go` | `activeCount`, `pool`, `current`; `pc`, `co` per request; `tm` per timer, `active`, `queue`, `sched` the scheduler loop, `stage` where Close is |

Theorems are in modules of their own, listed under Proofs:

| Module | Proves about |
|---|---|
| `ProxyProofs` | `Proxy` |
| `ServiceProofs` | `GoroutinePool`, `StreamUDP`, `StreamServer`, `Resolver`, `App` |
| `LuaProofs` | `LuaEngine`, `SharedDict` and `BoundedMap`, `CodeCache`, `Cosockets` |
| `RequestProofs` | `TlsHandshakes`, `SessionTickets`, `Pipeline`, `Balancers` |
| `ConfigProofs` | `ConfigLoad`, `ConfigRules`, the hosts of `Locations` |
| `FileProofs` | `StaticFiles` |
| `LimitProofs` | `Limits` |
| `CountingTheorems` | sets and their sizes, lists without repetition, sums, quotients and remainders, recursion on a rank |

`MCServices`, `MCLua`, `MCRequests` and `MCFiles` put modules that share no state
into one instance: the variable `part`, chosen from `Parts` at the start, says
which of them moves, and the others keep their initial state. A property of a
module is thus checked on exactly the behaviours of that module, while one run
answers the questions of several. `MCProxy` has the two instances of `Proxy`.

`SharedDict` is shown to implement `BoundedMap` by
`INSTANCE BoundedMap WITH taken <- Stored, map <- …`: an expired entry is outside
`map` and still takes a place. The promise is that a write never changes another
key, and costs other keys their places only when all are taken: expired ones, or
one that could be read.

Two conventions are common to all modules: a step is what happens between two
points where another goroutine can interfere (a lock is one step from Lock to
Unlock, an atomic operation one step), and a definition named as a mutant in its
comment is the wrong variant of the definition after it and is used by nothing
else.

Abstractions: a payload is not modelled; a cached content is the version it was
read from; time is an age that grows by ticks, or a flag that says a deadline
has passed; cache keys, client addresses and rate-limit keys are opaque. History
variables (`retired`, `early`, `gone`, `copy`, `credit`, `admitted`) record what
a property talks about and guard nothing.

## Runs

| Run | Question | Instance and why it is enough | States |
|---|---|---|---|
| `services` | pool: counters exact, excess over MaxWorkers bounded, each task once, Stop drains. UDP: map, sessions, readers, counts agree, Stop releases. Stream: counts exact, Stop returns, half-closed connections end. DNS: map and list agree, size kept, cached hosts refreshed, old loops end. App: a reload keeps serving, an upgrade keeps the socket, replaced servers and stopped processes end. Upstreams: marks and addresses follow, Stop returns | pool: two Submit calls, queue of one, limit of one worker, so that both pass the test, fill the queue, run inline and race with Stop. UDP: two clients, two reused sessions, two targets. Stream: two connections, two targets, two starts. DNS: two hosts for a cache of one, two loops. App: two processes, two reloads, both modes, starts that fail or outlast reload_timeout. Upstreams: one target, two addresses, three changes, with and without header match | 512 k |
| `proxy_lock` | Who holds an open cache lock, can every waiter be woken, and does every request and refresh end? | three requests of one key (owner, waiter, one that rejoins), waits that time out, answers with Vary and X-Accel-Redirect, which leave the lock behind, failures, a target and a backup without a client | 72 k |
| `proxy_failover` | Are connection counts exact on every path? | a WebSocket and two cacheable requests, every kind of answer, max_conns, max_fails, health checks | 960 k |
| `lua` | engine: states exclusive and counted, timers counted, cancelled ones silent, Close returns. Dictionary: implements the bounded map. Code cache: accounts exact, scripts catch up. Cosockets: operations counted, one transfer at a time, all end | three requests for two coroutines, a pool that keeps one state, two timers for a queue of one; three keys for two places; two requests, two scripts changed twice, a cache of one; three operations | 1.67 M |
| `requests` | balancers: a retry goes elsewhere, shares kept. Locations, hosts: the right one. Pipeline: guards passed, answers whole. Load: includes exact, servers reachable. Rules: what is accepted starts, guards at work. Import: parsed in order, nothing dropped. TLS: tickets survive, handshakes sound | nine algorithms, three targets of which one is a backup; three registrations in any order; every middleware and rule flag, two requests, announced and chunked bodies, Lua routes; two included files besides the main one, with nesting, cycles and repetition; pairs of deviations from a configuration that uses everything, as the only server, the first of several, and a later one or a virtual host; nine tokens in two files and three directives per server; four keys, three managers; two handshakes | 2.03 M |
| `files` | Limits: rate, window, places kept, nobody shut out. Static files: the cache keeps its accounts, answers are recent, contents no older than announced | two concurrent requests, two buckets, all three algorithms; two clients that send both validators as browsers do, two files, one change, three entry objects for a cache of two, a version too large for it | 2.15 M |
| `udp_aba` | Is the session of an active client kept? (violated) | one client, two sessions | |
| `lua_close` | Does a request in progress survive Close? (violated) | one request | |
| `longest_prefix` | Is the longest prefix found? (violated) | the locations of `requests` | |
| `lua_phases` | Do scripts run in the order of their phases? (violated) | the pipeline of `requests` | |
| `access_log` | Is the configured share of requests logged? (violated) | sample_rate 0.7, two requests | |
| `tickets` | Is a ticket accepted until retain_keys rotations after it? (violated) | retain_keys 2, four keys | |

`CHECK_DEADLOCK FALSE` is set where the program may really stop: a pool whose
requests are answered, a stream server with no start left, a process that has
exited or panicked, a configuration that is loaded. `files` is checked for
deadlock. Bounds such as `MaxReloads`, `MaxChanges`, `MaxEdits`, `MaxOps`,
`MaxKeys`, `MaxTokens`, `MaxFetched` and the number of starts limit how often
something outside happens; every one of them is at the smallest value at which the
races above occur. `files` uses symmetry over clients and entry objects and checks
no liveness.

Every module that keeps state over many steps has one type invariant, the first
conjunct of the invariant about its accounts (`SessionsExact`, `ConnsExact`,
`CacheKept`, `ServiceKept`, `StatesExact`, `LimitsRespected`, `CacheExact`); all of
these are proved.

### Fairness

Each module states its fairness (`PoolFairness`, `UdpFairness`, …). The composed
instances repeat it guarded by `part`, so that nothing is asked of a part that does
not run.

- Pool: handlers return and every goroutine runs (weak fairness). `select` chooses
  uniformly among ready cases, so a worker that finds the cancelled context ready
  again and again takes it in the end: strong fairness, of "some worker takes it",
  which is enough because there are finitely many. The same holds for the loops of
  the resolver and of the health checks (`StopSelected` in `MCServices`).
- Proxy: an upstream answers or its timeout expires, so a request keeps moving, and so
  does the lock timeout; health checks, purges and the passing of time are not assumed.
- Stream: closed listeners wake Accept and ReadFromUDP, dials time out, and a
  connection with one ended direction closes the other. That both ends of an
  open connection ever close is not assumed.
- UDP: reads have deadlines and closed sockets return errors; sessions without
  traffic become idle.
- Resolver: a lookup ends with an answer or an error.
- App: every wait is bounded by a timeout of the code (reload_timeout,
  shutdown_timeout), and the goroutines of servers and handlers run. Signals are
  not assumed to arrive.
- Upstreams: checks and lookups end (both have timeouts) and tickers tick. That
  backends or names settle is not fairness but the bound on changes.
- Lua engine: a timer fires when its time has come and Close, whose only wait has
  a timeout, keeps running. That callbacks return is not assumed: the scheduler's
  state has no context, so nothing limits them.
- Code cache: time passes and requests that compile go on. Cosockets: the clean-up
  ticker ticks and deadlines pass; that a peer answers is not assumed.
- `files` and `requests` check safety only and assume nothing.

### What the runs show

Six runs pass. Some of their properties are weaker than one might expect because the
stronger ones are false, and say so: the pool exceeds MaxWorkers by up to one per
concurrent submitter (`OvershootBounded`); a reload keeps the address served only while
new servers serve within reload_timeout (`early` in `ServiceKept` records the others); a
server that is still starting when it is told to stop is left behind (`OldOnesEnd`); an
open cache lock is with a request that releases it or was left behind by an answer with
Vary or X-Accel-Redirect (`LockOwned`), which every waiter outlives by its timeout or by
what other requests release (`WaitersReachable`, `RequestsComplete`); a chunked body
passes the body limit (`GuardsPassed`), and a Lua route is counted and logged twice
(`AnswersAccounted`); `AnswersRecent` says of a 304 that was given for the date alone
only that the file has that date; `LocationSound` promises the longest prefix only where
it was registered first; `ServersReachable` excepts a server for any address behind one
for a single address; `AcceptedStarts` and `GuardsAtWork` name the causes for which an
accepted configuration does not start or a guard is passed over, and `ImportAccounts`
those for which a converted one is refused; `TicketsSurvive` holds while the file is
intact, the newest manager alone writes it, and it has room for the rotations. Six runs
are violations of what the repository says.

## Differences between the text and the code

Checked by a violation run:

- `stream.go:899` removes by client address, so the late goroutine of a closed
  session closes the client's new, active one (`udp_aba`; `stream.go:725`
  promises removal after the idle timeout).
- `lua/engine.go:244`: Close, which a graceful stop calls before it waits for
  requests, sets the state pool to nil; a request in progress then panics in
  Get or Put and ends the process (`lua_close`; `lifecycle.go:190` says the stop
  waits for requests in progress).
- `matcher/radix.go:254` prefers the location registered first to a longer one
  (`longest_prefix`; `radix.go:221` promises the longest).
- `middleware_builder.go:223` ranges over a map, so the phases of Lua scripts run in
  an order that changes from start to start (`lua_phases`; `lua/middleware.go:9`
  gives the order).
- `accesslog.go:104`: a sample_rate between two thirds and one makes the interval 1,
  and a counter modulo 1 is never 1: no request below status 500 is logged
  (`access_log`; `monitoring_config.go:166` says it is the share that is logged; `:167`
  says that all but 2xx are always logged, the code has 5xx).
- `session_tickets.go:238`: the oldest key encrypts, so that a reload after one
  rotation can reject the tickets in use (`tickets`; `:184` says the new key
  encrypts).

Modelled or seen while reading, without a run of their own:

- Pool. Concurrent submitters exceed MaxWorkers (`pool.go:174`, "控制最大并发数").
  Workers that time out together fall below minWorkers and leave a queued task to
  the next Submit (`pool.go:228`, "保持最小数量"). A task can enter the queue after
  Stop (`pool.go:163`, "不再接受新任务"). A queued task uses the RequestCtx after
  Submit, and so the fasthttp handler, has returned it (`pool.go:171`).
- Cache lock. A key with an expired entry, or one stored since Get missed, gets
  no lock, and every caller goes upstream (`file_cache.go:535`; README.md:64 says
  cache_lock prevents that). A waiter woken by the stored entry goes upstream
  (`file_cache.go:549`). An X-Accel-Redirect answer, and an answer whose Vary
  changes the key, leave the lock behind (`proxy.go:922`, `:963`): the next Set or
  ReleaseLock of any request closes it, such as that of a waiter that has timed out. A
  cache_lock_timeout of 0 means 5 s (`proxy.go:816`), but a negative one, which
  validation lets through, means none, and then the waiters of a lock left behind wait
  until some other request releases it (`Stranded`).
- Health. A 502, 503 or 504 on the last attempt marks the target healthy
  (`proxy.go:949`). MarkHealthy sets Healthy although its comment says it does not
  (`health.go:282-285`). max_conns is tested in Select and counted later
  (`proxy.go:694`). Nothing reads the weight that slow start computes.
- Cache contents. RefreshTTL after a 304 changes nothing that is read
  (`file_cache.go:683`). backgroundRefresh stores answers with duration 0
  (`cache_handler.go:136`; `:181` says 0 is not cached). Entries share memory with
  a response that is reused (`proxy.go:989`). A response that no cache rule matches
  returns before its headers are rewritten (`proxy.go:961`). ProxyCache has no
  size limit.
- Stream. Stop waits neither for connections nor for UDP readers
  (`stream.go:529,555,589`). The second Stop after a restart closes a closed
  channel (`stream.go:550`). Stop before Start leaves the listeners open
  (`stream.go:531`).
- Resolver. Lookups do not move an entry in the list: eviction is by last store
  (`resolver.go:185`; `:80` says least recently used). A failed refresh replaces a
  good answer by the error. Two concurrent Starts would run two loops; every
  caller starts once.
- App. GracefulStop returns at once when there is no fasthttp server yet, or one without
  a listener (`lifecycle.go:202-229`): a new server that is slower than reload_timeout
  is taken for a good one, and if the next reload replaces it before it serves, its stop
  misses it and it then serves until the process ends (`StopMisses`). After an upgrade
  the parent waits for signals for ever (`app.go:162`; `upgrade.go:12` says it closes).
  HTTP/2 and HTTP/3 never start: Server.tlsManager is never assigned (`server.go:263`).
  A new server that fails after reload_timeout leaves no server. With several servers a
  reload always fails, because the addresses are bound again. A failed reload leaks the
  pool, Lua engine and health checkers of the new server. The error of the first server
  ends the process even when a reload has replaced it. cleanupResources runs before
  Shutdown closes the listener, so that requests are still accepted by a server without
  pool and Lua engine (`lifecycle.go:205`). The child of an upgrade is started without
  the arguments of the parent, and its stream listeners may fail while the parent holds
  the address.
- Static files. `If-Modified-Since` is consulted although `If-None-Match` did not match
  (`static.go:917`), and `static.go:450` pairs an old content with a newer
  Last-Modified: a client that sends both validators, as browsers do, and has the old
  content with the newer date is told 304 until the file changes again. `AnswersRecent`
  is about what such a 304 says, the date of the file, and not about the copy the client
  keeps. FileCache.Get returns an object that another request may recycle while it is
  read (`file_cache.go:164`; `:51` says all methods are safe); such answers are marked
  `torn` and excluded from the properties. An entry larger than maxSize empties the
  cache. SetTryFiles is called in router mode only (`router.go:264`). `static.go:109`
  gives a default TTL of 5 s; it is 0 and the router sets 2 s. Symbolic links are not
  checked in try_files.
- Limits. The approximate window admits more than its limit near the end of a
  window. Release computes the key again, so a handler that changes the header
  releases another key's place (`ratelimit.go:667`); the model assumes handlers do
  not. The map of connection counts never shrinks, and nobody calls the cleanup of
  the sliding window.
- Lua. A timer callback that raises an error ends the process, because the call
  is not protected (`api_timer.go:284`; the next line means to log it); the model
  has it as `CallbackFails`. Cancel returns true for a timer that has begun to fire
  and runs (`api_timer.go:302`, "true 表示成功取消"). When Close gives up after five
  seconds the loop meets a nil state and panics (`CallPanics`). Scripts run with
  the globals of their state, not with the `_ENV` that SetupSandbox makes
  (`coroutine.go:137,307`), so a state that is used again keeps what earlier
  requests stored. WaitAll and the scheduler of `engine.go` have no caller.
- Upstreams. Names of headers in a match rule are put in lower case and looked up
  in canonical case, so that a check with headers never succeeds
  (`health_match.go:148`). Without proxy_ssl the TLS name of a refreshed client
  becomes the address (`proxy_dns.go:173-203`). Proxy.stopCh is never closed: the
  refresh loops of replaced servers go on (`proxy_dns.go:14,75` say otherwise). The
  WebSocket bridge is unreachable: Hijack runs its callback after the handler has
  returned, and clientConn is still nil (`websocket.go:382-388`).
- Balancers. The first choice of least_conn looks at Healthy alone, that of
  consistent_hash at nothing; the circle is built once and Rebuild has no caller, so
  that one built while no target is healthy stays empty and no request ever finds a
  target (`NoTarget`). The table of sticky sessions is written and never read. A sticky
  balancer that falls back on "sticky" recurses without end (`proxy.go:338-345`), and
  validation lets it through.
- Locations. A name like "example.*" is compared with the first label only.
  MatchResult.Internal is read by nobody.
- Middlewares. What a guard refuses loses X-Request-ID and gets no error page, security
  headers or CORS headers. The body limit is that of the path before rewriting, and
  compares only a length the header announces: a chunked body passes
  (`bodylimit.go:153-156`; `:10` and `bodylimit_test.go:140` say that chunks do not get
  round the limit), as no server sets StreamRequestBody, without which there is no
  stream to limit, and only fasthttp's own limit for a body remains. A Lua route is
  inside the whole chain, though `router.go:346` and `:379` say it has access log and
  error pages only; it has these two once more (`router.go:387-402`), so that a request
  to it takes two places of the sampling counter and may be logged twice. An error page
  keeps the Content-Encoding of the body it replaces. All Lua phases, log too, run
  before the handler; of several scripts of one phase only the last runs; one that fails
  leaves status 500 and the chain goes on. limitedBodyReader is never reached;
  UpdateList, AddUser and UpdateConfig have no caller.
- Configuration. Passed over in silence: the default of an access list and GeoIP without
  lists, auth_request without a URI, error pages of a server other than the first and
  its Lua scripts if the first has no Lua, a script that has a timeout and does not say
  `enabled` (`middleware_builder.go:211-217`), Lua routes of virtual hosts, the
  certificate of every virtual host but the first (`server.go:694-701`), and proxies
  that cannot be built. The location types of static files are compiled by the single
  mode alone, where a bad expression ends the start (`router.go:73-99`). DefaultConfig
  is itself rejected by Validate: its server has HTTP/2 and no certificate, and a main
  file without a `servers` key keeps it, whatever the included files add
  (`config.go:143`). A server for any address behind one for a single address of the
  same port gets that one's listener (`server.go:370`; `:707` says each instance listens
  on its own address).
- Import. A location that returns 301 without a URL is lost without a word
  (`converter.go:884`). Refused, though nginx knows it: `try_files $uri $uri/index.html`
  (`validate.go:427`), "..", addresses of `listen` that are no TCP address such as
  `unix:`, two default addresses, a proxy_pass without a scheme and an expression of a
  proxied location that Go cannot compile. A stray "}" at the top ends the file without
  a word. The root of a server with an alias in a location, auth_basic and `error_log …
  crit` always make a configuration that validation refuses (`converter.go:313`,
  `validate.go:257`). A root behind an empty location loses the location; `return 404`
  in a location under a root becomes a static route. `server;` in an upstream panics
  (`converter.go:188`). Not in the model: a negative gzip_min_length, a location without
  a path, a file without a server block, and errors in several server blocks at once.
- Session tickets. Rotations never reach the TLS configuration. The file is emptied
  before it is written. The managers of single and vhost servers are never closed
  (`server.go:907-915`), so that after a reload two rotate one file; where Stop is called,
  it comes after the new manager has been made, and a timer that has passed the check of
  stopCh rotates once more (`session_tickets.go:254-260`).
- Handshakes. The staple is written into certificates all connections share, and
  stays when the response has failed since (`ocsp.go` promises nil then). A revocation
  list is not looked at unless verify_depth is set. An unreadable CA or list is only
  warned about, and nothing is verified.
- Shared dictionaries. CreateSharedDict has no caller. incr reports 0 as "not a
  number", cannot use a -1 it has stored, and goes on counting an expired entry; replace
  is not atomic; get_keys returns nothing; expired entries need not be at the back of
  the list (`shared_dict.go:360`).
- Cosockets. Addresses drop host names. Close during a dial leaves the socket
  connected (`socket_manager.go:32` has no such transition), as every goroutine ends
  by setting that state. Manager.Close, Touch and HandleCosocketYield have no caller.

## Proofs

A theorem holds for every value of the constants that the named assumption of
its module allows; the assumptions say what the constructors of the code enforce,
that identities differ from the value for "none", and that the sets that are
counted are finite. All invariants below are inductive: proved of the initial
states and kept by every action. Each was checked by TLC before it was proved.
`CountingTheorems` has the lemmas that the modules share: what adding, removing
or moving one element does to a cardinality; lists without repetition (removing,
moving to the front, dropping the last); sums over a set, which one element more
adds to; and quotients and remainders, of which as many numbers in a row as the divisor hit each
one once. The provers cannot be given an induction rule, so where these facts need an
induction it is a search for the least counterexample among the numbers
(`LeastNumber`), and a sum of natural numbers is the number of its units
(`SumIsCount`). A recursion is given as a function of what it is asked for and of the
answers it uses; if these are of a lower rank (`Descends`), it has a solution
(`Recursion`), and what follows for an argument from all of a lower rank holds for all
(`RankInduction`).

| Theorem | Property | Inductive invariant, and what it adds to the property |
|---|---|---|
| `PoolTypeOK`, `PoolCountersExact`, `PoolOvershoot` | `TypeOK`, `CountersExact`, `OvershootBounded` | `PoolInv`, the three together: a counter stays natural because it counts goroutines, and the excess survives startWorker because the submitter that passed the test is itself counted in `Committed` |
| `PoolExactlyOnce` | `TaskConserved` | `TaskInv`: exactly the workers between receiving and running hold a task |
| `ProxyTypeOK`, `ProxyConnections` | `TypeOK`, `ConnectionsConserved` | `ProxyInv`: whoever is between counting and giving back has a target, so what is given back is what was taken |
| `ProxyLockOwned` | `LockOwned` | `LockInv`: a lock is asked for on the first attempt only, a closed channel is that of a request past asking, and no entry exists while a lock is held or left behind |
| `ProxyWaitersReachable` | `WaitersReachable` | itself: no step forgets a lock without closing its channel, and a closed channel stays closed (`LockNotLost`) |
| `UdpSessionsExact` | `SessionsExact` | `UdpInv`: every reader has a client, every open session a target; serve creates only for a client without a session |
| `StreamConnsExact` | `ConnsExact` | `StreamInv`: a connection has a target exactly while it dials or copies |
| `DnsCacheKept` | `CacheKept` | `DnsInv`: a lookup under way has a host |
| `AppServiceKept` | `ServiceKept` | `AppInv`: only servers before `a.srv` have been asked to stop, and a process that upgrades has a child. `UpgradeKeepsSocket` is not inductive; it follows, because the server of the child serves |
| `EngineStatesExact` | `StatesExact` | `StatesInv`: exactly running scripts have a state, lent and pooled states are disjoint, and the limit holds from NewCoroutine on |
| `EngineTimersExact` | `TimersExact` | `TimersInv`: what the queue holds is waiting in it, once; a loop that has ended met a closed, empty queue |
| `DictImplementsMap` | `ImplementsMap` | `DictInv`: map and list hold the same keys, each once, within max_items. Every step of the dictionary is then a step of `BoundedMap` or leaves it alone; the two critical sections of replace are two such steps |
| `ScriptBookkeeping` | `BookkeepingExact` | `DictInv`, `CodeInv` (both lists of the code cache hold its scripts, each once) and `SocketInv` (an operation is owned once; while a connect is under way there is nothing else, and transfers are alone), kept by the composed specification of the run |
| `TlsHandshakesSound` | `HandshakesSound` | `TlsInv`: what a handshake has read is a response there has been |
| `TicketKeysSurvive` | `TicketsSurvive` | `TicketsInv`: keys are made once and rise; while the file is clean, the newest manager is the only one that writes it, and what is in it is its keys |
| `PipelineGuardsPassed` | `GuardsPassed` | `PipeInv`: the chain has the shape the builder gives it, the request has met every guard before `pos`, and its path is the one asked for until rewrite has run |
| `PipelineAnswersAccounted` | `AnswersAccounted` | `AnswerInv` and `LogInv`, see below |
| `BalancersRetryElsewhere` | `RetryElsewhere` | `BalInv`: connections counted per target, and what every algorithm selects is among the candidates |
| `BalancersSharesKept` | `SharesKept` | `BalInv`. The turns of a target are an interval as long as its weight, the weights add up to the turns of a round, and a round that begins anywhere meets every turn once; on the circle, the node of a client that stays is still the first |
| `LoadServersReachable` | `ServersReachable` | `LoadInv`: a listener was made for a server that is behind no other and has the address it names |
| `LoadIncludesExact` | `IncludesExact` | `IncludesInv`: what the files on the stack have read and what each has still to read (`StackOK`) make the whole, the reasons for refusing included, see below |
| `RulesAcceptedStarts`, `RulesGuardsAtWork` | `AcceptedStarts`, `GuardsAtWork` | `RulesInv`: what the steps of the start have checked and installed. Proved for `AnyRulesSpec`, whose initial state is any configuration, where the run enumerates pairs of deviations |
| `HostsSound` | `HostSound` | `HostsInv`, types; the proof is about the search for the longest suffix and the first expression |
| `LocationsSound` | `LocationSound` | `LocationsInv`: every node of a tree hangs below the root or below one that was registered before it and begins it (`TreeOK`), see below |
| `StaticAnswersSound` | `AnswersSound` | `AnswersInv`, see below |
| `StaticCacheExact` | `CacheExact` | `CacheInv`: the entries in the list are those with a path, one per file, and the size is their sum, wherever a request stands that holds an object; eviction drops the end of the list, as little of it as makes room. |
| `LimitersRespected` | `LimitsRespected` | `LimitInv`, see below |

No theorem has a hypothesis beyond the assumptions on the constants.

`LimitInv` relates what the limiters keep to what they should have kept. Allow finds
a bucket under one lock and takes the token under another, so that a request may spend
its token in a bucket that a clean-up or a reset has dropped meanwhile. The credit of
a key, which such a token is taken from all the same, therefore falls behind the
bucket of the key, by at most one token for each of the requests there are
(`CreditKept`). That it is not one more at every clean-up is due to the age of the
buckets that are dropped: by the assumption a day is enough to make up for a burst and
for all requests under way. Requests that hold a dropped bucket meet no bucket that time
has filled, because `Tick` waits until they have taken their token. `EmptyDrawn` says
that a bucket is empty only right after it has let a request through, from which
follows that a quiet key is served. The stamps of a window are the ages of the
requests admitted, the oldest first, so that cutting the list where the window begins
loses none that counts (`WindowKept`). A connection counter is the number of
requests that have a place under its key (`ConnsCounted`).

`AnswerInv` rests on the order of the chain: guards first, then what rewrites and
compresses, the headers, and last what makes answers of its own (`Ranked`, from
`ChainOf`). On the way in (`WayIn`) nothing has touched the answer, and a path that has
passed rewrite is settled. On the way out (`WayOut`) an answer is touched only if the
request is past all guards, and one that was made behind the headers gets them before
it leaves. That rewrites end in a settled path is a fact about the walk through the
rules, a recursion over the rewrites that are left: it has a solution (`WalkExists`),
and there is no least number of rewrites with which it could end otherwise
(`WalkEnds`). `LogInv` is the arithmetic of counting every n-th (`EveryNth`).

`LocationsInv` makes the trees recursions can be reasoned about: children are
registered after their parent, so that both the descent of an insertion and the search
go from a place in the list to a later one (`Depth`, `DownExists`, `SearchExists`). What
the search returns begins the path and carries as much as any node below the root that
does (`FindsWell`, `LongestFound`). The first registered prefix of a path hangs below
the root (`FirstHangsBelowRoot`), as what it hung below would be one registered
earlier. So some prefix is found if there is one, and one that is both the longest and
the first is found, because another carries no more than its own, shorter, path.

`IncludesInv` compares two recursions: the load's, with its stack of files being read,
and `Reached`, over a list and the files above it. The second has a solution
(`Recursion`), because with every include there is one file fewer left that is not
above it, and with every item the list is shorter (`ReadsLess`). A step of the load
moves what is read from what a frame has still to read to what it has read
(`StackSkips`, `StackReads`), or from a finished frame to the one below it
(`StackMerges`), and leaves the whole as it is. The proof needs that there are finitely
many files.

`AnswersInv` follows a version of a file from the disk to the client. `Past` says
that the file may have had it, `Ordered` that no earlier version was there after
it, so that what bounds the age of an announced version bounds that of a newer
content. `InfoKept`, `EntryKept`, `ReaderKept` and `CopyKept` then bound how long
ago the version was current that the file information, the file cache, a request
at each of its steps and a client's copy have. The bound is one TTL for the
information that confirmed a content, another for the time the entry is served
without asking, and `MaxSpan`, the length of a request, for each of the three
requests that may have been slow in between. `Replaced` is about a request whose
object was recycled in its hands (`file_cache.go:164`): the entry that took its
place is no older than the request allows, so that what is done to it by mistake
does no harm. An action of the environment ages everything at once (`Later`), one of
the cache moves objects (`Moves`), and one of a request touches nothing that
another reads.

Only model-checked:

- Liveness, which is out of the prover's reach: `StopDrains`, `RequestsComplete`,
  `StopReleases`, `StreamEnds`, `OldLoopsEnd`, `OldOnesEnd`, `UpstreamsFollow`,
  `NothingLingers`, `ScriptsCatchUp`.
- `ParsedInOrder` and `ImportAccounts`, which rest on RECURSIVE operators that
  disable the SMT solver.

## Plan

Everything in the list of components that keeps state and can be reached is
modelled, and every invariant that the runs check is proved except those just
listed. `ParsedInOrder` and `ImportAccounts` could follow as `IncludesExact` did, with
their recursions written as functions, along the lines of `Recursion` in
`CountingTheorems`.

## Not modelled

The HTTP/2 and HTTP/3 servers and the WebSocket bridge are unreachable in this
commit, for the reasons given above. Header and redirect rewriting, the expansion
of variables, the Lua bindings of request data, directory listings, sendfile,
GenerateConfigYAML and logging are text and I/O without shared state, left to unit
tests. Slow start and the table of sticky sessions have no effect. Cryptography,
DNS, regular expressions, the kernel's sockets and fasthttp are external: the
models use what the code relies on. What a Lua script does is not part of this
code, and test tools are not part of the program.
