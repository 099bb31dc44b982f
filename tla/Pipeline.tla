------------------------------ MODULE Pipeline ------------------------------
(***************************************************************************)
(* What happens to a request between the connection and its handler: the   *)
(* chain of middlewares that buildMiddlewareChain puts together            *)
(* (server/middleware_builder.go, middleware/, lua/middleware.go).  Every  *)
(* middleware is entered on the way in, where it may answer at once, and   *)
(* some of them work on the answer on the way out.                         *)
(***************************************************************************)
EXTENDS Integers, FiniteSetsExt, SequencesExt

CONSTANTS
    Setups,                 \* sets of configured middlewares
    ScriptPhases,           \* the phases that have a script
    Addresses, TrustedProxies, DenyList, AllowList, DefaultAllow,
    Country,                \* address -> country, "private" or "unknown"
    DenyCountries, AllowCountries, PrivateIP,
    RequestPaths, Rules, MaxRewriteIterations,
    PathLimits, MaxBodySize,
    PageCodes, PageStatus,  \* statuses with an error page, the status it is sent with (0: kept)
    SampleRates,            \* of the access log, in percent
    MaxRequests             \* bound

VARIABLES
    chain,            \* the middlewares, the outermost first
    req, resp,
    pos, way,         \* where the request is: on its way "in" or "out", or "idle"
    served,
    rate, counted, logged  \* the sampling of the access log

pipeVars == <<chain, req, resp, pos, way, served, rate, counted, logged>>

\* A path is the sequence of the numbers of its segments.
ASSUME PipeAssumption ==
    /\ IsFiniteSet(ScriptPhases) /\ MaxBodySize \in Nat /\ "" \notin Addresses
    /\ Rules \in Seq([from : SUBSET Seq(Nat), to : Seq(Nat),
                      flag : {"last", "break", "redirect", "permanent"}])
    /\ MaxRewriteIterations \in Nat /\ PageStatus \in Nat /\ SampleRates \subseteq Nat
    /\ DOMAIN PathLimits \subseteq Seq(Nat) /\ \A p \in DOMAIN PathLimits : PathLimits[p] \in Nat

\* LuaMiddleware phases, in the order their documentation gives
PhaseOrder == <<"rewrite", "access", "content", "header_filter", "body_filter", "log">>
Scripts == {<<"script", p>> : p \in ScriptPhases}

Optional(m, on) == IF m \in on THEN <<<<m, "">>>> ELSE <<>>

Guards(on) ==
    <<<<"request_id", "">>, <<"access_log", "">>>>
    \o Optional("access", on) \o Optional("rate_limit", on) \o Optional("conn_limit", on)
    \o Optional("basic_auth", on) \o Optional("auth_request", on)

Filters(on) ==
    Optional("rewrite", on) \o Optional("compression", on) \o Optional("headers", on)
    \o Optional("cors", on) \o Optional("error_intercept", on)

\* buildMiddlewareChain; the phases of the scripts come out of a map, in any order.
ChainOf(on, luas) ==
    Guards(on) \o <<<<"body_limit", "">>>> \o (Filters(on) \o (IF "lua" \in on THEN luas ELSE <<>>))
Chains == {ChainOf(on, luas) : on \in Setups, luas \in SetToSeqs(Scripts)}

NoRequest == [path |-> <<>>, source |-> <<>>, client |-> "", tls |-> FALSE, user |-> "none",
              vouched |-> 0, length |-> 0, origin |-> "none", accepts |-> FALSE, ran |-> <<>>]
Blank == [status |-> 200, id |-> FALSE, body |-> "plain", encoded |-> FALSE, worth |-> FALSE,
          secure |-> FALSE, cors |-> FALSE, page |-> FALSE]

\* What ContentLength() gives for a body that comes in chunks.
Chunked == -1

\* ctx.Error of fasthttp drops everything that was set on the response before.
Error(status) == [Blank EXCEPT !.status = status]

Has(m) == \E i \in DOMAIN chain : chain[i][1] = m

PipeInit ==
    /\ chain \in Chains /\ req = NoRequest /\ resp = Blank
    /\ pos = 0 /\ way = "idle" /\ served = 0
    /\ rate \in SampleRates /\ counted = 0 /\ logged = 0

-----------------------------------------------------------------------------
(* What the middlewares compute *)

\* ExtractClientIPWithTrustedProxies; "junk" is what does not parse
ClientIP(remote, forwarded) ==
    LET outside == {i \in DOMAIN forwarded : forwarded[i] \notin TrustedProxies \cup {"junk"}}
    IN IF remote \notin TrustedProxies \/ outside = {} THEN remote ELSE forwarded[Max(outside)]

\* LookupCountry
Lookup(ip) ==
    IF Country[ip] = "private"
      THEN CASE PrivateIP = "allow" -> "private_allow"
             [] PrivateIP = "deny" -> "private_deny"
             [] OTHER -> "unknown"
    ELSE Country[ip]

\* Mutant of Check: the allow list is asked before the countries.
CheckAllowFirst(ip) ==
    /\ ip \notin DenyList
    /\ \/ ip \in AllowList
       \/ /\ Lookup(ip) \notin DenyCountries \cup {"private_deny"}
          /\ Lookup(ip) \in AllowCountries \/ DefaultAllow

Check(ip) ==
    /\ ip \notin DenyList
    /\ Lookup(ip) \notin DenyCountries \cup {"private_deny"}
    /\ ip \in AllowList \/ Lookup(ip) \in AllowCountries \/ DefaultAllow

\* GetLimit: the limit of the longest prefix that has one
GetLimit(path) ==
    LET fits == {p \in DOMAIN PathLimits : IsPrefix(p, path)}
    IN IF fits = {} THEN MaxBodySize
       ELSE PathLimits[CHOOSE p \in fits : \A q \in fits : Len(q) <= Len(p)]

\* rewrite.Process: the first rule that applies, and from the first one again after
\* every "last" rewrite, of which there are only so many.
Rewritten(path) ==
    LET places == RequestPaths \cup {Rules[i].to : i \in DOMAIN Rules}
        walk[left \in 0..MaxRewriteIterations] ==
            [p \in places |->
                LET fits == {i \in DOMAIN Rules : p \in Rules[i].from}
                    rule == Rules[Min(fits)]
                IN IF Rules # <<>> /\ left = 0 THEN [does |-> "fail", path |-> p]
                   ELSE IF fits = {} THEN [does |-> "next", path |-> p]
                   ELSE IF rule.flag = "last" THEN walk[left - 1][rule.to]
                   ELSE [does |-> IF rule.flag = "break" THEN "next" ELSE rule.flag,
                         path |-> rule.to]]
    IN walk[MaxRewriteIterations][path]

\* GetPage and ErrorIntercept.Process: body and type are replaced, nothing else.
Intercepted(r) ==
    IF r.status \in 400..599 /\ r.status \in PageCodes
    THEN [r EXCEPT !.page = TRUE, !.body = "plain", !.worth = TRUE,
                   !.status = IF PageStatus > 0 THEN PageStatus ELSE @]
    ELSE r

\* Mutant of Compressed: what is already encoded is not looked at.
CompressedTwice(r) ==
    IF req.accepts /\ r.worth THEN [r EXCEPT !.encoded = TRUE, !.body = "packed twice"] ELSE r

\* compression.Process: never what is encoded, small or of another type, and
\* nothing for a client that does not ask for it
Compressed(r) ==
    IF req.accepts /\ ~r.encoded /\ r.worth
    THEN [r EXCEPT !.encoded = TRUE, !.body = "packed"] ELSE r

\* New: 1 / rate, rounded
SampleInterval == IF rate \in 1..99 THEN (200 + rate) \div (2 * rate) ELSE 1

\* shouldLog, of an answer that is no error of the server; those are all kept.
Sampled == rate >= 100 \/ (rate > 0 /\ (counted + 1) % SampleInterval = 1)

\* An answer goes through the access log; those below 500 are sampled.
LogPass(status) ==
    IF status < 500
      THEN /\ counted' = counted + 1
           /\ logged' = IF Sampled THEN logged + 1 ELSE logged
    ELSE UNCHANGED <<counted, logged>>

-----------------------------------------------------------------------------
(* On the way in *)

Arrive(p) ==
    /\ way = "idle" /\ served < MaxRequests
    /\ way' = "in" /\ pos' = 1 /\ served' = served + 1
    /\ resp' = Blank
    /\ \E origin \in {"none", "cross", "preflight", "other"}, accepts \in BOOLEAN :
         req' = [NoRequest EXCEPT !.path = p, !.source = p, !.origin = origin,
                                  !.accepts = accepts]
    /\ UNCHANGED <<chain, rate, counted, logged>>

At(m) == way = "in" /\ pos <= Len(chain) /\ chain[pos][1] = m

Pass(rq, rs) ==
    /\ req' = rq /\ resp' = rs /\ pos' = pos + 1
    /\ UNCHANGED <<chain, rate, way, served, counted, logged>>

GoBack(rs) ==
    /\ resp' = rs /\ pos' = pos - 1 /\ way' = "out"
    /\ UNCHANGED <<chain, rate, req, served>>

Answer(rs) == GoBack(rs) /\ UNCHANGED <<counted, logged>>

RequestID == At("request_id") /\ Pass(req, [resp EXCEPT !.id = TRUE])

\* access_log, compression, headers and error_intercept only act on the way out.
Enter == \E m \in {"access_log", "compression", "headers", "error_intercept"} :
    At(m) /\ Pass(req, resp)

AccessControl ==
    /\ At("access")
    /\ \E remote \in Addresses, forwarded \in BoundedSeq(Addresses \cup {"junk"}, 2) :
         LET ip == ClientIP(remote, forwarded)
         IN IF Check(ip) THEN Pass([req EXCEPT !.client = ip], resp) ELSE Answer(Error(403))

\* RateLimiter and ConnLimiter, see Limits
Limiter ==
    \/ At("rate_limit") /\ (Pass(req, resp) \/ Answer(Error(429)))
    \/ At("conn_limit") /\ (Pass(req, resp) \/ Answer(Error(503)))

BasicAuth ==
    /\ At("basic_auth")
    /\ \E tls \in BOOLEAN, user \in {"none", "wrong", "known"} :
         IF ~tls THEN Answer(Error(403))
         ELSE IF user # "known" THEN Answer(Error(401))
         ELSE Pass([req EXCEPT !.tls = tls, !.user = user], resp)

\* doAuthRequest: 0 is a service that cannot be reached.
AuthRequest ==
    /\ At("auth_request")
    /\ \E answer \in {0, 200, 204, 302, 401, 403, 503} :
         IF answer \in 200..299 THEN Pass([req EXCEPT !.vouched = answer], resp)
         ELSE Answer(Error(IF answer \in {401, 403} THEN answer ELSE 500))

\* Only an announced length is compared; a chunked body is not (there is a stream
\* to limit only with StreamRequestBody, which no server sets).
BodyLimit ==
    /\ At("body_limit")
    /\ \E length \in {Chunked} \cup 0..(MaxBodySize + 1) :
         IF length > 0 /\ length > GetLimit(req.path) THEN Answer(Error(413))
         ELSE Pass([req EXCEPT !.length = length], resp)

Rewrite ==
    /\ At("rewrite")
    /\ LET r == Rewritten(req.path) IN
       CASE r.does = "fail" -> Answer(Error(500))
         [] r.does = "redirect" -> Answer([resp EXCEPT !.status = 302])
         [] r.does = "permanent" -> Answer([resp EXCEPT !.status = 301])
         [] OTHER -> Pass([req EXCEPT !.path = r.path], resp)

\* A preflight is answered here; another origin is served without the headers.
CORS ==
    /\ At("cors")
    /\ IF req.origin = "preflight"
         THEN Answer([resp EXCEPT !.status = 204, !.cors = TRUE])
       ELSE Pass(req, resp)

\* LuaMiddleware.Process: no coroutine, ngx.exit or ngx.redirect end the chain;
\* a script that fails leaves its 500 behind and the chain goes on.
RunScript ==
    /\ At("script")
    /\ LET ran == [req EXCEPT !.ran = Append(@, chain[pos][2])] IN
       \/ Pass(ran, resp)
       \/ Pass(ran, Error(500))
       \/ Answer(Error(500))
       \/ \E status \in {200, 302, 403} : Answer([resp EXCEPT !.status = status])

\* The routed handler: a page, a packed answer of an upstream or of gzip_static,
\* an error of its own, or an upstream's error page.  One that sets no status
\* keeps what a script left.
Handle ==
    /\ way = "in" /\ pos = Len(chain) + 1
    /\ \/ \E worth, encoded \in BOOLEAN, status \in {200, 404} :
            Answer([resp EXCEPT !.status = status, !.worth = worth, !.encoded = encoded,
                                !.body = IF encoded THEN "packed" ELSE "plain"])
       \/ Answer([resp EXCEPT !.worth = TRUE])
       \/ \E status \in {404, 502} : Answer(Error(status))

\* A Lua route: wrapRoutedHandler puts the same access log and error pages around
\* the script once more, inside the chain.  An exit is no error of the script.
HandleLua ==
    /\ way = "in" /\ pos = Len(chain) + 1
    /\ \E r \in {[resp EXCEPT !.worth = TRUE], Error(500)}
                 \cup {[resp EXCEPT !.status = status, !.worth = TRUE] : status \in {200, 404}} :
         LET rs == IF Has("error_intercept") THEN Intercepted(r) ELSE r
         IN GoBack(rs) /\ LogPass(rs.status)

-----------------------------------------------------------------------------
(* On the way out *)

After(m, r) ==
    CASE m = "error_intercept" -> Intercepted(r)
      [] m = "cors" -> IF req.origin = "cross" THEN [r EXCEPT !.cors = TRUE] ELSE r
      [] m = "headers" -> [r EXCEPT !.secure = TRUE]
      [] m = "compression" -> Compressed(r)
      [] OTHER -> r

Leave ==
    /\ way = "out" /\ pos > 0
    /\ resp' = After(chain[pos][1], resp) /\ pos' = pos - 1
    /\ IF chain[pos][1] = "access_log" THEN LogPass(resp.status)
       ELSE UNCHANGED <<counted, logged>>
    /\ UNCHANGED <<chain, rate, req, way, served>>

Send ==
    /\ way = "out" /\ pos = 0 /\ way' = "idle"
    /\ req' = NoRequest /\ resp' = Blank
    /\ UNCHANGED <<chain, rate, pos, served, counted, logged>>

PipeNext ==
    \/ \E p \in RequestPaths : Arrive(p)
    \/ RequestID \/ Enter \/ AccessControl \/ Limiter \/ BasicAuth \/ AuthRequest
    \/ BodyLimit \/ Rewrite \/ CORS \/ RunScript \/ Handle \/ HandleLua
    \/ Leave \/ Send

PipeSpec == PipeInit /\ [][PipeNext]_pipeVars

-----------------------------------------------------------------------------
Handling == way = "in" /\ pos = Len(chain) + 1

\* Who may come in, said without an order of lists: never what a list or a
\* country denies, and the address is one that a trusted machine vouches for.
Admitted(ip) ==
    /\ ip \notin DenyList
    /\ Lookup(ip) \notin DenyCountries \/ Lookup(ip) = "unknown"
    /\ PrivateIP = "deny" => Country[ip] # "private"
    /\ DefaultAllow \/ ip \in AllowList \/ Lookup(ip) \in AllowCountries

\* What reaches a handler has passed every guard of the server, whatever the
\* rules did to its path, also what reaches a Lua route: its client is admitted,
\* its user known over TLS, the outer service agreed, and the length its header
\* announces is within the limit of the path that was asked for.  A chunked body
\* announces none and is let through whatever its size
\* (middleware_builder.go:40-184, bodylimit.go:153).
GuardsPassed ==
    Handling =>
        /\ Has("access") => req.client \in Addresses /\ Admitted(req.client)
        /\ Has("basic_auth") => req.tls /\ req.user = "known"
        /\ Has("auth_request") => req.vouched \in 200..299
        /\ \A p \in DOMAIN PathLimits :
             IsPrefix(p, req.source) /\ (\A q \in DOMAIN PathLimits :
                                            IsPrefix(q, req.source) => IsPrefix(q, p))
               => req.length = Chunked \/ req.length <= PathLimits[p]
        /\ (\A p \in DOMAIN PathLimits : ~IsPrefix(p, req.source)) =>
               req.length = Chunked \/ req.length <= MaxBodySize
        /\ req.origin # "preflight" \/ ~Has("cors")

\* What reaches a handler is rewritten to the end: its path is one no rule applies
\* to any more unless a "break" put it there (rewrite.go:170-233).
RewritesEnd ==
    Handling /\ Has("rewrite") =>
        \/ \A i \in DOMAIN Rules : req.path \notin Rules[i].from
        \/ \E i \in DOMAIN Rules : Rules[i].flag = "break" /\ Rules[i].to = req.path

\* An answer as it is sent.  Its encoding is the one its header names, unless an
\* error page took the place of a packed body; what came from inside the chain
\* has the security headers, and what a guard refused has none of the filters'
\* work (compression.go:220-301, headers.go:112-176, errorintercept.go:67-98).
AnswersFinished ==
    way = "out" /\ pos = 0 =>
        /\ (resp.encoded <=> resp.body = "packed") \/ (resp.page /\ resp.encoded)
        /\ Has("headers") /\ (resp.page \/ resp.cors \/ req.ran # <<>>) => resp.secure
        /\ resp.cors => req.origin \in {"cross", "preflight"}
        /\ resp.secure \/ resp.page \/ resp.cors \/ resp.encoded =>
             /\ Has("access") => req.client # ""
             /\ Has("basic_auth") => req.user = "known"
             /\ Has("auth_request") => req.vouched # 0

\* Of the answers below 500 that pass the access log it keeps one of every
\* SampleInterval, from two on; a rate that makes it 1 keeps none at all.  What a
\* Lua route answers passes it twice, and its request counts and may be logged
\* twice (accesslog.go:62, 103, router.go:387).
LogsSampled ==
    logged = IF rate = 0 \/ (rate < 100 /\ SampleInterval = 1) THEN 0
             ELSE (counted + SampleInterval - 1) \div SampleInterval

\* Every request is rewritten to the end, every answer leaves whole, and what
\* passes the access log is sampled as configured.
AnswersAccounted == RewritesEnd /\ AnswersFinished /\ LogsSampled

\* What config/monitoring_config.go:166 says of sample_rate: the share of the
\* requests that is logged, give or take one request; said of the answers below
\* 500, and not once a Lua route has made two of one request.
ShareLogged ==
    counted <= served => 100 * logged \in (rate * counted - 100)..(rate * counted + 100)

\* Scripts run in the order of their phases (lua/middleware.go:9).
PhasesInOrder ==
    \A i, j \in DOMAIN req.ran : i < j =>
        SelectInSeq(PhaseOrder, LAMBDA p : p = req.ran[i])
          < SelectInSeq(PhaseOrder, LAMBDA p : p = req.ran[j])
=============================================================================
