---------------------------- MODULE ConfigRules ----------------------------
(***************************************************************************)
(* What Validate checks of one server (config/validate.go) and what the    *)
(* start then makes of it (server/init.go, middleware_builder.go and the   *)
(* constructors of the middlewares).  A configuration is a record of       *)
(* fields; a value stands for the class of values the code tells apart,    *)
(* and role for the run mode and the place in it: the only server, one of  *)
(* several, or one of several virtual hosts.  Every configuration that     *)
(* differs in at most two fields from one in which everything is           *)
(* configured is looked at.                                                *)
(***************************************************************************)
EXTENDS Integers, FiniteSets, SequencesExt

\* Everything is configured, and well.
Rich == [
    listen |-> "ok", mode |-> "auto", defaults |-> 1, role |-> "first server", firstLua |-> TRUE,
    statics |-> "apart", kind |-> "prefix", place |-> "root", try |-> "uri", format |-> "json",
    path |-> "own", targets |-> "ok", algorithm |-> "sticky", metric |-> "", time |-> 0,
    sticky |-> TRUE, fallback |-> "", sameSite |-> "", tries |-> 1, code |-> 502, hashKey |-> "ip",
    redirect |-> "custom", location |-> "prefix", byLua |-> "", pathSize |-> "ok",
    pattern |-> "ok", flag |-> "last",
    cert |-> "both", pem |-> "ok", protocol |-> "TLSv1.2", cipher |-> "known",
    http2 |-> TRUE, h2c |-> FALSE, streams |-> 0,
    allow |-> "cidr", deny |-> "cidr", trusted |-> "cidr", default |-> "deny",
    geo |-> TRUE, database |-> "ok", country |-> "ok", private |-> "allow", geoCache |-> 0,
    geoDefault |-> "",
    auth |-> "basic", hash |-> "bcrypt", user |-> "bcrypt", minLength |-> 8,
    rate |-> 1, burst |-> 1, connLimit |-> 1, key |-> "ip", limiter |-> "token_bucket",
    window |-> "precise",
    frame |-> "DENY", referrer |-> "origin",
    cors |-> TRUE, origins |-> "list", credentials |-> TRUE, maxAge |-> 0,
    authURI |-> "url", bodySize |-> "ok", pages |-> "all",
    compression |-> "gzip", level |-> 6, minSize |-> 0,
    lua |-> TRUE, script |-> "ok", phase |-> "access", enabled |-> FALSE, timeout |-> 0,
    coroutines |-> 0,
    stream |-> "ok", logging |-> "ok", maxConns |-> 0, resolver |-> "ok", variable |-> "ok",
    shutdown |-> 0]

\* The other values of the fields; "" is a field that was left out.
Others == [
    listen |-> {"", "bad"}, mode |-> {"bad"}, defaults |-> {0, 2},
    role |-> {"alone", "server", "first host", "host"}, firstLua |-> {FALSE},
    statics |-> {"none", "same path"}, kind |-> {"", "regex", "bad regex"}, place |-> {"alias", "root and alias", "up"},
    try |-> {"", "null", "uri.ext", "uri.php", "file", "dir/file", "/file", "/../file"},
    format |-> {"", "bad"},
    path |-> {"", "of static"}, targets |-> {"none", "no url", "no scheme"},
    algorithm |-> {"", "round_robin", "least_time", "bad"}, metric |-> {"header", "bad"},
    time |-> {-1}, sticky |-> {FALSE}, fallback |-> {"round_robin", "sticky", "bad"},
    sameSite |-> {"Lax", "bad"}, tries |-> {0, -1}, code |-> {0, 99}, hashKey |-> {"", "header", "bad"},
    redirect |-> {"nil", "off", "bad", "no rules", "no pattern", "bad regex"},
    location |-> {"", "regex", "bad regex", "named", "no name", "bad"},
    byLua |-> {"ip_hash", "bad"}, pathSize |-> {"", "bad"},
    pattern |-> {"", "bad", "unsafe"}, flag |-> {"", "bad"},
    cert |-> {"", "one"}, pem |-> {"missing"}, protocol |-> {"", "TLSv1.1", "bad"},
    cipher |-> {"", "insecure", "unknown"}, http2 |-> {FALSE}, h2c |-> {TRUE}, streams |-> {-1},
    allow |-> {"", "ip", "bad"}, deny |-> {"", "ip", "bad"}, trusted |-> {"", "ip", "bad"},
    default |-> {"", "allow", "bad"},
    geo |-> {FALSE}, database |-> {"", "missing"}, country |-> {"bad"}, private |-> {"", "bad"},
    geoCache |-> {-1}, geoDefault |-> {"allow", "bad"},
    auth |-> {"", "bad"}, hash |-> {"", "argon2id", "bad"},
    user |-> {"", "no name", "no password", "argon2id", "clear"}, minLength |-> {0, 5, 129},
    rate |-> {0, -1, 2}, burst |-> {0, -1}, connLimit |-> {0, -1}, key |-> {"header", "bad"},
    limiter |-> {"", "sliding_window", "bad"}, window |-> {"", "bad"},
    frame |-> {"", "bad"}, referrer |-> {"", "bad"},
    cors |-> {FALSE}, origins |-> {"none", "any"}, credentials |-> {FALSE}, maxAge |-> {-1},
    authURI |-> {"off", "", "path", "no host"}, bodySize |-> {"", "bad"},
    pages |-> {"none", "some missing", "all missing"},
    compression |-> {"", "both", "bad"}, level |-> {0, -1, 10}, minSize |-> {-1},
    lua |-> {FALSE}, script |-> {""}, enabled |-> {TRUE},
    phase |-> {"", "bad", "route", "route and phase", "bad regex", "bad type"}, timeout |-> {-1, 30},
    coroutines |-> {-1},
    stream |-> {"none", "no listen", "protocol", "no targets", "no addr", "algorithm"},
    logging |-> {"format", "level"}, maxConns |-> {-1},
    resolver |-> {"off", "no address", "bad address", "short", "no family"},
    variable |-> {"none", "", "char", "prefix", "builtin"}, shutdown |-> {-1}]

\* A file without servers leaves DefaultConfig: HTTP/2 without a certificate.
DefaultConfig ==
    [Rich EXCEPT !.role = "alone", !.place = "root", !.targets = "none", !.path = "none", !.pattern = "none",
                 !.cert = "", !.http2 = TRUE, !.allow = "", !.deny = "", !.trusted = "",
                 !.default = "allow", !.geo = FALSE, !.auth = "", !.user = "", !.rate = 0,
                 !.connLimit = 0, !.cors = FALSE, !.authURI = "off", !.pages = "none",
                 !.lua = FALSE, !.stream = "none", !.resolver = "off", !.variable = "none"]

VARIABLES
    cfg,
    boot,       \* "load", "init", "routes", "chain", "listen", then how it ended
    installed   \* what is at work of what the configuration asks for

ruleVars == <<cfg, boot, installed>>

RulesInit ==
    /\ \/ \E f, g \in DOMAIN Others : \E v \in Others[f], w \in Others[g] :
            cfg = [Rich EXCEPT ![f] = v, ![g] = w]
       \/ cfg = Rich
       \/ cfg = DefaultConfig
    /\ boot = "load" /\ installed = {}

-----------------------------------------------------------------------------
(* Validate *)

\* The location type is not looked at.
validateStatics ==
    /\ cfg.statics # "same path" /\ cfg.place \notin {"root and alias", "up"}
    /\ cfg.format # "bad"

\* validateTryFilesPattern, -Extension, -Filename
validateTryFiles == cfg.try \in {"uri", "uri.ext", "file", "/file"}

validatePathConflicts == ~(cfg.path = "of static" /\ cfg.statics # "none")

validateNextUpstream ==
    (cfg.tries = 0 /\ cfg.code = 0) \/ (cfg.tries >= 0 /\ cfg.code \in {0} \cup 100..599)

validateRedirectRewrite ==
    cfg.redirect \notin {"bad", "no rules", "no pattern", "bad regex"}

validateProxy ==
    cfg.path # "none" =>
        /\ cfg.path # "" /\ cfg.targets = "ok" /\ cfg.algorithm # "bad"
        /\ cfg.algorithm = "least_time" => cfg.metric # "bad" /\ cfg.time >= 0
        /\ cfg.algorithm = "sticky" => cfg.sticky /\ cfg.fallback # "bad" /\ cfg.sameSite # "bad"
        /\ validateNextUpstream /\ cfg.hashKey # "bad" /\ validateRedirectRewrite
        /\ cfg.location \notin {"bad", "bad regex", "no name"}

validateRewrite == cfg.pattern # "" /\ cfg.flag # "bad"

validateHTTP2 == (cfg.http2 => cfg.cert = "both" \/ cfg.h2c) /\ cfg.streams >= 0

validateSSL ==
    /\ validateHTTP2
    /\ cfg.cert # "" => /\ cfg.cert = "both" /\ cfg.protocol \in {"", "TLSv1.2"}
                        /\ cfg.cipher # "insecure"

validateGeoIP ==
    cfg.geo => /\ cfg.database # "" /\ cfg.country # "bad" /\ cfg.private # "bad"
               /\ cfg.geoCache >= 0 /\ cfg.geoDefault # "bad"

\* The trusted proxies are not looked at.
validateAccess ==
    cfg.allow # "bad" /\ cfg.deny # "bad" /\ cfg.default # "bad" /\ validateGeoIP

\* Nothing is looked at without a type.
validateAuth ==
    cfg.auth # "" =>
        /\ cfg.auth = "basic" /\ cfg.hash # "bad"
        /\ cfg.user \notin {"", "no name", "no password"}
        /\ cfg.minLength \in {0} \cup 6..128

validateRateLimit ==
    (cfg.rate = 0 /\ cfg.connLimit = 0) \/
        /\ cfg.rate >= 0 /\ cfg.burst >= 0 /\ cfg.connLimit >= 0
        /\ cfg.key # "bad" /\ cfg.limiter # "bad" /\ cfg.window # "bad"

validateSecurityHeaders == cfg.frame # "bad" /\ cfg.referrer # "bad"

validateCORS ==
    cfg.cors => /\ cfg.origins # "none" /\ ~(cfg.origins = "any" /\ cfg.credentials)
                /\ cfg.maxAge >= 0

validateSecurity ==
    validateAccess /\ validateAuth /\ validateRateLimit /\ validateSecurityHeaders /\ validateCORS

validateCompression ==
    cfg.compression # "" => cfg.compression # "bad" /\ cfg.level \in 0..9 /\ cfg.minSize >= 0

\* A script has a phase or a route, and it may have neither.
validateLua ==
    cfg.lua => /\ cfg.script # ""
               /\ cfg.phase \notin {"bad", "route and phase", "bad regex", "bad type"}
               /\ cfg.timeout >= 0 /\ cfg.coroutines >= 0

validateServer ==
    /\ cfg.listen = "ok" /\ validateStatics /\ validateTryFiles /\ validateProxy
    /\ validatePathConflicts /\ validateRewrite /\ validateSSL /\ validateSecurity
    /\ validateCompression /\ validateLua

validateStream == cfg.stream \in {"ok", "none"}
validateLogging == cfg.logging = "ok"
validatePerformance == cfg.maxConns >= 0
ResolverValid == cfg.resolver \in {"ok", "off"}
validateVariables == cfg.variable \in {"ok", "none"}
validateShutdown == cfg.shutdown >= 0
validateMode == cfg.mode # "bad"
validateDefaultServer == cfg.defaults <= 1

Valid ==
    /\ validateMode /\ validateDefaultServer /\ validateServer /\ validateStream
    /\ validateLogging /\ validatePerformance /\ ResolverValid /\ validateVariables
    /\ validateShutdown

ValidateRules ==
    /\ boot = "load" /\ boot' = IF Valid THEN "init" ELSE "rejected"
    /\ UNCHANGED <<cfg, installed>>

-----------------------------------------------------------------------------
(* Start: what the constructors want *)

Runs(names) == installed' = installed \cup names

\* The server the start begins with, and the virtual hosts
First == cfg.role \in {"alone", "first server", "first host"}
Host == cfg.role \in {"first host", "host"}

\* The Lua engine and the error pages are those of the first server, for all of them.
EngineWanted == IF First THEN cfg.lua ELSE cfg.firstLua

\* initErrorPageManager, initLuaEngine
InitParts ==
    /\ boot = "init" /\ UNCHANGED cfg
    /\ IF First /\ cfg.pages = "all missing"
         THEN boot' = "failed" /\ UNCHANGED installed
         ELSE /\ boot' = "routes"
              /\ Runs((IF First /\ cfg.pages # "none" THEN {"pages"} ELSE {})
                        \cup (IF EngineWanted THEN {"lua engine"} ELSE {}))

LuaOn == "lua engine" \in installed /\ cfg.lua

\* createProxyForConfig: a proxy that cannot be built is logged and left out.  A
\* sticky balancer that falls back on itself never comes to an end.
NewProxyOK == cfg.byLua # "bad"

\* registerRoute: a path that is taken is logged and left out, but AddRegex compiles.
\* Only the single mode has a LocationEngine and its types.
StaticRouteOK == ~(cfg.role = "alone" /\ cfg.statics # "none" /\ cfg.kind = "bad regex")

\* Virtual hosts register no Lua routes.
RegisterRoutes ==
    /\ boot = "routes" /\ UNCHANGED cfg
    /\ IF cfg.algorithm = "sticky" /\ cfg.fallback = "sticky"
         THEN boot' = "stack overflow" /\ UNCHANGED installed
       ELSE IF ~StaticRouteOK THEN boot' = "failed" /\ UNCHANGED installed
       ELSE /\ boot' = "chain"
            /\ Runs((IF cfg.path # "none" /\ NewProxyOK THEN {"proxy"} ELSE {})
                      \cup (IF LuaOn /\ cfg.phase = "route" /\ ~Host THEN {"lua"} ELSE {}))

\* What the middlewares are for, and whether buildMiddlewareChain adds them
Listed == cfg.allow # "" \/ cfg.deny # ""

NewAccessControlOK ==
    /\ cfg.trusted # "bad"
    /\ ~(cfg.geo /\ cfg.database = "missing")

\* Mutant of NewRateLimiterOK: a trusted proxy may be a single address.
NewRateLimiterTrusts ==
    cfg.limiter # "sliding_window" => cfg.burst >= cfg.rate /\ cfg.trusted # "bad"

\* newTokenBucketLimiter parses networks only, NewAccessControl addresses too.
NewRateLimiterOK ==
    cfg.limiter # "sliding_window" =>
        cfg.burst >= cfg.rate /\ cfg.trusted \notin {"bad", "ip"}

\* validatePasswordHash
HashFits == cfg.user = IF cfg.hash = "argon2id" THEN "argon2id" ELSE "bcrypt"

NewBasicAuthOK == cfg.auth = "basic" /\ HashFits

NewAuthRequestOK == cfg.authURI # "no host"

\* New, AddPathLimit, ParseSize
NewBodyLimitOK == cfg.bodySize # "bad" /\ (cfg.path # "none" => cfg.pathSize # "bad")

\* validateRegexSafety, regexp.Compile
NewRewriteOK == cfg.pattern \notin {"bad", "unsafe"}

\* buildLuaMiddlewares: a script that does not say enabled is on only as long as it
\* has no timeout of its own, and a route is no middleware.  ParsePhase
ScriptOn == cfg.enabled \/ (cfg.timeout = 0 /\ cfg.script # "")
NewLuaOK == cfg.phase # ""

\* Mutant of ConnsLimited: connections are limited only along with requests.
ConnsLimitedToo == cfg.rate > 0 /\ cfg.connLimit > 0

ConnsLimited == cfg.connLimit > 0

\* The middlewares that are built, each with what its constructor says
Middlewares ==
    LET build(on, name, ok) == IF on THEN {<<name, ok>>} ELSE {}
    IN build(Listed, "access", NewAccessControlOK)
       \cup build(cfg.rate > 0, "rate", NewRateLimiterOK)
       \cup build(ConnsLimited, "conns", TRUE)
       \cup build(cfg.user # "", "auth", NewBasicAuthOK)
       \cup build(cfg.authURI \notin {"off", ""}, "auth request", NewAuthRequestOK)
       \cup build(TRUE, "body", NewBodyLimitOK)
       \cup build(cfg.pattern # "none", "rewrite", NewRewriteOK)
       \cup build(cfg.compression # "", "compression", TRUE)
       \cup build(cfg.frame # "" \/ cfg.referrer # "", "headers", TRUE)
       \cup build(cfg.cors, "cors", TRUE)
       \cup build(LuaOn /\ ScriptOn /\ cfg.phase # "route", "lua", NewLuaOK)

BuildChain ==
    /\ boot = "chain" /\ UNCHANGED cfg
    /\ IF \E m \in Middlewares : ~m[2]
         THEN boot' = "failed" /\ UNCHANGED installed
         ELSE boot' = "listen" /\ Runs({m[1] : m \in Middlewares})

NewTLSManagerOK == cfg.pem = "ok" /\ cfg.cipher # "unknown"

\* All virtual hosts are served with what the first of them says of TLS.
TLSUsed == cfg.cert = "both" /\ cfg.role # "host"

\* startServer, and the same once for every server of several
ListenAndServe ==
    /\ boot = "listen" /\ UNCHANGED cfg
    /\ IF TLSUsed /\ ~NewTLSManagerOK
         THEN boot' = "failed" /\ UNCHANGED installed
         ELSE boot' = "serving" /\ Runs(IF TLSUsed THEN {"tls"} ELSE {})

RulesNext == ValidateRules \/ InitParts \/ RegisterRoutes \/ BuildChain \/ ListenAndServe

RulesSpec == RulesInit /\ [][RulesNext]_ruleVars

-----------------------------------------------------------------------------
\* What Validate lets through and the start refuses is known in full: files that
\* are not there, and what is checked by a constructor only.
FilesMissing ==
    \/ First /\ cfg.pages = "all missing"
    \/ TLSUsed /\ cfg.pem = "missing"
    \/ Listed /\ cfg.geo /\ cfg.database = "missing"

LateChecks ==
    \/ Listed /\ cfg.trusted = "bad"
    \/ cfg.rate > 0 /\ cfg.limiter # "sliding_window"
         /\ (cfg.trusted \in {"bad", "ip"} \/ cfg.burst < cfg.rate)
    \/ cfg.user # "" /\ (cfg.auth = "" \/ ~HashFits)
    \/ cfg.authURI = "no host" \/ cfg.bodySize = "bad"
    \/ cfg.path # "none" /\ cfg.pathSize = "bad"
    \/ cfg.pattern \in {"bad", "unsafe"}
    \/ cfg.lua /\ EngineWanted /\ ScriptOn /\ cfg.phase = ""
    \/ TLSUsed /\ cfg.cipher = "unknown"
    \/ ~StaticRouteOK

\* A server that Validate accepts comes to serve but for those causes, and with one
\* of them it never does, in any run mode; a sticky balancer that falls back on
\* itself ends the process.  What the run mode never looks at ends nothing: the
\* certificate of a virtual host behind the first, the location type of static
\* files outside the single mode, a script that is passed over
\* (validate.go:168-306, server.go:694-701, 781-791, proxy.go:338-345).
AcceptedStarts ==
    /\ boot = "failed" => FilesMissing \/ LateChecks
    /\ boot = "serving" => /\ ~FilesMissing /\ ~LateChecks
                           /\ cfg.algorithm = "sticky" => cfg.fallback # "sticky"
    /\ boot = "stack overflow" => cfg.algorithm = "sticky" /\ cfg.fallback = "sticky"

\* Whatever a server is told to guard itself with is at work when it serves, but
\* for what the start passes over without a word: a default or a country without
\* any list, an outer service without an address, the certificate of a virtual host
\* behind the first, and of the scripts those of a server behind a first one without
\* Lua, one with a timeout that does not say enabled, and the routes of a virtual
\* host (middleware_builder.go:50,94,211, server.go:309-318, 637-701).
GuardsAtWork ==
    boot = "serving" =>
        /\ cfg.default = "deny" \/ cfg.geo => "access" \in installed \/ (cfg.allow = "" /\ cfg.deny = "")
        /\ cfg.auth # "" \/ cfg.user # "" => "auth" \in installed
        /\ cfg.authURI # "off" => "auth request" \in installed \/ cfg.authURI = ""
        /\ cfg.rate # 0 => "rate" \in installed
        /\ cfg.connLimit # 0 => "conns" \in installed
        /\ cfg.cert # "" => "tls" \in installed \/ cfg.role = "host"
        /\ cfg.lua => \/ "lua" \in installed
                      \/ ~EngineWanted
                      \/ IF cfg.phase = "route" THEN Host ELSE ~cfg.enabled /\ cfg.timeout # 0
=============================================================================
