---------------------------- MODULE MCRequests ----------------------------
(***************************************************************************)
(* What decides about a connection and a request, in one instance: the     *)
(* configuration and its import, the TLS handshake, the middlewares, the   *)
(* location and the target.  These share no state, so that a behaviour is  *)
(* that of one of them, chosen at the start, while the others stay as they *)
(* are.                                                                    *)
(***************************************************************************)
EXTENDS Balancers, Locations, Pipeline, ConfigLoad, ConfigRules, NginxImport,
        SessionTickets, TlsHandshakes, TLC

CONSTANT Parts    \* the parts to check

VARIABLE part

Some(S) == CHOOSE x \in S : TRUE

RequestsInit ==
    /\ part \in Parts
    /\ IF part = "balancers" THEN BalInit ELSE balancer = Some(Algorithms) /\ BalInit
    /\ IF part = "locations" THEN LocInit ELSE startup = "single" /\ LocInit
    /\ IF part = "pipeline" THEN PipeInit
       ELSE chain = Some(Chains) /\ rate = Some(SampleRates) /\ PipeInit
    /\ IF part = "load" THEN LoadInit
       ELSE /\ includes = [f \in Files \cup {Main} |-> <<>>] /\ mode = Some(Modes)
            /\ defines = [f \in Files \cup {Main} |-> <<>>] /\ LoadInit
    /\ IF part = "rules" THEN RulesInit ELSE cfg = Rich /\ boot = "load" /\ installed = {}
    /\ IF part = "import" THEN ImportInit ELSE job = "parse" /\ ImportInit
    /\ TicketsInit
    /\ IF part = "tls" THEN TlsInit ELSE setting = Some(Settings) /\ TlsInit

Keeping(p) ==
    /\ UNCHANGED part
    /\ IF p = "balancers" THEN TRUE ELSE UNCHANGED balVars
    /\ IF p = "locations" THEN TRUE ELSE UNCHANGED locVars
    /\ IF p = "pipeline" THEN TRUE ELSE UNCHANGED pipeVars
    /\ IF p = "load" THEN TRUE ELSE UNCHANGED loadVars
    /\ IF p = "rules" THEN TRUE ELSE UNCHANGED ruleVars
    /\ IF p = "import" THEN TRUE ELSE UNCHANGED importVars
    /\ IF p = "tickets" THEN TRUE ELSE UNCHANGED ticketVars
    /\ IF p = "tls" THEN TRUE ELSE UNCHANGED tlsVars

RequestsNext ==
    \/ part = "balancers" /\ BalNext /\ Keeping("balancers")
    \/ part = "locations" /\ LocNext /\ Keeping("locations")
    \/ part = "pipeline" /\ PipeNext /\ Keeping("pipeline")
    \/ part = "load" /\ LoadNext /\ Keeping("load")
    \/ part = "rules" /\ RulesNext /\ Keeping("rules")
    \/ part = "import" /\ ImportNext /\ Keeping("import")
    \/ part = "tickets" /\ TicketsNext /\ Keeping("tickets")
    \/ part = "tls" /\ TlsNext /\ Keeping("tls")

-----------------------------------------------------------------------------
(* The instance *)

\* Two targets on the circle twice, a backup once.
MCWeights == <<2, 1, 0>>
MCCircle == <<1, 2, 3, 1, 2>>

MCPaths == {<<1>>, <<1, 1>>, <<1, 2>>, <<1, 1, 1>>, <<1, 1, 2>>}
MCHosts == {<<1>>, <<1, 2>>, <<2, 2>>, <<1, 2, 2>>}
MCRegexes == {[paths |-> {<<1, 1>>, <<1, 1, 1>>}, hosts |-> {<<1, 2>>}]}

\* Everything that can be configured, and parts of it.
Everything == {"access", "rate_limit", "conn_limit", "basic_auth", "auth_request", "rewrite",
               "compression", "headers", "cors", "error_intercept", "lua"}
MCSetups == {Everything, Everything \ {"access", "lua"},
             {"rewrite", "compression", "error_intercept", "headers"}}
MCCountry == [a \in Addresses |-> CASE a = "home" -> "A" [] a = "far" -> "B" [] OTHER -> "private"]
MCRequestPaths == {<<1>>, <<1, 1>>, <<2>>, <<3>>}
MCRules == <<[from |-> {<<1, 1>>}, to |-> <<2>>, flag |-> "last"],
             [from |-> {<<2>>}, to |-> <<3>>, flag |-> "break"],
             [from |-> {<<3>>}, to |-> <<3>>, flag |-> "last"]>>
MCPathLimits == (<<1>> :> 2) @@ (<<1, 1>> :> 1)

MCIncludes == {<<>>, <<"f">>, <<"g">>, <<"f", "g">>, <<"dir", "g">>, <<"g", "nothing">>, <<"main">>}
MCPlaces == {[host |-> "", port |-> 1, name |-> "a"], [host |-> "", port |-> 1, name |-> "b"],
             [host |-> "lo", port |-> 1, name |-> "a"], [host |-> "lo", port |-> 2, name |-> "b"]}

MCLocations ==
    [path : {"/", "/a"}, does : {{}, {"proxy_pass"}, {"return 301 URL"}}]
    \cup [path : {"/a"}, does :
            {{"alias"}, {"root", "alias"}, {"root", ".."}, {"try_files"}, {"try_files", "$uri/file"},
             {"bad expression", "root"}, {"return 301"}, {"proxy_pass", "root"}}
            \cup {{"proxy_pass", flaw} : flaw \in {"empty upstream", "no scheme", "bad expression",
                                                  "proxy_redirect from"}}]

MCSettings ==
    {[stapling |-> TRUE, mode |-> "off", ca |-> FALSE, crl |-> "none", depth |-> 0]}
    \cup [stapling : {FALSE}, mode : {"on", "optional", "optional_no_ca"}, ca : BOOLEAN,
          crl : {"none", "listed", "unreadable"}, depth : 0..1]
=============================================================================
