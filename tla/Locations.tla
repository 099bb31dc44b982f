----------------------------- MODULE Locations -----------------------------
(***************************************************************************)
(* Who answers a request: the virtual host for its Host header             *)
(* (server/vhost.go) and the location for its path (matcher/, registered   *)
(* by server/router.go and startSingleMode).  Paths are sequences of       *)
(* characters and host names sequences of labels; both lists are filled    *)
(* while the server starts and only read afterwards.                       *)
(***************************************************************************)
EXTENDS Integers, FiniteSetsExt, SequencesExt

CONSTANTS
    Paths, HostNames,      \* what is registered and what is asked for
    Regexes,               \* expressions: records [paths, hosts], what they match
    LocationNames,         \* for named locations
    MaxLocations, MaxHosts \* bounds: registrations

ASSUME LocAssumption ==
    \A n \in HostNames \cup Paths : n \in Seq(Range(n)) /\ n # <<>>

NoRoute == [type |-> "none", path |-> <<>>]

VARIABLES
    startup,   \* the mode that is being set up, "single" or "vhost"; "serving"; "failed"
    tried,     \* registrations so far
    exact,     \* the paths with an exact location
    tree,      \* per prefix type: [nodes, parent]: the paths in the order of their
               \* registration, and the node below which each one hangs
    regexes,   \* in the order of their registration
    named,
    hosts,     \* per kind of name: name -> server
    regexHosts \* pairs of an expression and a server

locVars == <<startup, tried, exact, tree, regexes, named, hosts, regexHosts>>

PrefixTypes == {"prefix", "prefix_priority"}
HostKinds == {"exact", "suffix", "tld"}

LocInit ==
    /\ startup \in {"single", "vhost"} /\ tried = 0
    /\ exact = {} /\ regexes = <<>> /\ named = {}
    /\ tree = [t \in PrefixTypes |-> [nodes |-> <<>>, parent |-> << >>]]
    /\ hosts = [k \in HostKinds |-> << >>] /\ regexHosts = <<>>

-----------------------------------------------------------------------------
(* A tree: every child carries only what its path has more than the parent's, so
   that a node is known by its whole path; the root is the empty path. *)

\* The places of the children of a node, in the order of their registration.
Children(t, n) == {i \in DOMAIN t.nodes : t.parent[t.nodes[i]] = n}

\* insertNode: down to the first child that begins the path, as long as there is
\* one.  A child that only shares its beginning is never split.
Below(t, path) ==
    LET down[n \in Range(t.nodes) \cup {<<>>}] ==
            LET fits == {i \in Children(t, n) : IsPrefix(t.nodes[i], path)}
            IN IF fits = {} THEN n ELSE down[t.nodes[Min(fits)]]
    IN down[<<>>]

Insert(t, path) ==
    [nodes |-> Append(t.nodes, path),
     parent |-> [p \in DOMAIN t.parent \cup {path} |->
                    IF p = path THEN Below(t, path) ELSE t.parent[p]]]

\* len(node.prefix): what the node itself carries
Own(t, n) == IF n = <<>> THEN 0 ELSE Len(n) - Len(t.parent[n])

\* searchLongest: of a node that begins the path and of what is found below its
\* children that do, what carries most, the first one visited of equals.  All nodes
\* of a tree have one priority.
FindLongestPrefix(t, path) ==
    LET search[n \in Range(t.nodes) \cup {<<>>}] ==
            LET found(i) == IF i = 0 THEN n ELSE search[t.nodes[i]]
                visits == {0} \cup {i \in Children(t, n) : IsPrefix(t.nodes[i], path)}
            IN found(Min({i \in visits : \A j \in visits : Own(t, found(j)) <= Own(t, found(i))}))
    IN search[<<>>]

\* Mutant of Match: expressions are tried before the prefixes with priority.
MatchRegexFirst(path) ==
    LET in(t) == FindLongestPrefix(tree[t], path)
        fits == {i \in DOMAIN regexes : path \in regexes[i].paths}
    IN CASE path \in exact -> [type |-> "exact", path |-> path]
         [] path \notin exact /\ fits # {} -> [type |-> "regex", path |-> regexes[Min(fits)]]
         [] path \notin exact /\ fits = {} /\ in("prefix_priority") # <<>> ->
              [type |-> "prefix_priority", path |-> in("prefix_priority")]
         [] OTHER -> IF in("prefix") = <<>> THEN NoRoute
                     ELSE [type |-> "prefix", path |-> in("prefix")]

\* Named locations are not found by a path; whether a location is internal is
\* carried along and read by nobody.
Match(path) ==
    LET in(t) == FindLongestPrefix(tree[t], path)
        fits == {i \in DOMAIN regexes : path \in regexes[i].paths}
    IN IF path \in exact THEN [type |-> "exact", path |-> path]
       ELSE IF in("prefix_priority") # <<>>
         THEN [type |-> "prefix_priority", path |-> in("prefix_priority")]
       ELSE IF fits # {} THEN [type |-> "regex", path |-> regexes[Min(fits)]]
       ELSE IF in("prefix") # <<>> THEN [type |-> "prefix", path |-> in("prefix")]
       ELSE NoRoute

-----------------------------------------------------------------------------
(* Registration *)

Registering(mode, bound) == startup = mode /\ tried < bound /\ tried' = tried + 1

\* checkConflict: a path is registered once, whatever its type
Conflict(path) ==
    path \in exact \/ \E t \in PrefixTypes : path \in Range(tree[t].nodes)

\* registerRoute, handleRegistrationError: a conflict is skipped with a warning.
AddExact(path) ==
    /\ Registering("single", MaxLocations) /\ UNCHANGED startup
    /\ exact' = IF Conflict(path) THEN exact ELSE exact \cup {path}
    /\ UNCHANGED <<tree, regexes, named, hosts, regexHosts>>

AddPrefix(type, path) ==
    /\ Registering("single", MaxLocations) /\ UNCHANGED startup
    /\ tree' = IF Conflict(path) THEN tree ELSE [tree EXCEPT ![type] = Insert(@, path)]
    /\ UNCHANGED <<exact, regexes, named, hosts, regexHosts>>

AddRegex(r) ==
    /\ Registering("single", MaxLocations) /\ UNCHANGED startup
    /\ regexes' = Append(regexes, r) /\ UNCHANGED <<exact, tree, named, hosts, regexHosts>>

AddNamed(name) ==
    /\ Registering("single", MaxLocations) /\ UNCHANGED startup
    /\ named' = named \cup {name} /\ UNCHANGED <<exact, tree, regexes, hosts, regexHosts>>

\* AddHost: the last server with a name has it; expressions are all kept.
AddHost(kind, name) ==
    /\ Registering("vhost", MaxHosts) /\ UNCHANGED startup
    /\ hosts' = [hosts EXCEPT ![kind] =
          [n \in DOMAIN @ \cup {name} |-> IF n = name THEN tried' ELSE @[n]]]
    /\ UNCHANGED <<exact, tree, regexes, named, regexHosts>>

AddRegexHost(r) ==
    /\ Registering("vhost", MaxHosts) /\ UNCHANGED startup
    /\ regexHosts' = Append(regexHosts, <<r, tried'>>)
    /\ UNCHANGED <<exact, tree, regexes, named, hosts>>

\* An expression that does not compile ends the start.
BadRegex ==
    /\ startup \in {"single", "vhost"} /\ startup' = "failed"
    /\ UNCHANGED <<tried, exact, tree, regexes, named, hosts, regexHosts>>

\* MarkInitialized, Serve
Serve ==
    /\ startup \in {"single", "vhost"} /\ startup' = "serving"
    /\ UNCHANGED <<tried, exact, tree, regexes, named, hosts, regexHosts>>

LocNext ==
    \/ \E p \in Paths : AddExact(p) \/ \E t \in PrefixTypes : AddPrefix(t, p)
    \/ \E r \in Regexes : AddRegex(r) \/ AddRegexHost(r)
    \/ \E n \in LocationNames : AddNamed(n)
    \/ \E k \in HostKinds, h \in HostNames : AddHost(k, h)
    \/ BadRegex \/ Serve

LocSpec == LocInit /\ [][LocNext]_locVars

-----------------------------------------------------------------------------
(* Hosts; server 0 is the default. *)

\* Mutant of WildcardSuffixes: the walk begins behind the second dot.
WildcardSuffixesShort(host) ==
    {i \in 3..Len(host) : SubSeq(host, i, Len(host)) \in DOMAIN hosts["suffix"]}

\* findLongestWildcardPrefix: the places where a registered suffix begins
WildcardSuffixes(host) ==
    {i \in 2..Len(host) : SubSeq(host, i, Len(host)) \in DOMAIN hosts["suffix"]}

\* FindHost; a name like "example.*" is compared with the first label only.
FindHost(host) ==
    LET starts == WildcardSuffixes(host)
        fits == {i \in DOMAIN regexHosts : host \in regexHosts[i][1].hosts}
    IN IF host \in DOMAIN hosts["exact"] THEN hosts["exact"][host]
       ELSE IF starts # {} THEN hosts["suffix"][SubSeq(host, Min(starts), Len(host))]
       ELSE IF Len(host) >= 2 /\ <<host[1]>> \in DOMAIN hosts["tld"]
         THEN hosts["tld"][<<host[1]>>]
       ELSE IF fits # {} THEN regexHosts[Min(fits)][2]
       ELSE 0

-----------------------------------------------------------------------------
Applies(type, l, path) == IF type = "regex" THEN path \in l.paths ELSE IsPrefix(l, path)
Of(type) == IF type = "regex" THEN Range(regexes) ELSE Range(tree[type].nodes)
Fitting(type, path) == {l \in Of(type) : Applies(type, l, path)}

Earlier(s, a, b) == \E i, j \in DOMAIN s : i < j /\ s[i] = a /\ s[j] = b

\* Whatever was registered in whatever order, a path gets a location that
\* applies to it, of the first kind that has one, and none only when none
\* applies; and where the longest prefix was registered before the others it is
\* the one (location.go:201-222, radix.go:114-273).
LocationSound ==
    \A p \in Paths :
        LET m == Match(p)
            kinds == <<"prefix_priority", "regex", "prefix">>
            with == {i \in 1..3 : Fitting(kinds[i], p) # {}}
        IN IF p \in exact THEN m = [type |-> "exact", path |-> p]
           ELSE IF with = {} THEN m = NoRoute
           ELSE LET k == kinds[Min(with)] IN
                /\ m.type = k /\ m.path \in Fitting(k, p)
                /\ k # "regex" =>
                     \A l \in Fitting(k, p) :
                        (\A o \in Fitting(k, p) \ {l} :
                            Len(o) < Len(l) /\ Earlier(tree[k].nodes, l, o))
                          => m.path = l

\* A request gets the server of the most specific name that covers its host: the
\* host itself, then the longest "*.suffix", then "name.*", then the first
\* expression, then the default (vhost.go:149-203).
HostSound ==
    \A h \in HostNames :
        LET s == FindHost(h)
            covers(x) == Len(x) < Len(h) /\ IsSuffix(x, h)
            wide == {x \in DOMAIN hosts["suffix"] : covers(x)}
        IN IF h \in DOMAIN hosts["exact"] THEN s = hosts["exact"][h]
           ELSE IF wide # {}
             THEN \E x \in wide : s = hosts["suffix"][x] /\ \A y \in wide : Len(y) <= Len(x)
           ELSE IF \E x \in DOMAIN hosts["tld"] : IsStrictPrefix(x, h) /\ Len(x) = 1
             THEN s = hosts["tld"][<<Head(h)>>]
           ELSE \/ /\ s = 0
                   /\ \A i \in DOMAIN regexHosts : h \notin regexHosts[i][1].hosts
                \/ \E i \in DOMAIN regexHosts :
                      /\ s = regexHosts[i][2] /\ h \in regexHosts[i][1].hosts
                      /\ \A j \in 1..(i - 1) : h \notin regexHosts[j][1].hosts

\* radix.go:221: "FindLongestPrefix 查找最长前缀匹配。": of the prefixes of a path
\* the longest is found.
LongestPrefix ==
    \A t \in PrefixTypes, p \in Paths :
        \A l \in Fitting(t, p) : Len(l) <= Len(FindLongestPrefix(tree[t], p))
=============================================================================
