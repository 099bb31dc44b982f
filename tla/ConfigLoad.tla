----------------------------- MODULE ConfigLoad -----------------------------
(***************************************************************************)
(* From a configuration file to servers that listen: Load with the files   *)
(* it includes (config/config.go), the rules that join several servers     *)
(* (validate.go) and what the start in each mode makes of them             *)
(* (server/server.go).                                                     *)
(***************************************************************************)
EXTENDS Integers, FiniteSetsExt, SequencesExt

CONSTANTS
    Files,             \* the files other than the main one
    IncludeLists,      \* what a file may include: lists of files, "dir" and "nothing"
    Places,            \* servers validateServer lets through: [host, port, name]; host "" is any
    Modes,             \* the mode of the configuration
    MaxIncludeDepth,
    MaxServers         \* bound: servers in one file

Main == "main"

\* The server of DefaultConfig: HTTP/2 is on, and there is no certificate.
DefaultServer == [host |-> "", port |-> 8080, name |-> "localhost", http2 |-> TRUE]
Entries == Places \cup {DefaultServer}

ASSUME LoadAssumption ==
    /\ IncludeLists \subseteq Seq(Files \cup {Main, "dir", "nothing"})
    /\ IsFiniteSet(Files) /\ MaxIncludeDepth \in Nat /\ MaxServers \in Nat

VARIABLES
    includes, defines, \* per file: what it includes; its servers
    mode,
    loading,           \* "load", "bind", "serving", or why it ended
    frames,            \* processIncludes calls: [file, todo, servers]
    servers,           \* the configuration, once it is loaded
    bound              \* per server: the place whose listener it got

loadVars == <<includes, defines, mode, loading, frames, servers, bound>>

\* A main file without a servers key keeps the server of DefaultConfig.
LoadInit ==
    /\ includes \in [Files \cup {Main} -> IncludeLists]
    /\ defines \in [Files \cup {Main} -> BoundedSeq(Places, MaxServers) \cup {<<DefaultServer>>}]
    /\ \A f \in Files : defines[f] # <<DefaultServer>>
    /\ mode \in Modes
    /\ loading = "load"
    /\ frames = <<[file |-> Main, todo |-> includes[Main], servers |-> defines[Main]]>>
    /\ servers = <<>> /\ bound = <<>>

-----------------------------------------------------------------------------
(* processIncludes *)

Top == frames[Len(frames)]
SetTop(f) == [frames EXCEPT ![Len(frames)] = f]
Visited == {frames[i].file : i \in DOMAIN frames}

End(why) == loading' = why /\ UNCHANGED <<includes, defines, mode, frames, servers, bound>>

\* Mutant of Seen: only the file itself is not included again.
SeenSelf(f) == f = Top.file

\* A file that is being read is included again.
Seen(f) == f \in Visited

\* One entry of the include list: a pattern without a match, a file that cannot
\* be read or that is being read ends the load, a directory is skipped.
Include ==
    /\ loading = "load" /\ Top.todo # <<>>
    /\ LET f == Head(Top.todo)
           rest == [Top EXCEPT !.todo = Tail(@)]
       IN CASE f = "nothing" -> End("no match")
            [] f = "dir" ->
                 /\ frames' = SetTop(rest)
                 /\ UNCHANGED <<includes, defines, mode, loading, servers, bound>>
            [] f \notin {"nothing", "dir"} /\ Seen(f) -> End("cycle")
            [] OTHER ->
                 IF includes[f] # <<>> /\ Len(frames) >= MaxIncludeDepth THEN End("too deep")
                 ELSE /\ frames' = Append(SetTop(rest),
                            [file |-> f, todo |-> includes[f], servers |-> defines[f]])
                      /\ UNCHANGED <<includes, defines, mode, loading, servers, bound>>

Unreadable == loading = "load" /\ Top.todo # <<>> /\ End("unreadable")

\* What a file and its includes define is put behind what the includer has.
Merge ==
    /\ loading = "load" /\ Top.todo = <<>> /\ Len(frames) > 1
    /\ frames' = [Front(frames) EXCEPT ![Len(frames) - 1].servers = @ \o Top.servers]
    /\ UNCHANGED <<includes, defines, mode, loading, servers, bound>>

-----------------------------------------------------------------------------
(* Validate, GetMode *)

GetMode(ss) ==
    IF mode # "auto" THEN mode
    ELSE IF Len(ss) = 1 THEN "single"
    ELSE IF \A i \in DOMAIN ss : ss[i].host = ss[1].host /\ ss[i].port = ss[1].port THEN "vhost"
    ELSE "multi_server"

\* validateListenConflicts: one address may have several servers, of other names.
ListenConflict(ss) ==
    /\ GetMode(ss) = "multi_server"
    /\ \E i, j \in DOMAIN ss : i < j /\ ss[i] = ss[j]

\* validateServer refuses the default server, by validateHTTP2.
Validate ==
    /\ loading = "load" /\ Top.todo = <<>> /\ Len(frames) = 1
    /\ LET ss == Top.servers IN
       IF ss = <<>> \/ ListenConflict(ss) \/ DefaultServer \in Range(ss) THEN End("invalid")
       ELSE /\ servers' = ss /\ loading' = "bind" /\ frames' = <<>>
            /\ UNCHANGED <<includes, defines, mode, bound>>

-----------------------------------------------------------------------------
(* Start *)

\* tcpAddrMatch
Match2(a, b) == a.port = b.port /\ (a.host = b.host \/ a.host = "" \/ b.host = "")

\* Mutant of Bind: the listeners of all servers are looked for before the first.
BindFirst ==
    /\ loading = "bind"
    /\ bound' = [i \in DOMAIN servers |-> 1] /\ loading' = "serving"
    /\ UNCHANGED <<includes, defines, mode, frames, servers>>

\* createListener: several servers, each finds a listener of an earlier one that
\* matches its address, or makes one; else only the first server's address.
Bind ==
    /\ loading = "bind"
    /\ LET i == Len(bound) + 1
           same == {j \in DOMAIN bound : Match2(servers[bound[j]], servers[i])}
       IN IF GetMode(servers) = "multi_server" /\ i <= Len(servers)
          THEN /\ bound' = Append(bound, IF same = {} THEN i ELSE bound[Min(same)])
               /\ UNCHANGED <<includes, defines, mode, loading, frames, servers>>
          ELSE /\ bound' = IF bound = <<>> THEN <<1>> ELSE bound
               /\ loading' = "serving"
               /\ UNCHANGED <<includes, defines, mode, frames, servers>>

LoadNext == Include \/ Unreadable \/ Merge \/ Validate \/ Bind

LoadSpec == LoadInit /\ [][LoadNext]_loadVars

-----------------------------------------------------------------------------
(* Properties *)

\* All that is reached from the main file along the includes, in the order of
\* reading, or the reasons why it cannot be.
Reached ==
    LET none == [bad |-> {}, servers |-> <<>>]
        read[r \in [list : Seq(Files \cup {Main, "dir", "nothing"}), above : SUBSET (Files \cup {Main})]] ==
            IF r.list = <<>> THEN none
            ELSE LET e == Head(r.list)
                     rest == read[[list |-> Tail(r.list), above |-> r.above]]
                     under == read[[list |-> includes[e], above |-> r.above \cup {e}]]
                 IN IF e = "nothing" THEN [rest EXCEPT !.bad = @ \cup {"no match"}]
                    ELSE IF e = "dir" THEN rest
                    ELSE IF e \in r.above THEN [rest EXCEPT !.bad = @ \cup {"cycle"}]
                    ELSE [bad |-> under.bad \cup rest.bad,
                          servers |-> defines[e] \o under.servers \o rest.servers]
        all == read[[list |-> includes[Main], above |-> {Main}]]
    IN [all EXCEPT !.servers = defines[Main] \o @]

\* A configuration that was loaded holds what all its files define, each as
\* often as it is included, and no file includes itself; it is refused only for
\* a cycle, a pattern without files or too deep a nesting that it has, and a
\* cycle is called one
\* (config.go:131-245).
IncludesExact ==
    /\ loading \in {"bind", "serving"} =>
         Reached.bad = {} /\ servers = Reached.servers
    /\ loading \in {"cycle", "no match"} => loading \in Reached.bad
    /\ loading = "too deep" => Head(Top.todo) \notin Visited

\* Where a connection to an address may end: at any server whose listener takes
\* it; with virtual hosts the one with the name, or else the first.
Answering(a) ==
    IF GetMode(servers) = "multi_server"
    THEN {i \in DOMAIN servers :
            LET b == servers[bound[i]] IN b.port = a.port /\ b.host \in {"", a.host}}
    ELSE IF servers[1].port # a.port \/ servers[1].host \notin {"", a.host} THEN {}
    ELSE IF GetMode(servers) = "single" THEN {1}
    ELSE LET named == {i \in DOMAIN servers : servers[i].name = a.name}
         IN {IF named = {} THEN 1 ELSE Max(named)}

\* In every mode the configuration chose by itself, a server that validation
\* let through can be reached at the address it names; the exception is a server
\* for any address behind one for a single address of the same port, which gets
\* the other's listener (server.go:356-377, 715-735).
ServersReachable ==
    loading = "serving" /\ mode = "auto" =>
        \A i \in DOMAIN servers :
            LET a == servers[i] IN
            /\ \/ Answering(a) # {}
               \/ a.host = "" /\ \E j \in 1..(i - 1) : servers[j].port = a.port /\ servers[j].host # ""
            /\ GetMode(servers) = "vhost" => \A j \in Answering(a) : servers[j].name = a.name
=============================================================================
