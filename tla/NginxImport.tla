---------------------------- MODULE NginxImport ----------------------------
(***************************************************************************)
(* --import: an nginx configuration is parsed (converter/nginx/parser.go), *)
(* converted (converter.go) and validated before it is written             *)
(* (app/import.go).  The parser reads tokens; its includes open further    *)
(* files, whose directives take the place of the include.  A conversion    *)
(* goes through the directives of one server block in their order.         *)
(***************************************************************************)
EXTENDS Integers, FiniteSets, SequencesExt

CONSTANTS
    NginxFiles,       \* the files besides the main one
    MaxDepth,         \* maxDepth
    MaxTokens,        \* bound: tokens of all files
    ServerDirectives, \* directives of a server block other than locations
    NginxLocations,   \* records [path, does]: the directives inside, and what is
                      \* the matter with them
    MaxDirectives     \* bound: directives of a server block

VARIABLES
    job,       \* "parse" or "convert", then how it ended
    files,     \* the files being read: [file, blocks, words, include]; blocks are
               \* the lists of directives of the open blocks, the outermost first
    tokens,    \* read so far
    numbered,     \* directives read so far, apart from includes
    parsed,    \* the result: directives [id, block]
    block,     \* the directives of the server block so far
    server     \* what they were converted to

importVars == <<job, files, tokens, numbered, parsed, block, server>>

FreshFile(f) == [file |-> f, blocks |-> << <<>> >>, open |-> <<>>, words |-> 0, include |-> FALSE]

\* root is set, and climbs if ".." is in it; listens if every address is one;
\* warned counts what has no counterpart.
NoServer == [root |-> FALSE, climbs |-> FALSE, statics |-> <<>>, proxies |-> <<>>,
             rewrites |-> <<>>, tls |-> {}, auth |-> FALSE, level |-> "info",
             listens |-> TRUE, defaults |-> 0, warned |-> 0]

ImportInit ==
    /\ job \in {"parse", "convert"} /\ files = <<FreshFile("main")>> /\ tokens = 0 /\ numbered = 0
    /\ parsed = <<>> /\ block = <<>> /\ server = NoServer

-----------------------------------------------------------------------------
(* The parser *)

Reader == files[Len(files)]
Set(r) == files' = [files EXCEPT ![Len(files)] = r]
Fails == job' = "syntax error" /\ UNCHANGED <<files, numbered, parsed>>

\* The directive that is complete goes to the end of the innermost block.
Added(r, d) == [r EXCEPT !.blocks[Len(r.blocks)] = Append(@, d), !.words = 0]

Reading ==
    /\ job = "parse" /\ tokens < MaxTokens /\ tokens' = tokens + 1
    /\ UNCHANGED <<block, server>>

\* readToken: the first word of a directive is its name.
Word(include) ==
    /\ Reading /\ UNCHANGED <<job, parsed>>
    /\ IF Reader.words > 0
         THEN Set([Reader EXCEPT !.words = 2]) /\ UNCHANGED numbered
         ELSE /\ Set([Reader EXCEPT !.words = 1, !.include = include])
              /\ numbered' = IF include THEN numbered ELSE numbered + 1

\* readQuotedString
Unterminated == Reading /\ Fails

\* The number of the directive being read; an include without a name is a
\* directive like any other.  (An include with a name and a block is left out.)
Number == IF Reader.include THEN numbered + 1 ELSE numbered
Plain == ~(Reader.include /\ Reader.words = 2)

Semicolon ==
    /\ Reading
    /\ IF Reader.words = 0 THEN Fails
       ELSE /\ Plain /\ numbered' = Number /\ UNCHANGED <<job, parsed>>
            /\ Set(Added(Reader, [id |-> Number, block |-> <<>>]))

OpenBlock ==
    /\ Reading
    /\ IF Reader.words = 0 THEN Fails
       ELSE /\ Plain /\ numbered' = Number /\ UNCHANGED <<job, parsed>>
            /\ Set([Reader EXCEPT !.blocks = Append(@, <<>>), !.open = Append(@, Number),
                                  !.words = 0])

\* The file ends, or a "}" closes what was never opened, which ends it as well:
\* what follows is not read.  The directives of an included file take the place
\* of the include.
FileEnds ==
    IF Reader.words > 0 \/ Len(Reader.blocks) > 1 THEN Fails
    ELSE IF Len(files) = 1
      THEN job' = "parsed" /\ parsed' = Reader.blocks[1] /\ UNCHANGED <<files, numbered>>
    ELSE LET above == files[Len(files) - 1]
             n == Len(above.blocks)
         IN /\ files' = [Front(files) EXCEPT ![Len(files) - 1] =
                  [above EXCEPT !.blocks[n] = @ \o Reader.blocks[1], !.words = 0]]
            /\ UNCHANGED <<job, numbered, parsed>>

CloseBlock ==
    /\ Reading
    /\ IF Reader.words > 0 THEN Fails
       ELSE IF Len(Reader.blocks) = 1 THEN FileEnds
       ELSE /\ UNCHANGED <<job, numbered, parsed>>
            /\ Set(Added([Reader EXCEPT !.blocks = Front(@), !.open = Front(@)],
                         [id |-> Last(Reader.open), block |-> Last(Reader.blocks)]))

EndOfFile ==
    job = "parse" /\ tokens > 0 /\ FileEnds /\ UNCHANGED <<tokens, block, server>>

Including == Reader.words = 2 /\ Reader.include

\* Mutant of HandleInclude: only the file itself counts as being read.
HandleIncludeTwice(f) ==
    /\ Reading /\ Including
    /\ IF Len(files) > MaxDepth \/ f = Reader.file THEN Fails
       ELSE files' = Append(files, FreshFile(f)) /\ UNCHANGED <<job, numbered, parsed>>

\* handleInclude: a file that is being read, or too many of them, is an error.
HandleInclude(f) ==
    /\ Reading /\ Including
    /\ IF Len(files) > MaxDepth \/ \E i \in DOMAIN files : files[i].file = f THEN Fails
       ELSE files' = Append(files, FreshFile(f)) /\ UNCHANGED <<job, numbered, parsed>>

\* No file has the name: an error, or a pattern that stands for nothing.
NothingToInclude ==
    /\ Reading /\ Including
    /\ Fails \/ (Set([Reader EXCEPT !.words = 0]) /\ UNCHANGED <<job, numbered, parsed>>)

-----------------------------------------------------------------------------
(* The converter *)

\* classifyLocation: a location with nothing of its own is static where a root
\* has been named, and only if it has been named before.
Classify(l) ==
    IF "proxy_pass" \in l.does THEN "proxy"
    ELSE IF l.does \cap {"root", "alias", "try_files"} # {} THEN "static"
    ELSE IF l.does \cap {"return 301 URL", "return 301"} # {} THEN "redirect"
    ELSE IF server.root THEN "static" ELSE "unsupported"

\* convertProxyDirectives: the targets are those of the upstream named, if there
\* is one of that name; convertProxyRedirect: a "from" alone makes no rule.
ProxyOf(l) ==
    [path |-> l.path, targets |-> "empty upstream" \notin l.does,
     scheme |-> "no scheme" \notin l.does, redirects |-> "proxy_redirect from" \notin l.does,
     compiles |-> "bad expression" \notin l.does]

\* convertStaticDirectives
StaticOf(l) == [path |-> l.path, root |-> "root" \in l.does, alias |-> "alias" \in l.does,
                climbs |-> ".." \in l.does, tries |-> "$uri/file" \notin l.does]

\* convertRedirectDirectives: a return without a URL is passed over.
Redirects(l) == IF "return 301 URL" \in l.does THEN <<"redirect">> ELSE <<>>

\* Mutant of ConvertLocation: what is not supported is passed over.
ConvertLocationQuietly(s, l) ==
    CASE Classify(l) = "proxy" -> [s EXCEPT !.proxies = Append(@, ProxyOf(l))]
      [] Classify(l) = "static" -> [s EXCEPT !.statics = Append(@, StaticOf(l))]
      [] Classify(l) = "redirect" -> [s EXCEPT !.rewrites = @ \o Redirects(l)]
      [] OTHER -> s

\* convertLocation
ConvertLocation(s, l) ==
    CASE Classify(l) = "proxy" -> [s EXCEPT !.proxies = Append(@, ProxyOf(l))]
      [] Classify(l) = "static" -> [s EXCEPT !.statics = Append(@, StaticOf(l))]
      [] Classify(l) = "redirect" -> [s EXCEPT !.rewrites = @ \o Redirects(l)]
      [] OTHER -> [s EXCEPT !.warned = @ + 1]

\* convertServerBlock: a directive of the block, parseRewrite, parseAuthBasic ...
Converted(s, d) ==
    CASE d \in {"root", "root .."} -> [s EXCEPT !.root = TRUE, !.climbs = d = "root .."]
      [] d \in {"ssl_certificate", "ssl_certificate_key"} -> [s EXCEPT !.tls = @ \cup {d}]
      [] d = "auth_basic" -> [s EXCEPT !.auth = TRUE]
      [] d = "error_log crit" -> [s EXCEPT !.level = "crit"]
      [] d = "listen default" -> [s EXCEPT !.defaults = @ + 1]
      [] d = "listen unix" -> [s EXCEPT !.listens = FALSE]
      [] d = "rewrite" -> [s EXCEPT !.rewrites = Append(@, "rewrite")]
      [] d = "rewrite bad flag" -> [s EXCEPT !.rewrites = Append(@, "bad")]
      [] d = "return 404" -> [s EXCEPT !.warned = @ + 1]

Converting(d) ==
    /\ job = "convert" /\ Len(block) < MaxDirectives
    /\ block' = Append(block, d) /\ UNCHANGED <<job, files, tokens, numbered, parsed>>

ConvertDirective(d) ==
    /\ Converting([name |-> d, path |-> "", does |-> {}])
    /\ server' = Converted(server, d)

ConvertLocationBlock(l) ==
    /\ Converting([name |-> "location", path |-> l.path, does |-> l.does])
    /\ server' = ConvertLocation(server, l)

\* The root of the server goes to every static location without one of its own,
\* and to "/".
Rooted(s) ==
    LET filled == [i \in DOMAIN s.statics |->
                     [s.statics[i] EXCEPT !.root = TRUE,
                                          !.climbs = @ \/ (~s.statics[i].root /\ s.climbs)]]
        taken == \E i \in DOMAIN s.statics : s.statics[i].path = "/"
        proxied == \E i \in DOMAIN s.proxies : s.proxies[i].path = "/"
    IN IF ~s.root THEN s
       ELSE [s EXCEPT !.statics = IF taken \/ proxied THEN filled
               ELSE Append(filled, [path |-> "/", root |-> TRUE, alias |-> FALSE,
                                    climbs |-> s.climbs, tries |-> TRUE])]

\* validateServer and validateLogging, of what a conversion can get wrong: paths
\* of static locations, of proxies beside them, the parts of each, listen
\* addresses, TLS, authentication and the level of the error log.
Acceptable(s) ==
    LET places(ls) == [i \in DOMAIN ls |-> ls[i].path] IN
    /\ IsInjective(places(s.statics))
    /\ Range(places(s.statics)) \cap Range(places(s.proxies)) = {}
    /\ \A l \in Range(s.statics) : ~(l.root /\ l.alias) /\ ~l.climbs /\ l.tries
    /\ \A p \in Range(s.proxies) : p.targets /\ p.scheme /\ p.redirects /\ p.compiles
    /\ "bad" \notin Range(s.rewrites)
    /\ Cardinality(s.tls) # 1 /\ ~s.auth /\ s.level # "crit"
    /\ s.listens /\ s.defaults <= 1

\* importNginxConfig
FinishImport ==
    /\ job = "convert" /\ block # <<>> /\ server' = Rooted(server)
    /\ job' = IF Acceptable(server') THEN "imported" ELSE "refused"
    /\ UNCHANGED <<files, tokens, numbered, parsed, block>>

\* convertUpstreamServer: a server of an upstream without an address
Panic ==
    /\ job = "convert" /\ block = <<>> /\ job' = "panic"
    /\ UNCHANGED <<files, tokens, numbered, parsed, block, server>>

ImportNext ==
    \/ \E include \in BOOLEAN : Word(include)
    \/ Unterminated \/ Semicolon \/ OpenBlock \/ CloseBlock \/ EndOfFile
    \/ (\E f \in NginxFiles \cup {"main"} : HandleInclude(f)) \/ NothingToInclude
    \/ (\E d \in ServerDirectives : ConvertDirective(d))
    \/ (\E l \in NginxLocations : ConvertLocationBlock(l))
    \/ FinishImport \/ Panic

ImportSpec == ImportInit /\ [][ImportNext]_importVars

-----------------------------------------------------------------------------
RECURSIVE Preorder(_)
Preorder(ds) ==
    IF ds = <<>> THEN <<>>
    ELSE <<ds[1].id>> \o Preorder(ds[1].block) \o Preorder(Tail(ds))

\* What was parsed is every directive that was read, once and in the order of
\* reading, whichever blocks and files it stood in, and no file is read inside
\* itself (parser.go:108-251).
ParsedInOrder ==
    /\ job = "parsed" => Preorder(parsed) = [i \in 1..numbered |-> i]
    /\ \A i, j \in DOMAIN files : i < j => files[i].file # files[j].file

DirectivesOf(names) == SelectSeq(block, LAMBDA d : d.name \in names)
LocationsOf == DirectivesOf({"location"})

\* Every location of a block becomes a route or a rule, or is warned about, and
\* the root of a server is served at "/" unless a location takes it; only a
\* location that returns 301 without a URL is lost without a word
\* (converter.go:884-886).  An import is refused for what nginx does not know
\* either (an unknown flag, half a certificate, an upstream without servers, a
\* proxy_redirect without a replacement), for two locations of one path, and
\* besides for what nginx does know: basic authentication, an error level such
\* as crit, two default addresses, an address that is no TCP address, a root or
\* an alias with "..", a pattern of try_files such as $uri/index.html, an alias
\* in a server with a root, a target without a scheme, and an expression of a
\* proxied location that Go cannot compile (validate.go:168-600, 1052).
ImportAccounts ==
    /\ job \in {"imported", "refused"} =>
         LET s == server
             routes == s.statics \o [i \in DOMAIN s.proxies |-> [path |-> s.proxies[i].path]]
             rules == Len(SelectSeq(s.rewrites, LAMBDA r : r = "redirect"))
             warned == s.warned - Len(DirectivesOf({"return 404"}))
             lost == Len(SelectSeq(LocationsOf, LAMBDA l : l.does = {"return 301"}))
         IN /\ Len(routes) + rules + warned + lost - Len(LocationsOf)
                 \in (IF s.root THEN {0, 1} ELSE {0})
            /\ s.root => \E i \in DOMAIN routes : routes[i].path = "/"
    /\ job = "refused" =>
         \/ DirectivesOf({"auth_basic", "error_log crit", "rewrite bad flag", "listen unix",
                "ssl_certificate", "ssl_certificate_key", "root .."}) # <<>>
         \/ Len(DirectivesOf({"listen default"})) > 1
         \/ \E i, j \in DOMAIN LocationsOf : i < j /\ LocationsOf[i].path = LocationsOf[j].path
         \/ \E l \in Range(LocationsOf) :
              \/ "alias" \in l.does /\ ("root" \in l.does \/ server.root)
              \/ "proxy_pass" \notin l.does /\ l.does \cap {"..", "$uri/file"} # {}
              \/ "proxy_pass" \in l.does /\ l.does \cap {"empty upstream", "no scheme",
                                               "proxy_redirect from", "bad expression"} # {}
=============================================================================
