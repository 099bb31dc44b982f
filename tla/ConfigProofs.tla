---------------------------- MODULE ConfigProofs ----------------------------
(***************************************************************************)
(* Proofs about what a configuration becomes, whatever it holds: the       *)
(* addresses its servers are bound to, what the start makes of what        *)
(* Validate accepts, the server a host name leads to, and the location a   *)
(* path leads to.                                                          *)
(***************************************************************************)
EXTENDS ConfigLoad, ConfigRules, Locations, CountingTheorems

-----------------------------------------------------------------------------
(* Loading the configuration and binding its servers *)

Includable == Files \cup {Main, "dir", "nothing"}
FrameSet == [file : Files \cup {Main}, todo : Seq(Includable), servers : Seq(Entries)]

\* A configuration that is loaded is a list of servers that is not empty, and
\* the load works on a stack of frames.
LoadTyped ==
  /\ includes \in [Files \cup {Main} -> Seq(Includable)]
  /\ defines \in [Files \cup {Main} -> Seq(Entries)]
  /\ loading = "load" => frames \in Seq(FrameSet) /\ frames # <<>>
  /\ loading \in {"bind", "serving"} => servers \in Seq(Entries) /\ servers # <<>>

\* A listener was made for a server that is not behind the one it was given to,
\* at an address that matches.
ListenersMatch ==
  /\ bound \in Seq(Nat) /\ Len(bound) <= Len(servers)
  /\ \A i \in DOMAIN bound :
       bound[i] \in 1..i /\ Match2(servers[bound[i]], servers[i])

ListenersGiven ==
  /\ loading = "load" => bound = <<>>
  /\ loading \in {"bind", "serving"} /\ GetMode(servers) = "multi_server" => ListenersMatch
  /\ loading = "serving" /\ GetMode(servers) = "multi_server" => Len(bound) = Len(servers)

LoadInv == LoadTyped /\ ListenersGiven

LEMMA LoadStarts == LoadInit => LoadInv
<1> SUFFICES ASSUME LoadInit PROVE LoadInv
  OBVIOUS
<1>1. includes \in [Files \cup {Main} -> Seq(Includable)]
  BY LoadAssumption DEF LoadInit, Includable
<1>2. \A s \in BoundedSeq(Places, MaxServers) \cup {<<DefaultServer>>} : s \in Seq(Entries)
  <2>1. \A s \in BoundedSeq(Places, MaxServers) : s \in Seq(Entries)
    BY LoadAssumption DEF BoundedSeq, SeqOf, Entries
  <2>2. DefaultServer \in Entries
    BY DEF Entries
  <2>3. <<DefaultServer>> \in Seq(Entries)
    BY <2>2
  <2> QED
    BY <2>1, <2>3
<1>3. defines \in [Files \cup {Main} -> Seq(Entries)]
  BY <1>2 DEF LoadInit
<1>4. frames \in Seq(FrameSet) /\ frames # <<>>
  BY <1>1, <1>3 DEF LoadInit, FrameSet
<1> QED
  BY <1>1, <1>3, <1>4 DEF LoadInit, LoadInv, LoadTyped, ListenersGiven

LEMMA LoadEnds ==
  ASSUME LoadInv, NEW why \in {"no match", "cycle", "too deep", "unreadable", "invalid"}, End(why)
  PROVE  LoadInv'
BY DEF LoadInv, LoadTyped, ListenersGiven, End

LEMMA LoadFrames ==
  ASSUME LoadInv, loading = "load", frames' \in Seq(FrameSet), frames' # <<>>,
         UNCHANGED <<includes, defines, mode, loading, servers, bound>>
  PROVE  LoadInv'
BY DEF LoadInv, LoadTyped, ListenersGiven

\* The fields of a frame, and what changing one of them gives.
LEMMA FrameFields ==
  ASSUME NEW fr \in FrameSet
  PROVE  /\ fr.todo \in Seq(Includable) /\ fr.servers \in Seq(Entries)
         /\ \A t \in Seq(Includable) : [fr EXCEPT !.todo = t] \in FrameSet
         /\ \A t \in Seq(Entries) : [fr EXCEPT !.servers = t] \in FrameSet
BY DEF FrameSet

LEMMA LoadIncludes ==
  ASSUME LoadInv, Include \/ Unreadable \/ Merge
  PROVE  LoadInv'
<1>1. loading = "load" /\ frames \in Seq(FrameSet) /\ frames # <<>>
  BY DEF LoadInv, LoadTyped, Include, Unreadable, Merge
<1>2. Len(frames) \in 1..Len(frames) /\ Top \in FrameSet
  BY <1>1 DEF Top
<1>3. CASE Unreadable
  BY <1>3, LoadEnds DEF Unreadable
<1>4. CASE Include
  <2> DEFINE f == Head(Top.todo)
             rest == [Top EXCEPT !.todo = Tail(@)]
  <2>1. Top.todo \in Seq(Includable) /\ Top.todo # <<>> /\ f \in Includable
    <3>1. Top.todo \in Seq(Includable) /\ Top.todo # <<>>
      BY <1>2, <1>4, FrameFields DEF Include
    <3> QED
      BY <3>1, HeadTailProperties
  <2>2. rest \in FrameSet
    <3>1. Tail(Top.todo) \in Seq(Includable)
      BY <2>1, HeadTailProperties
    <3> QED
      BY <1>2, <3>1, FrameFields
  <2>3. SetTop(rest) \in Seq(FrameSet) /\ SetTop(rest) # <<>>
    BY <1>1, <1>2, <2>2, ExceptSeq DEF SetTop
  <2>4. CASE f = "nothing"
    BY <1>4, <2>4, LoadEnds DEF Include
  <2>5. CASE f = "dir"
    <3>1. frames' = SetTop(rest) /\ UNCHANGED <<includes, defines, mode, loading, servers, bound>>
      BY <1>4, <2>5 DEF Include
    <3> QED
      BY <1>1, <2>3, <3>1, LoadFrames
  <2>6. CASE f \notin {"nothing", "dir"} /\ Seen(f)
    BY <1>4, <2>6, LoadEnds DEF Include
  <2>7. CASE f \notin {"nothing", "dir"} /\ ~Seen(f)
    <3>1. \/ End("too deep")
          \/ /\ frames' = Append(SetTop(rest),
                            [file |-> f, todo |-> includes[f], servers |-> defines[f]])
             /\ UNCHANGED <<includes, defines, mode, loading, servers, bound>>
      BY <1>4, <2>7 DEF Include
    <3>2. [file |-> f, todo |-> includes[f], servers |-> defines[f]] \in FrameSet
      BY <2>1, <2>7 DEF FrameSet, Includable, LoadInv, LoadTyped
    <3> HIDE DEF f, rest
    <3>3. CASE End("too deep")
      BY <3>3, LoadEnds
    <3>4. CASE ~End("too deep")
      <4>1. frames' \in Seq(FrameSet) /\ frames' # <<>>
        <5>1. \A fr \in FrameSet : /\ Append(SetTop(rest), fr) \in Seq(FrameSet)
                                 /\ Append(SetTop(rest), fr) # <<>>
          BY <2>3, AppendProperties
        <5> QED
          BY <3>1, <3>2, <3>4, <5>1, Zenon
      <4> QED
        BY <1>1, <3>1, <3>4, <4>1, LoadFrames
    <3> QED
      BY <3>3, <3>4
  <2> QED
    BY <2>4, <2>5, <2>6, <2>7
<1>5. CASE Merge
  <2>1. Len(frames) > 1
        /\ frames' = [Front(frames) EXCEPT ![Len(frames) - 1].servers = @ \o Top.servers]
        /\ UNCHANGED <<includes, defines, mode, loading, servers, bound>>
    BY <1>5 DEF Merge
  <2> DEFINE s == Front(frames)
             n == Len(frames) - 1
  <2>2. s \in Seq(FrameSet) /\ Len(s) = n /\ n \in 1..n
    BY <1>1, <2>1 DEF Front
  <2>3. s[n] \in FrameSet
    BY <2>2
  <2>4. [s[n] EXCEPT !.servers = @ \o Top.servers] \in FrameSet
    <3>1. s[n].servers \o Top.servers \in Seq(Entries)
      BY <1>2, <2>3, FrameFields, ConcatProperties
    <3> QED
      BY <2>3, <3>1, FrameFields
  <2>5. frames' = [s EXCEPT ![n] = [s[n] EXCEPT !.servers = @ \o Top.servers]]
    BY <2>1
  <2> HIDE DEF s, n
  <2>6. frames' \in Seq(FrameSet) /\ frames' # <<>>
    <3>1. \A fr \in FrameSet : /\ [s EXCEPT ![n] = fr] \in Seq(FrameSet)
                             /\ [s EXCEPT ![n] = fr] # <<>>
      BY <2>2
    <3> QED
      BY <2>4, <2>5, <3>1, Zenon
  <2> QED
    BY <1>1, <2>1, <2>6, LoadFrames
<1> QED
  BY <1>3, <1>4, <1>5

LEMMA LoadValidates ==
  ASSUME LoadInv, Validate
  PROVE  LoadInv'
<1>1. loading = "load" /\ frames \in Seq(FrameSet) /\ frames # <<>> /\ bound = <<>>
  BY DEF LoadInv, LoadTyped, ListenersGiven, Validate
<1>2. Top.servers \in Seq(Entries)
  BY <1>1, FrameFields DEF Top
<1>3. CASE End("invalid")
  BY <1>3, LoadEnds
<1>4. CASE ~End("invalid")
  <2>1. servers' = Top.servers /\ servers' # <<>> /\ loading' = "bind"
        /\ UNCHANGED <<includes, defines, mode, bound>>
    BY <1>4 DEF Validate
  <2> QED
    BY <1>1, <1>2, <2>1 DEF LoadInv, LoadTyped, ListenersGiven, ListenersMatch
<1> QED
  BY <1>3, <1>4

LEMMA LoadBinds ==
  ASSUME LoadInv, Bind
  PROVE  LoadInv'
<1> DEFINE i == Len(bound) + 1
           same == {j \in DOMAIN bound : Match2(servers[bound[j]], servers[i])}
<1>1. loading = "bind" /\ servers \in Seq(Entries) /\ servers # <<>>
      /\ UNCHANGED <<includes, defines, mode, frames, servers>>
  BY DEF LoadInv, LoadTyped, Bind
<1>2. GetMode(servers)' = GetMode(servers)
  BY <1>1 DEF GetMode
<1>3. CASE GetMode(servers) # "multi_server"
  BY <1>1, <1>2, <1>3 DEF LoadInv, LoadTyped, ListenersGiven, Bind
<1>4. CASE GetMode(servers) = "multi_server" /\ i <= Len(servers)
  <2> DEFINE x == IF same = {} THEN i ELSE bound[Min(same)]
  <2>1. bound' = Append(bound, x) /\ loading' = loading
    BY <1>1, <1>4, Zenon DEF Bind
  <2>2. ListenersMatch
    BY <1>1, <1>4 DEF LoadInv, ListenersGiven
  <2>3. i \in Nat /\ i \in DOMAIN servers /\ Len(bound) \in Nat /\ bound \in Seq(Nat)
    BY <1>1, <1>4, <2>2 DEF ListenersMatch
  <2>4. x \in 1..i /\ Match2(servers[x], servers[i])
    <3>1. CASE same = {}
      <4>1. x = i
        BY <3>1
      <4>2. i \in 1..i
        BY <2>3
      <4>3. Match2(servers[i], servers[i])
        BY Zenon DEF Match2
      <4> HIDE DEF x, i
      <4> QED
        BY <4>1, <4>2, <4>3
    <3>2. CASE same # {}
      <4>1. same \in SUBSET (1..Len(bound))
        BY <2>3
      <4>2. Min(same) \in same
        BY <2>3, <3>2, <4>1, FirstPosition
      <4>3. bound[Min(same)] \in 1..Min(same) /\ Min(same) \in 1..Len(bound)
        BY <2>2, <4>1, <4>2 DEF ListenersMatch
      <4> QED
        BY <2>3, <3>2, <4>2, <4>3
    <3> QED
      BY <3>1, <3>2
  <2> HIDE DEF same, x
  <2>5. /\ bound' \in Seq(Nat) /\ Len(bound') = i
        /\ \A k \in 1..Len(bound) : bound'[k] = bound[k]
        /\ bound'[i] = x
    BY <2>1, <2>3, <2>4, AppendProperties
  <2>6. ListenersMatch'
    <3>1. ASSUME NEW k \in 1..i
          PROVE  bound'[k] \in 1..k /\ Match2(servers[bound'[k]], servers[k])
      <4>1. CASE k = i
        BY <2>4, <2>5, <4>1
      <4>2. CASE k # i
        <5>1. k \in 1..Len(bound) /\ k \in DOMAIN bound
          BY <2>3, <4>2
        <5> QED
          BY <2>2, <2>5, <5>1 DEF ListenersMatch
      <4> QED
        BY <4>1, <4>2
    <3>2. DOMAIN bound' = 1..i
      BY <2>5
    <3> HIDE DEF i
    <3> QED
      BY <1>1, <1>4, <2>5, <3>1, <3>2 DEF ListenersMatch, Match2
  <2> QED
    BY <1>1, <1>2, <1>4, <2>1, <2>6 DEF LoadInv, LoadTyped, ListenersGiven
<1>5. CASE GetMode(servers) = "multi_server" /\ ~(i <= Len(servers))
  <2>1. bound' = (IF bound = <<>> THEN <<1>> ELSE bound) /\ loading' = "serving"
    BY <1>1, <1>5, Zenon DEF Bind
  <2>2. ListenersMatch
    BY <1>1, <1>5 DEF LoadInv, ListenersGiven
  <2>3. Len(bound) = Len(servers) /\ bound # <<>>
    BY <1>1, <1>5, <2>2 DEF ListenersMatch
  <2>4. ListenersMatch'
    BY <1>1, <2>1, <2>2, <2>3 DEF ListenersMatch, Match2
  <2> QED
    BY <1>1, <1>2, <1>5, <2>1, <2>3, <2>4 DEF LoadInv, LoadTyped, ListenersGiven
<1> QED
  BY <1>3, <1>4, <1>5

LEMMA LoadInductive == LoadInv /\ [LoadNext]_loadVars => LoadInv'
<1>1. ASSUME LoadInv, UNCHANGED loadVars PROVE LoadInv'
  BY <1>1 DEF loadVars, LoadInv, LoadTyped, ListenersGiven, ListenersMatch, GetMode, Match2
<1> QED
  BY <1>1, LoadIncludes, LoadValidates, LoadBinds DEF LoadNext

\* With several listeners each server has one that takes its own address, or the
\* one of an earlier server for a single address.
LEMMA ReachedMulti ==
  ASSUME LoadInv, loading = "serving", GetMode(servers) = "multi_server",
         NEW i \in DOMAIN servers
  PROVE  \/ Answering(servers[i]) # {}
         \/ /\ servers[i].host = ""
            /\ \E j \in 1..(i - 1) : servers[j].port = servers[i].port /\ servers[j].host # ""
<1>1. ListenersMatch /\ servers \in Seq(Entries) /\ Len(bound) = Len(servers)
  BY DEF LoadInv, LoadTyped, ListenersGiven
<1>2. i \in DOMAIN bound /\ i \in Nat
  BY <1>1 DEF ListenersMatch
<1>3. bound[i] \in 1..i /\ Match2(servers[bound[i]], servers[i])
  BY <1>1, <1>2 DEF ListenersMatch
<1>4. CASE servers[bound[i]].host \in {"", servers[i].host}
  <2>1. i \in Answering(servers[i])
    BY <1>3, <1>4 DEF Answering, Match2
  <2> QED
    BY <2>1
<1>5. CASE servers[bound[i]].host \notin {"", servers[i].host}
  <2>1. servers[i].host = "" /\ servers[bound[i]].port = servers[i].port
    BY <1>3, <1>5 DEF Match2
  <2>2. bound[i] \in 1..(i - 1)
    <3>1. bound[i] # i
      BY <1>5
    <3> QED
      BY <1>2, <1>3, <3>1
  <2> QED
    BY <1>5, <2>1, <2>2
<1> QED
  BY <1>4, <1>5

\* With one listener everybody names its address, and a server is told from the
\* others by its name.
LEMMA ReachedSingle ==
  ASSUME LoadInv, loading = "serving", mode = "auto", GetMode(servers) # "multi_server",
         NEW i \in DOMAIN servers
  PROVE  /\ Answering(servers[i]) # {}
         /\ GetMode(servers) = "vhost" =>
              \A j \in Answering(servers[i]) : servers[j].name = servers[i].name
<1> DEFINE ofName == {j \in DOMAIN servers : servers[j].name = servers[i].name}
<1>1. servers \in Seq(Entries) /\ DOMAIN servers = 1..Len(servers) /\ Len(servers) \in Nat
  BY DEF LoadInv, LoadTyped
<1>2. servers[i].host = servers[1].host /\ servers[i].port = servers[1].port
  BY <1>1 DEF GetMode
<1>3. ofName \in SUBSET (1..Len(servers)) /\ ofName # {}
  BY <1>1
<1>4. Max(ofName) \in ofName
  BY <1>1, <1>3, LastPosition
<1>5. CASE GetMode(servers) = "single"
  BY <1>2, <1>5 DEF Answering
<1>6. CASE GetMode(servers) # "single"
  <2>1. Answering(servers[i]) = {IF ofName = {} THEN 1 ELSE Max(ofName)}
    BY <1>2, <1>6 DEF Answering
  <2> QED
    BY <1>3, <1>4, <2>1
<1> QED
  BY <1>5, <1>6

\* For any files, includes and servers: in the mode the configuration chooses by
\* itself every server is reached at the address it names, apart from a server
\* for any address behind one for a single address of the same port.
THEOREM LoadServersReachable == LoadSpec => []ServersReachable
<1>1. LoadInv => ServersReachable
  BY ReachedMulti, ReachedSingle, Zenon DEF ServersReachable
<1> QED
  BY <1>1, LoadStarts, LoadInductive, PTL DEF LoadSpec

-----------------------------------------------------------------------------
(* What the includes make of the files *)

\* Lists of includes that are read below some files, and what that may give.
Readings == [list : Seq(Includable), above : SUBSET (Files \cup {Main})]
Results == [bad : SUBSET {"no match", "cycle"}, servers : Seq(Entries)]
Nothing == [bad |-> {}, servers |-> <<>>]

\* One level of the recursion of Reached.
ReadFrom(inc, def, h, r) ==
  IF r.list = <<>> THEN Nothing
  ELSE LET e == Head(r.list)
           rest == h[[list |-> Tail(r.list), above |-> r.above]]
           under == h[[list |-> inc[e], above |-> r.above \cup {e}]]
       IN IF e = "nothing" THEN [rest EXCEPT !.bad = @ \cup {"no match"}]
          ELSE IF e = "dir" THEN rest
          ELSE IF e \in r.above THEN [rest EXCEPT !.bad = @ \cup {"cycle"}]
          ELSE [bad |-> under.bad \cup rest.bad,
                servers |-> def[e] \o under.servers \o rest.servers]

Reading(inc, def) == CHOOSE h : h = [r \in Readings |-> ReadFrom(inc, def, h, r)]

Rest(inc, def, list, above) == Reading(inc, def)[[list |-> list, above |-> above]]

LEMMA ReachedIs ==
  Reached = [Rest(includes, defines, includes[Main], {Main}) EXCEPT !.servers = defines[Main] \o @]
BY Zenon DEF Reached, Rest, Reading, ReadFrom, Readings, Includable, Nothing

Givens(inc, def) ==
  inc \in [Files \cup {Main} -> Seq(Includable)] /\ def \in [Files \cup {Main} -> Seq(Entries)]

\* What is read next has less to read, or fewer files that may be read.
LEMMA ReadsLess ==
  ASSUME NEW inc, NEW def, Givens(inc, def)
  PROVE  \E rank \in [Readings -> Nat] :
           \A r \in Readings : r.list # <<>> =>
             LET e == Head(r.list)
                 rest == [list |-> Tail(r.list), above |-> r.above]
                 under == [list |-> inc[e], above |-> r.above \cup {e}]
             IN /\ rest \in Readings /\ rank[rest] < rank[r]
                /\ e \notin {"nothing", "dir"} /\ e \notin r.above =>
                     under \in Readings /\ rank[under] < rank[r] /\ def[e] \in Seq(Entries)
<1> DEFINE All == Files \cup {Main}
           w == [f \in All |-> Len(inc[f])]
<1>1. IsFiniteSet(All)
  BY LoadAssumption, FS_AddElement
<1>2. w \in [All -> Nat]
  BY DEF Givens
<1>3. PICK K \in Nat : \A f \in All : w[f] < K
  <2> HIDE DEF w, All
  <2> QED
    BY <1>1, <1>2, BoundOf
<1> DEFINE left(r) == Cardinality(All \ r.above)
           rank == [r \in Readings |-> left(r) * K + Len(r.list)]
<1>4. ASSUME NEW r \in Readings
      PROVE  left(r) \in Nat /\ Len(r.list) \in Nat /\ r.list \in Seq(Includable) /\ r.above \in SUBSET All
  <2>1. r.list \in Seq(Includable) /\ r.above \in SUBSET All
    BY DEF Readings
  <2>2. IsFiniteSet(All \ r.above)
    BY <1>1, FS_Difference
  <2> HIDE DEF All
  <2> QED
    BY <2>1, <2>2, FS_CardinalityType
<1>5. rank \in [Readings -> Nat]
  <2>1. ASSUME NEW r \in Readings PROVE left(r) * K + Len(r.list) \in Nat
    <3> HIDE DEF left
    <3> QED
      BY <1>4
  <2> QED
    BY <2>1
<1>6. \A r \in Readings : rank[r] = left(r) * K + Len(r.list)
  OBVIOUS
<1> HIDE DEF rank
<1>7. ASSUME NEW r \in Readings, r.list # <<>>
      PROVE  LET e == Head(r.list)
                 rest == [list |-> Tail(r.list), above |-> r.above]
                 under == [list |-> inc[e], above |-> r.above \cup {e}]
             IN /\ rest \in Readings /\ rank[rest] < rank[r]
                /\ e \notin {"nothing", "dir"} /\ e \notin r.above =>
                     under \in Readings /\ rank[under] < rank[r] /\ def[e] \in Seq(Entries)
  <2> DEFINE e == Head(r.list)
             rest == [list |-> Tail(r.list), above |-> r.above]
             under == [list |-> inc[e], above |-> r.above \cup {e}]
  <2>1. e \in Includable /\ Tail(r.list) \in Seq(Includable) /\ Len(Tail(r.list)) = Len(r.list) - 1
    BY <1>4, <1>7, HeadTailProperties
  <2>2. rest \in Readings /\ rank[rest] < rank[r]
    <3>1. rest \in Readings /\ rest.list = Tail(r.list) /\ left(rest) = left(r)
      BY <1>4, <2>1 DEF Readings
    <3>2. rank[rest] = left(r) * K + Len(Tail(r.list)) /\ rank[r] = left(r) * K + Len(r.list)
      BY <1>6, <3>1
    <3>3. left(r) * K \in Nat
      BY <1>4
    <3> DEFINE a == left(r) * K
    <3> HIDE DEF a
    <3>4. a + Len(Tail(r.list)) < a + Len(r.list)
      BY <1>4, <2>1, <3>3 DEF a
    <3> QED
      BY <3>1, <3>2, <3>4 DEF a
  <2>3. ASSUME e \notin {"nothing", "dir"}, e \notin r.above
        PROVE  under \in Readings /\ rank[under] < rank[r] /\ def[e] \in Seq(Entries)
    <3>1. e \in All
      BY <2>1, <2>3 DEF Includable
    <3>2. inc[e] \in Seq(Includable) /\ def[e] \in Seq(Entries) /\ Len(inc[e]) \in Nat
      BY <3>1 DEF Givens
    <3>3. under \in Readings /\ under.list = inc[e] /\ under.above = r.above \cup {e}
      BY <1>4, <3>1, <3>2 DEF Readings
    <3>4. Len(inc[e]) < K
      BY <1>3, <3>1
    <3>5. left(under) \in Nat /\ left(under) < left(r)
      <4>1. All \ under.above = (All \ r.above) \ {e} /\ e \in All \ r.above
        BY <2>3, <3>1, <3>3
      <4>2. IsFiniteSet(All \ r.above)
        BY <1>1, FS_Difference
      <4>3. left(under) = left(r) - 1
        <5> DEFINE T == All \ r.above
        <5>1. left(r) = Cardinality(T) /\ left(under) = Cardinality(T \ {e}) /\ e \in T
          BY <4>1
        <5> HIDE DEF T, left
        <5>2. Cardinality(T \ {e}) = Cardinality(T) - 1
          BY ONLY <4>2, <5>1, FS_RemoveElement DEF T
        <5> QED
          BY ONLY <5>1, <5>2
      <4>4. left(under) \in Nat
        BY <1>4, <3>3
      <4> HIDE DEF left
      <4> QED
        BY <1>4, <4>3, <4>4
    <3>6. rank[under] = left(under) * K + Len(inc[e]) /\ rank[r] = left(r) * K + Len(r.list)
      BY <1>6, <3>3
    <3> DEFINE d == left(under)
               c == left(r)
               l == Len(inc[e])
               k == Len(r.list)
    <3>7. c \in Nat /\ d \in Nat /\ d < c /\ l \in Nat /\ k \in Nat /\ l < K
      BY <1>4, <3>2, <3>4, <3>5
    <3> HIDE DEF c, d, l, k
    <3>8. d * K + l < c * K + k
      BY <3>7, FirstThenSecond
    <3> QED
      BY <3>2, <3>3, <3>6, <3>8 DEF c, d, l, k
  <2> QED
    BY <2>2, <2>3
<1> QED
  BY <1>5, <1>7

LEMMA ResultFields ==
  ASSUME NEW x \in Results
  PROVE  /\ x.bad \in SUBSET {"no match", "cycle"} /\ x.servers \in Seq(Entries)
         /\ \A b \in {"no match", "cycle"} :
              [x EXCEPT !.bad = @ \cup {b}] \in Results /\ [x EXCEPT !.bad = @ \cup {b}].bad = x.bad \cup {b}
BY DEF Results

LEMMA NothingRead == Nothing \in Results /\ Nothing.bad = {} /\ Nothing.servers = <<>>
BY DEF Nothing, Results

LEMMA ReadTyped ==
  ASSUME NEW inc, NEW def, NEW h, NEW r \in Readings,
         r.list # <<>> =>
           LET e == Head(r.list)
               rest == [list |-> Tail(r.list), above |-> r.above]
               under == [list |-> inc[e], above |-> r.above \cup {e}]
           IN /\ h[rest] \in Results
              /\ e \notin {"nothing", "dir"} /\ e \notin r.above =>
                   h[under] \in Results /\ def[e] \in Seq(Entries)
  PROVE  ReadFrom(inc, def, h, r) \in Results
<1> DEFINE e == Head(r.list)
           rest == h[[list |-> Tail(r.list), above |-> r.above]]
           under == h[[list |-> inc[e], above |-> r.above \cup {e}]]
           v == ReadFrom(inc, def, h, r)
           free == e \notin {"nothing", "dir"} /\ e \notin r.above
<1>1. r.list # <<>> => rest \in Results /\ (free => under \in Results /\ def[e] \in Seq(Entries))
  OBVIOUS
<1>2. v = IF r.list = <<>> THEN Nothing
          ELSE IF e = "nothing" THEN [rest EXCEPT !.bad = @ \cup {"no match"}]
          ELSE IF e = "dir" THEN rest
          ELSE IF e \in r.above THEN [rest EXCEPT !.bad = @ \cup {"cycle"}]
          ELSE [bad |-> under.bad \cup rest.bad,
                servers |-> def[e] \o under.servers \o rest.servers]
  BY Zenon DEF ReadFrom
<1>3. free <=> e # "nothing" /\ e # "dir" /\ e \notin r.above
  OBVIOUS
<1> HIDE DEF e, rest, under, v, free
<1>4. Nothing \in Results
  BY NothingRead
<1>5. ASSUME r.list # <<>>, free
      PROVE  [bad |-> under.bad \cup rest.bad, servers |-> def[e] \o under.servers \o rest.servers] \in Results
  <2>1. def[e] \o under.servers \o rest.servers \in Seq(Entries)
    <3>1. def[e] \in Seq(Entries) /\ under.servers \in Seq(Entries) /\ rest.servers \in Seq(Entries)
      BY <1>1, <1>5, ResultFields
    <3> QED
      BY ONLY <3>1
  <2>2. under.bad \cup rest.bad \in SUBSET {"no match", "cycle"}
    BY <1>1, <1>5, ResultFields
  <2> QED
    BY <2>1, <2>2 DEF Results
<1>6. ASSUME r.list # <<>>
      PROVE [rest EXCEPT !.bad = @ \cup {"no match"}] \in Results /\ [rest EXCEPT !.bad = @ \cup {"cycle"}] \in Results
  BY <1>1, <1>6, ResultFields
<1> QED
  BY <1>1, <1>2, <1>3, <1>4, <1>5, <1>6, Zenon DEF v

LEMMA ReadingExists ==
  ASSUME NEW inc, NEW def, Givens(inc, def)
  PROVE  \E h : h = [r \in Readings |-> ReadFrom(inc, def, h, r)]
<1> DEFINE D == Readings
           G == [x \in D \X [D -> Results] |-> ReadFrom(inc, def, x[2], x[1])]
<1>1. PICK rank \in [D -> Nat] :
        \A r \in D : r.list # <<>> =>
          LET e == Head(r.list)
              rest == [list |-> Tail(r.list), above |-> r.above]
              under == [list |-> inc[e], above |-> r.above \cup {e}]
          IN /\ rest \in D /\ rank[rest] < rank[r]
             /\ e \notin {"nothing", "dir"} /\ e \notin r.above =>
                  under \in D /\ rank[under] < rank[r] /\ def[e] \in Seq(Entries)
  BY ReadsLess
<1> HIDE DEF D
<1>2. ASSUME NEW r \in D, NEW h \in [D -> Results] PROVE ReadFrom(inc, def, h, r) \in Results
  <2>1. r.list # <<>> =>
           LET e == Head(r.list)
               rest == [list |-> Tail(r.list), above |-> r.above]
               under == [list |-> inc[e], above |-> r.above \cup {e}]
           IN /\ h[rest] \in Results
              /\ e \notin {"nothing", "dir"} /\ e \notin r.above =>
                   h[under] \in Results /\ def[e] \in Seq(Entries)
    BY <1>1
  <2> QED
    BY <2>1, ReadTyped DEF D
<1>3. G \in [D \X [D -> Results] -> Results]
      /\ \A r \in D, h \in [D -> Results] : G[<<r, h>>] = ReadFrom(inc, def, h, r)
  BY <1>2
<1> HIDE DEF G
<1>4. Descends(D, Results, rank, G)
  <2> SUFFICES ASSUME NEW r \in D, NEW f \in [D -> Results], NEW g \in [D -> Results],
                      \A y \in D : rank[y] < rank[r] => f[y] = g[y]
               PROVE  G[<<r, f>>] = G[<<r, g>>]
    BY DEF Descends
  <2> DEFINE e == Head(r.list)
             rest == [list |-> Tail(r.list), above |-> r.above]
             under == [list |-> inc[e], above |-> r.above \cup {e}]
  <2>1. r.list # <<>> => /\ f[rest] = g[rest]
                         /\ e \notin {"nothing", "dir"} /\ e \notin r.above => f[under] = g[under]
    BY <1>1
  <2>2. ASSUME NEW h
        PROVE  ReadFrom(inc, def, h, r) =
                 IF r.list = <<>> THEN Nothing
                 ELSE IF e = "nothing" THEN [h[rest] EXCEPT !.bad = @ \cup {"no match"}]
                 ELSE IF e = "dir" THEN h[rest]
                 ELSE IF e \in r.above THEN [h[rest] EXCEPT !.bad = @ \cup {"cycle"}]
                 ELSE [bad |-> h[under].bad \cup h[rest].bad,
                       servers |-> def[e] \o h[under].servers \o h[rest].servers]
    BY Zenon DEF ReadFrom
  <2>3. e \notin {"nothing", "dir"} <=> e # "nothing" /\ e # "dir"
    OBVIOUS
  <2> HIDE DEF e, rest, under
  <2>4. ReadFrom(inc, def, f, r) = ReadFrom(inc, def, g, r)
    <3> DEFINE free == e # "nothing" /\ e # "dir" /\ e \notin r.above
    <3>1. CASE r.list = <<>>
      BY <2>2, <3>1, Zenon
    <3>2. CASE r.list # <<>> /\ free
      <4>1. f[rest] = g[rest] /\ f[under] = g[under]
        BY <2>1, <2>3, <3>2, Zenon
      <4>2. ASSUME NEW h
            PROVE  ReadFrom(inc, def, h, r) =
                     [bad |-> h[under].bad \cup h[rest].bad,
                      servers |-> def[e] \o h[under].servers \o h[rest].servers]
        BY <2>2, <3>2, Zenon
      <4> QED
        BY <4>1, <4>2, Zenon
    <3>3. CASE r.list # <<>> /\ ~free
      <4>1. f[rest] = g[rest]
        BY <2>1, <3>3, Zenon
      <4>2. ASSUME NEW h
            PROVE  ReadFrom(inc, def, h, r) =
                     IF e = "nothing" THEN [h[rest] EXCEPT !.bad = @ \cup {"no match"}]
                     ELSE IF e = "dir" THEN h[rest]
                     ELSE [h[rest] EXCEPT !.bad = @ \cup {"cycle"}]
        BY <2>2, <3>3, Zenon
      <4> QED
        BY <4>1, <4>2, Zenon
    <3> QED
      BY <3>1, <3>2, <3>3, Zenon
  <2> QED
    BY <1>3, <2>4
<1>5. PICK f \in [D -> Results] : \A r \in D : f[r] = G[<<r, f>>]
  <2>1. Results # {}
    <3>1. Nothing \in Results
      BY NothingRead
    <3> QED
      BY <3>1
  <2>2. Recursive(D, Results, rank, G)
    BY <1>1, <1>3, <1>4, <2>1 DEF Recursive
  <2> QED
    BY <2>2, Recursion
<1>6. f = [r \in D |-> ReadFrom(inc, def, f, r)]
  BY <1>3, <1>5
<1> QED
  BY <1>6 DEF D

LEMMA ReadingSolves ==
  ASSUME NEW inc, NEW def, Givens(inc, def)
  PROVE  \A r \in Readings : /\ Reading(inc, def)[r] = ReadFrom(inc, def, Reading(inc, def), r)
                             /\ Reading(inc, def)[r] \in Results
<1> DEFINE D == Readings
           h == Reading(inc, def)
           S == {r \in D : h[r] \in Results}
<1>1. h = [r \in D |-> ReadFrom(inc, def, h, r)]
  BY ReadingExists, Zenon DEF Reading
<1>2. PICK rank \in [D -> Nat] :
        \A r \in D : r.list # <<>> =>
          LET e == Head(r.list)
              rest == [list |-> Tail(r.list), above |-> r.above]
              under == [list |-> inc[e], above |-> r.above \cup {e}]
          IN /\ rest \in D /\ rank[rest] < rank[r]
             /\ e \notin {"nothing", "dir"} /\ e \notin r.above =>
                  under \in D /\ rank[under] < rank[r] /\ def[e] \in Seq(Entries)
  BY ReadsLess
<1> HIDE DEF D, h
<1>3. \A r \in D : h[r] = ReadFrom(inc, def, h, r)
  BY <1>1
<1>4. Inductive(D, rank, S)
  <2> SUFFICES ASSUME NEW r \in D, \A y \in D : rank[y] < rank[r] => h[y] \in Results
               PROVE  h[r] \in Results
    BY DEF Inductive
  <2>1. r.list # <<>> =>
           LET e == Head(r.list)
               rest == [list |-> Tail(r.list), above |-> r.above]
               under == [list |-> inc[e], above |-> r.above \cup {e}]
           IN /\ h[rest] \in Results
              /\ e \notin {"nothing", "dir"} /\ e \notin r.above =>
                   h[under] \in Results /\ def[e] \in Seq(Entries)
    BY <1>2
  <2>2. ReadFrom(inc, def, h, r) \in Results
    BY <2>1, ReadTyped DEF D
  <2> QED
    BY <1>3, <2>2
<1> HIDE DEF S
<1>5. \A r \in D : r \in S
  BY <1>2, <1>4, RankInduction
<1> QED
  BY <1>3, <1>5 DEF D, S, h

\* What a list of includes gives, entry by entry.
RestRight(inc, def, list, above) ==
  LET all == Rest(inc, def, list, above)
      e == Head(list)
      rest == Rest(inc, def, Tail(list), above)
      under == Rest(inc, def, inc[e], above \cup {e})
  IN /\ all \in Results
     /\ list = <<>> => all = Nothing
     /\ list # <<>> /\ e = "nothing" => "no match" \in all.bad
     /\ list # <<>> /\ e = "dir" => all = rest
     /\ list # <<>> /\ e \notin {"nothing", "dir"} /\ e \in above => "cycle" \in all.bad
     /\ list # <<>> /\ e \notin {"nothing", "dir"} /\ e \notin above =>
          /\ all.bad = under.bad \cup rest.bad
          /\ all.servers = def[e] \o under.servers \o rest.servers

LEMMA RestOf ==
  ASSUME NEW inc, NEW def, Givens(inc, def),
         NEW list \in Seq(Includable), NEW above \in SUBSET (Files \cup {Main})
  PROVE  RestRight(inc, def, list, above)
<1> DEFINE h == Reading(inc, def)
           r == [list |-> list, above |-> above]
           all == Rest(inc, def, list, above)
           e == Head(list)
           rest == Rest(inc, def, Tail(list), above)
           under == Rest(inc, def, inc[e], above \cup {e})
<1>1. r \in Readings /\ r.list = list /\ r.above = above
  BY DEF Readings
<1>2. all = h[r] /\ rest = h[[list |-> Tail(list), above |-> above]]
      /\ under = h[[list |-> inc[e], above |-> above \cup {e}]]
  BY Zenon DEF Rest
<1>3. h[r] = ReadFrom(inc, def, h, r) /\ h[r] \in Results
  BY <1>1, ReadingSolves
<1>4. ReadFrom(inc, def, h, r) =
        IF r.list = <<>> THEN Nothing
        ELSE IF Head(r.list) = "nothing" THEN [h[[list |-> Tail(r.list), above |-> r.above]] EXCEPT !.bad = @ \cup {"no match"}]
        ELSE IF Head(r.list) = "dir" THEN h[[list |-> Tail(r.list), above |-> r.above]]
        ELSE IF Head(r.list) \in r.above THEN [h[[list |-> Tail(r.list), above |-> r.above]] EXCEPT !.bad = @ \cup {"cycle"}]
        ELSE [bad |-> h[[list |-> inc[Head(r.list)], above |-> r.above \cup {Head(r.list)}]].bad
                        \cup h[[list |-> Tail(r.list), above |-> r.above]].bad,
              servers |-> def[Head(r.list)]
                            \o h[[list |-> inc[Head(r.list)], above |-> r.above \cup {Head(r.list)}]].servers
                            \o h[[list |-> Tail(r.list), above |-> r.above]].servers]
  BY Zenon DEF ReadFrom
<1>5. all = IF list = <<>> THEN Nothing
            ELSE IF e = "nothing" THEN [rest EXCEPT !.bad = @ \cup {"no match"}]
            ELSE IF e = "dir" THEN rest
            ELSE IF e \in above THEN [rest EXCEPT !.bad = @ \cup {"cycle"}]
            ELSE [bad |-> under.bad \cup rest.bad,
                  servers |-> def[e] \o under.servers \o rest.servers]
  BY <1>1, <1>2, <1>3, <1>4, Zenon
<1>6. list # <<>> => rest \in Results
  <2> SUFFICES ASSUME list # <<>> PROVE rest \in Results
    OBVIOUS
  <2>1. Tail(list) \in Seq(Includable)
    BY HeadTailProperties
  <2>2. [list |-> Tail(list), above |-> above] \in Readings
    BY <2>1 DEF Readings
  <2> QED
    BY <1>2, <2>2, ReadingSolves
<1>7. all \in Results
  BY <1>2, <1>3
<1> HIDE DEF all, e, rest, under
<1>8. \A b \in {"no match", "cycle"} : rest \in Results => b \in [rest EXCEPT !.bad = @ \cup {b}].bad
  BY ResultFields
<1>9. /\ all \in Results
      /\ list = <<>> => all = Nothing
      /\ list # <<>> /\ e = "nothing" => "no match" \in all.bad
      /\ list # <<>> /\ e = "dir" => all = rest
      /\ list # <<>> /\ e \notin {"nothing", "dir"} /\ e \in above => "cycle" \in all.bad
      /\ list # <<>> /\ e \notin {"nothing", "dir"} /\ e \notin above =>
           /\ all.bad = under.bad \cup rest.bad
           /\ all.servers = def[e] \o under.servers \o rest.servers
  BY <1>5, <1>6, <1>7, <1>8
<1> QED
  BY <1>9, Zenon DEF all, e, rest, under, RestRight

\* What the frame at a place of the stack has still to read, and below what.
Above(fr, i) == {fr[j].file : j \in 1..i}
RestAt(inc, def, fr, i) == Rest(inc, def, fr[i].todo, Above(fr, i))

LEMMA RestAtTyped ==
  ASSUME NEW inc, NEW def, Givens(inc, def), NEW fr \in Seq(FrameSet), NEW i \in 1..Len(fr)
  PROVE  /\ fr[i].todo \in Seq(Includable) /\ fr[i].servers \in Seq(Entries) /\ fr[i].file \in Files \cup {Main}
         /\ Above(fr, i) \in SUBSET (Files \cup {Main})
         /\ RestAt(inc, def, fr, i) \in Results /\ RestAt(inc, def, fr, i).servers \in Seq(Entries)
<1>1. \A j \in 1..i : j \in 1..Len(fr)
  OBVIOUS
<1>2. \A j \in 1..Len(fr) : fr[j] \in FrameSet
  OBVIOUS
<1>3. fr[i].todo \in Seq(Includable) /\ fr[i].servers \in Seq(Entries)
      /\ \A j \in 1..Len(fr) : fr[j].file \in Files \cup {Main}
  BY <1>2 DEF FrameSet
<1>4. Above(fr, i) \in SUBSET (Files \cup {Main})
  BY <1>1, <1>3 DEF Above
<1>5. RestAt(inc, def, fr, i) \in Results
  BY <1>3, <1>4, RestOf DEF RestAt, RestRight
<1> QED
  BY <1>3, <1>4, <1>5, ResultFields

\* It depends on the files up to the place and on the list at it.
LEMMA RestAtSame ==
  ASSUME NEW inc, NEW def, NEW fr, NEW g, NEW i \in Nat,
         \A j \in 1..i : g[j].file = fr[j].file, g[i].todo = fr[i].todo
  PROVE  Above(g, i) = Above(fr, i) /\ RestAt(inc, def, g, i) = RestAt(inc, def, fr, i)
<1>1. Above(g, i) = Above(fr, i)
  BY DEF Above
<1> QED
  BY <1>1, Zenon DEF RestAt

\* A frame will have what it has, what the frame above it brings, and what it has
\* still to read; the first one will have all.
BadAhead(inc, def, fr, all) ==
  \A b : b \in all <=> \E i \in 1..Len(fr) : b \in RestAt(inc, def, fr, i).bad
ServersAhead(inc, def, fr, V) ==
  /\ V[Len(fr)] = fr[Len(fr)].servers \o RestAt(inc, def, fr, Len(fr)).servers
  /\ \A i \in 1..(Len(fr) - 1) : V[i] = (fr[i].servers \o V[i + 1]) \o RestAt(inc, def, fr, i).servers
StackOK(inc, def, fr, all) ==
  /\ BadAhead(inc, def, fr, all.bad)
  /\ \E V \in [1..Len(fr) -> Seq(Entries)] :
       V[1] = all.servers /\ ServersAhead(inc, def, fr, V)

\* A directory is passed over.
LEMMA StackSkips ==
  ASSUME NEW inc, NEW def, NEW all, Givens(inc, def), NEW fr \in Seq(FrameSet), NEW g \in Seq(FrameSet),
         StackOK(inc, def, fr, all), NEW n \in Nat, n > 0, Len(fr) = n, Len(g) = n,
         fr[n].todo # <<>>, Head(fr[n].todo) = "dir",
         \A i \in 1..(n - 1) : g[i] = fr[i],
         g[n].file = fr[n].file, g[n].servers = fr[n].servers, g[n].todo = Tail(fr[n].todo)
  PROVE  StackOK(inc, def, g, all)
<1>1. \A i \in 1..n : g[i].file = fr[i].file /\ g[i].servers = fr[i].servers
      /\ (i # n => g[i].todo = fr[i].todo)
  OBVIOUS
<1>2. ASSUME NEW i \in 1..n, i # n PROVE RestAt(inc, def, g, i) = RestAt(inc, def, fr, i)
  <2>1. i \in Nat /\ \A j \in 1..i : j \in 1..n
    OBVIOUS
  <2> QED
    BY <1>1, <1>2, <2>1, RestAtSame
<1>3. RestAt(inc, def, g, n) = RestAt(inc, def, fr, n)
  <2>1. n \in 1..n
    OBVIOUS
  <2>2. Above(g, n) = Above(fr, n)
    BY <1>1 DEF Above
  <2>3. fr[n].todo \in Seq(Includable) /\ Above(fr, n) \in SUBSET (Files \cup {Main})
    BY <2>1, RestAtTyped
  <2>4. Rest(inc, def, fr[n].todo, Above(fr, n)) = Rest(inc, def, Tail(fr[n].todo), Above(fr, n))
    <3> DEFINE list == fr[n].todo
               above == Above(fr, n)
    <3>1. list \in Seq(Includable) /\ above \in SUBSET (Files \cup {Main}) /\ list # <<>> /\ Head(list) = "dir"
      BY <2>3
    <3> HIDE DEF list, above
    <3>2. Rest(inc, def, list, above) = Rest(inc, def, Tail(list), above)
      <4>1. RestRight(inc, def, list, above)
        BY <3>1, RestOf
      <4> QED
        BY <3>1, <4>1, Zenon DEF RestRight
    <3> QED
      BY <3>2 DEF list, above
  <2> QED
    BY <2>2, <2>4, Zenon DEF RestAt
<1>4. \A i \in 1..n : RestAt(inc, def, g, i) = RestAt(inc, def, fr, i)
  BY <1>2, <1>3
<1>5. BadAhead(inc, def, g, all.bad)
  BY <1>4 DEF StackOK, BadAhead
<1>6. PICK V \in [1..n -> Seq(Entries)] : V[1] = all.servers /\ ServersAhead(inc, def, fr, V)
  BY DEF StackOK
<1>7. ServersAhead(inc, def, g, V)
  <2>1. n \in 1..n /\ \A i \in 1..(n - 1) : i \in 1..n
    OBVIOUS
  <2>2. V[n] = fr[n].servers \o RestAt(inc, def, fr, n).servers
        /\ \A i \in 1..(n - 1) : V[i] = (fr[i].servers \o V[i + 1]) \o RestAt(inc, def, fr, i).servers
    BY <1>6 DEF ServersAhead
  <2>3. V[n] = g[n].servers \o RestAt(inc, def, g, n).servers
    BY <1>1, <1>3, <2>1, <2>2
  <2>4. \A i \in 1..(n - 1) : V[i] = (g[i].servers \o V[i + 1]) \o RestAt(inc, def, g, i).servers
    BY <1>1, <1>4, <2>1, <2>2
  <2> QED
    BY <2>3, <2>4 DEF ServersAhead
<1> QED
  BY <1>5, <1>6, <1>7 DEF StackOK

Associates(a, b, c) == (a \o b) \o c = a \o (b \o c)

LEMMA ServersAssociate == \A a, b, c \in Seq(Entries) : Associates(a, b, c)
BY ConcatAssociative DEF Associates

LEMMA JoinedServers ==
  \A a, b, c \in Seq(Entries) :
    a \o b \in Seq(Entries) /\ (a \o b) \o c = a \o (b \o c) /\ a \o <<>> = a
BY ConcatAssociative, ConcatEmptySeq, ConcatProperties

\* A file is put upon the stack.
LEMMA StackReads ==
  ASSUME NEW inc, NEW def, NEW all, Givens(inc, def), NEW fr \in Seq(FrameSet), NEW g \in Seq(FrameSet),
         StackOK(inc, def, fr, all), NEW n \in Nat, n > 0, Len(fr) = n, Len(g) = n + 1,
         fr[n].todo # <<>>, NEW f, f = Head(fr[n].todo), f \notin {"nothing", "dir"}, f \notin Above(fr, n),
         \A i \in 1..(n - 1) : g[i] = fr[i],
         g[n].file = fr[n].file, g[n].servers = fr[n].servers, g[n].todo = Tail(fr[n].todo),
         g[n + 1].file = f, g[n + 1].servers = def[f], g[n + 1].todo = inc[f]
  PROVE  StackOK(inc, def, g, all)
<1> DEFINE R(i) == RestAt(inc, def, fr, i)
           Q(i) == RestAt(inc, def, g, i)
<1>0. n \in 1..n /\ n \in 1..(n + 1) /\ n + 1 \in 1..(n + 1) /\ n + 1 \notin 1..n
      /\ 1..(n + 1) = 1..n \cup {n + 1} /\ 1..n = 1..(n - 1) \cup {n} /\ n \notin 1..(n - 1)
  OBVIOUS
<1>1. \A i \in 1..n : g[i].file = fr[i].file /\ g[i].servers = fr[i].servers
      /\ (i # n => g[i].todo = fr[i].todo)
  OBVIOUS
<1>2. ASSUME NEW i \in 1..(n - 1) PROVE Q(i) = R(i)
  <2>1. i \in Nat /\ i # n /\ i \in 1..n /\ \A j \in 1..i : j \in 1..n
    OBVIOUS
  <2>2. g[i].todo = fr[i].todo /\ \A j \in 1..i : g[j].file = fr[j].file
    BY <1>1, <2>1
  <2> QED
    BY <2>1, <2>2, RestAtSame
<1>3. /\ R(n).bad = Q(n + 1).bad \cup Q(n).bad
      /\ R(n).servers = def[f] \o Q(n + 1).servers \o Q(n).servers
  <2>1. Above(g, n) = Above(fr, n)
    BY <1>1 DEF Above
  <2>2. Above(g, n + 1) = Above(fr, n) \cup {f}
    <3>1. Above(g, n + 1) = Above(g, n) \cup {g[n + 1].file}
      BY <1>0 DEF Above
    <3> QED
      BY <2>1, <3>1
  <2> DEFINE list == fr[n].todo
             above == Above(fr, n)
  <2>3. list \in Seq(Includable) /\ above \in SUBSET (Files \cup {Main}) /\ list # <<>> /\ f = Head(list)
    BY <1>0, RestAtTyped
  <2>4. R(n) = Rest(inc, def, list, above) /\ Q(n) = Rest(inc, def, Tail(list), above)
        /\ Q(n + 1) = Rest(inc, def, inc[f], above \cup {f})
    BY <2>1, <2>2, Zenon DEF RestAt
  <2> HIDE DEF list, above, R, Q
  <2>5. LET x == Rest(inc, def, list, above)
            y == Rest(inc, def, Tail(list), above)
            z == Rest(inc, def, inc[f], above \cup {f})
        IN x.bad = z.bad \cup y.bad /\ x.servers = def[f] \o z.servers \o y.servers
    <3>1. RestRight(inc, def, list, above) /\ f \notin above
      BY <2>3, RestOf DEF above
    <3> QED
      BY <2>3, <3>1, Zenon DEF RestRight
  <2> QED
    BY <2>4, <2>5
<1>4. BadAhead(inc, def, g, all.bad)
  <2>1. \A b : b \in all.bad <=> \E i \in 1..n : b \in R(i).bad
    BY DEF StackOK, BadAhead
  <2> HIDE DEF R, Q
  <2>2. \A b : (\E i \in 1..n : b \in R(i).bad) <=> (\E i \in 1..(n + 1) : b \in Q(i).bad)
    BY <1>0, <1>2, <1>3
  <2>3. \A b : b \in all.bad <=> \E i \in 1..(n + 1) : b \in Q(i).bad
    BY <2>1, <2>2
  <2> QED
    BY <2>3 DEF BadAhead, Q
<1>5. PICK V \in [1..n -> Seq(Entries)] : V[1] = all.servers /\ ServersAhead(inc, def, fr, V)
  BY DEF StackOK
<1> DEFINE top == def[f] \o Q(n + 1).servers
           W == [i \in 1..(n + 1) |-> IF i = n + 1 THEN top ELSE V[i]]
<1>6. /\ def[f] \in Seq(Entries) /\ Q(n + 1).servers \in Seq(Entries) /\ Q(n).servers \in Seq(Entries)
      /\ fr[n].servers \in Seq(Entries)
  <2>1. f \in Files \cup {Main} /\ Q(n + 1).servers \in Seq(Entries) /\ Q(n).servers \in Seq(Entries)
    BY <1>0, RestAtTyped
  <2>2. fr[n].servers \in Seq(Entries)
    BY <1>0, RestAtTyped
  <2> QED
    BY <2>1, <2>2 DEF Givens
<1> HIDE DEF R, Q
<1>7. top \in Seq(Entries)
  BY <1>6, JoinedServers
<1>8. W \in [1..(n + 1) -> Seq(Entries)] /\ W[n + 1] = top /\ \A i \in 1..n : W[i] = V[i]
  BY <1>0, <1>7
<1> HIDE DEF W
<1>9. V[n] = fr[n].servers \o R(n).servers
      /\ \A i \in 1..(n - 1) : V[i] = (fr[i].servers \o V[i + 1]) \o R(i).servers
  BY <1>5 DEF ServersAhead, R
<1>t. R(n).servers = top \o Q(n).servers
  BY <1>3
<1> HIDE DEF top
<1>10. V[n] = (fr[n].servers \o top) \o Q(n).servers
  <2>1. (fr[n].servers \o top) \o Q(n).servers = fr[n].servers \o (top \o Q(n).servers)
    <3>1. Associates(fr[n].servers, top, Q(n).servers)
      BY <1>6, <1>7, ServersAssociate, Zenon
    <3> QED
      BY <3>1 DEF Associates
  <2> QED
    BY <1>9, <1>t, <2>1
<1>11. W[n + 1] = g[n + 1].servers \o Q(n + 1).servers
  BY <1>8 DEF top
<1>12. ASSUME NEW i \in 1..n PROVE W[i] = (g[i].servers \o W[i + 1]) \o Q(i).servers
  <2>1. CASE i = n
    BY <1>1, <1>8, <1>10, <2>1
  <2>2. CASE i # n
    <3>1. i \in 1..(n - 1) /\ i + 1 \in 1..n
      BY <2>2
    <3>2. V[i] = (fr[i].servers \o V[i + 1]) \o R(i).servers
      BY <1>9, <3>1, Zenon
    <3>3. W[i] = V[i] /\ W[i + 1] = V[i + 1] /\ Q(i) = R(i) /\ g[i].servers = fr[i].servers
      BY <1>1, <1>2, <1>8, <3>1, Zenon
    <3> QED
      BY ONLY <3>2, <3>3, Zenon
  <2> QED
    BY <2>1, <2>2
<1>13. ServersAhead(inc, def, g, W) /\ W[1] = all.servers
  <2>1. (n + 1) - 1 = n /\ 1 \in 1..n
    OBVIOUS
  <2> QED
    BY <1>5, <1>8, <1>11, <1>12, <2>1 DEF ServersAhead, Q
<1> QED
  BY <1>4, <1>8, <1>13 DEF StackOK

\* A file that has been read is taken from it.
LEMMA StackMerges ==
  ASSUME NEW inc, NEW def, NEW all, Givens(inc, def), NEW fr \in Seq(FrameSet), NEW g \in Seq(FrameSet),
         StackOK(inc, def, fr, all), NEW n \in Nat, n > 0, Len(fr) = n + 1, Len(g) = n,
         fr[n + 1].todo = <<>>,
         \A i \in 1..(n - 1) : g[i] = fr[i],
         g[n].file = fr[n].file, g[n].todo = fr[n].todo, g[n].servers = fr[n].servers \o fr[n + 1].servers
  PROVE  StackOK(inc, def, g, all)
<1> DEFINE R(i) == RestAt(inc, def, fr, i)
           Q(i) == RestAt(inc, def, g, i)
<1>0. n \in 1..n /\ n \in 1..(n + 1) /\ n + 1 \in 1..(n + 1) /\ n + 1 \notin 1..n
      /\ 1..(n + 1) = 1..n \cup {n + 1} /\ 1..n = 1..(n - 1) \cup {n} /\ n \notin 1..(n - 1)
      /\ (n + 1) - 1 = n
  OBVIOUS
<1>1. \A i \in 1..n : g[i].file = fr[i].file /\ g[i].todo = fr[i].todo
  OBVIOUS
<1>2. ASSUME NEW i \in 1..n PROVE Q(i) = R(i)
  <2>1. i \in Nat /\ \A j \in 1..i : j \in 1..n
    OBVIOUS
  <2> QED
    BY <1>1, <2>1, RestAtSame
<1>3. R(n + 1) = Nothing
  <2>1. Above(fr, n + 1) \in SUBSET (Files \cup {Main}) /\ <<>> \in Seq(Includable)
    BY <1>0, RestAtTyped
  <2>2. RestRight(inc, def, <<>>, Above(fr, n + 1))
    BY <2>1, RestOf
  <2>3. Rest(inc, def, <<>>, Above(fr, n + 1)) = Nothing
    BY <2>2, Zenon DEF RestRight
  <2> QED
    BY <2>3 DEF RestAt
<1>4. BadAhead(inc, def, g, all.bad)
  <2>1. \A b : b \in all.bad <=> \E i \in 1..(n + 1) : b \in R(i).bad
    BY DEF StackOK, BadAhead
  <2> HIDE DEF R, Q
  <2>2. \A b : (\E i \in 1..(n + 1) : b \in R(i).bad) <=> (\E i \in 1..n : b \in Q(i).bad)
    BY <1>0, <1>2, <1>3, NothingRead
  <2>3. \A b : b \in all.bad <=> \E i \in 1..n : b \in Q(i).bad
    BY <2>1, <2>2
  <2> QED
    BY <2>3 DEF BadAhead, Q
<1>5. PICK V \in [1..(n + 1) -> Seq(Entries)] : V[1] = all.servers /\ ServersAhead(inc, def, fr, V)
  BY DEF StackOK
<1>6. fr[n].servers \in Seq(Entries) /\ fr[n + 1].servers \in Seq(Entries) /\ R(n).servers \in Seq(Entries)
  BY <1>0, RestAtTyped
<1> HIDE DEF R, Q
<1>7. V[n + 1] = fr[n + 1].servers \o R(n + 1).servers
      /\ \A i \in 1..n : V[i] = (fr[i].servers \o V[i + 1]) \o R(i).servers
  BY <1>0, <1>5 DEF ServersAhead, R
<1>8. V[n] = g[n].servers \o Q(n).servers
  <2>1. V[n + 1] = fr[n + 1].servers
    BY <1>3, <1>6, <1>7, NothingRead, JoinedServers
  <2>2. V[n] = (fr[n].servers \o V[n + 1]) \o R(n).servers /\ Q(n) = R(n)
    BY <1>0, <1>2, <1>7
  <2> QED
    BY <2>1, <2>2
<1> DEFINE W == [i \in 1..n |-> V[i]]
<1>9. W \in [1..n -> Seq(Entries)] /\ \A i \in 1..n : W[i] = V[i]
  BY <1>0
<1> HIDE DEF W
<1>10. ASSUME NEW i \in 1..(n - 1) PROVE W[i] = (g[i].servers \o W[i + 1]) \o Q(i).servers
  <2>1. i \in 1..n /\ i + 1 \in 1..n
    OBVIOUS
  <2> QED
    BY <1>2, <1>7, <1>9, <2>1
<1>11. ServersAhead(inc, def, g, W) /\ W[1] = all.servers
  <2>1. 1 \in 1..n
    OBVIOUS
  <2> QED
    BY <1>0, <1>5, <1>8, <1>9, <1>10, <2>1 DEF ServersAhead, Q
<1> QED
  BY <1>4, <1>9, <1>11 DEF StackOK

Whole(inc, def) == [Rest(inc, def, inc[Main], {Main}) EXCEPT !.servers = def[Main] \o @]

\* What has been read and what is still to be read make the whole.
IncludesInv ==
  /\ loading = "load" => StackOK(includes, defines, frames, Whole(includes, defines))
  /\ loading \in {"bind", "serving"} =>
       Whole(includes, defines).bad = {} /\ servers = Whole(includes, defines).servers
  /\ loading \in {"cycle", "no match"} => loading \in Whole(includes, defines).bad
  /\ loading = "too deep" => Head(Top.todo) \notin Visited

LEMMA WholeOf ==
  ASSUME NEW inc, NEW def, Givens(inc, def)
  PROVE  /\ Whole(inc, def).bad = Rest(inc, def, inc[Main], {Main}).bad
         /\ Whole(inc, def).servers = def[Main] \o Rest(inc, def, inc[Main], {Main}).servers
         /\ Whole(inc, def).servers \in Seq(Entries)
<1>1. inc[Main] \in Seq(Includable) /\ def[Main] \in Seq(Entries) /\ {Main} \in SUBSET (Files \cup {Main})
  BY DEF Givens
<1> DEFINE x == Rest(inc, def, inc[Main], {Main})
<1>2. x \in Results
  <2>1. RestRight(inc, def, inc[Main], {Main})
    BY <1>1, RestOf
  <2> QED
    BY <2>1, Zenon DEF RestRight
<1> HIDE DEF x
<1>3. x.servers \in Seq(Entries) /\ [x EXCEPT !.servers = def[Main] \o @].bad = x.bad
      /\ [x EXCEPT !.servers = def[Main] \o @].servers = def[Main] \o x.servers
  BY <1>2, ResultFields DEF Results
<1>4. def[Main] \o x.servers \in Seq(Entries)
  BY <1>1, <1>3, JoinedServers
<1> QED
  BY <1>3, <1>4 DEF Whole, x

LEMMA IncludesStart == LoadInit /\ LoadInv => IncludesInv
<1> SUFFICES ASSUME LoadInit, LoadInv PROVE IncludesInv
  OBVIOUS
<1>1. Givens(includes, defines)
  BY DEF LoadInv, LoadTyped, Givens
<1> DEFINE all == Whole(includes, defines)
<1>2. loading = "load" /\ frames = <<[file |-> Main, todo |-> includes[Main], servers |-> defines[Main]]>>
  BY DEF LoadInit
<1>3. Len(frames) = 1 /\ frames[1].file = Main /\ frames[1].todo = includes[Main] /\ frames[1].servers = defines[Main]
  BY <1>2
<1>4. Above(frames, 1) = {Main}
  BY <1>3 DEF Above
<1>5. /\ all.bad = RestAt(includes, defines, frames, 1).bad
      /\ all.servers = frames[1].servers \o RestAt(includes, defines, frames, 1).servers
      /\ all.servers \in Seq(Entries)
  BY <1>1, <1>3, <1>4, WholeOf DEF RestAt
<1> HIDE DEF all
<1>6. BadAhead(includes, defines, frames, all.bad)
  <2>1. 1..1 = {1}
    OBVIOUS
  <2> QED
    BY <1>3, <1>5, <2>1 DEF BadAhead
<1> DEFINE V == [i \in 1..1 |-> all.servers]
<1>7. V \in [1..1 -> Seq(Entries)] /\ V[1] = all.servers
  <2>1. 1 \in 1..1
    OBVIOUS
  <2> QED
    BY <1>5, <2>1
<1> HIDE DEF V
<1>8. ServersAhead(includes, defines, frames, V)
  <2>1. 1..(1 - 1) = {}
    OBVIOUS
  <2> QED
    BY <1>3, <1>5, <1>7, <2>1 DEF ServersAhead
<1>9. StackOK(includes, defines, frames, all)
  BY <1>3, <1>6, <1>7, <1>8 DEF StackOK
<1> QED
  BY <1>2, <1>9 DEF IncludesInv, all

\* The reasons to stop are among those of the whole.
LEMMA StopReasons ==
  ASSUME NEW inc, NEW def, Givens(inc, def), NEW all, NEW fr \in Seq(FrameSet), StackOK(inc, def, fr, all),
         NEW n \in 1..Len(fr), fr[n].todo # <<>>, NEW f, f = Head(fr[n].todo)
  PROVE  /\ f = "nothing" => "no match" \in all.bad
         /\ f \notin {"nothing", "dir"} /\ f \in Above(fr, n) => "cycle" \in all.bad
<1> DEFINE list == fr[n].todo
           above == Above(fr, n)
           x == Rest(inc, def, list, above)
<1>1. list \in Seq(Includable) /\ above \in SUBSET (Files \cup {Main}) /\ list # <<>> /\ f = Head(list)
  BY RestAtTyped
<1>2. RestAt(inc, def, fr, n) = x
  BY Zenon DEF RestAt
<1>3. \A b : b \in x.bad => b \in all.bad
  BY <1>2 DEF StackOK, BadAhead
<1>4. f \notin {"nothing", "dir"} /\ f \in above => "cycle" \in x.bad
  <2> HIDE DEF list, above
  <2>1. RestRight(inc, def, list, above)
    BY <1>1, RestOf
  <2> QED
    BY <1>1, <2>1, Zenon DEF RestRight
<1>5. f = "nothing" => "no match" \in x.bad
  <2> HIDE DEF list, above
  <2>1. RestRight(inc, def, list, above)
    BY <1>1, RestOf
  <2> QED
    BY <1>1, <2>1, Zenon DEF RestRight
<1> QED
  BY <1>3, <1>4, <1>5

\* When all has been read the first frame has it.
LEMMA StackEnds ==
  ASSUME NEW inc, NEW def, Givens(inc, def), NEW all, NEW fr \in Seq(FrameSet), StackOK(inc, def, fr, all),
         Len(fr) = 1, fr[1].todo = <<>>
  PROVE  (\A b : b \notin all.bad) /\ all.servers = fr[1].servers
<1>1. 1 \in 1..Len(fr) /\ 1..Len(fr) = {1} /\ <<>> \in Seq(Includable)
  <2>1. 1 \in 1..1 /\ 1..1 = {1}
    OBVIOUS
  <2>2. <<>> \in Seq(Includable)
    OBVIOUS
  <2> QED
    BY <2>1, <2>2
<1>2. RestAt(inc, def, fr, 1) = Nothing
  <2>1. Above(fr, 1) \in SUBSET (Files \cup {Main})
    BY <1>1, RestAtTyped
  <2>2. RestRight(inc, def, <<>>, Above(fr, 1))
    BY <1>1, <2>1, RestOf
  <2>3. Rest(inc, def, <<>>, Above(fr, 1)) = Nothing
    BY <2>2, Zenon DEF RestRight
  <2> QED
    BY <2>3 DEF RestAt
<1>3. \A b : b \notin all.bad
  BY <1>1, <1>2, NothingRead DEF StackOK, BadAhead
<1>4. PICK V \in [1..1 -> Seq(Entries)] : V[1] = all.servers /\ ServersAhead(inc, def, fr, V)
  BY DEF StackOK
<1>5. all.servers = fr[1].servers \o Nothing.servers
  BY <1>2, <1>4 DEF ServersAhead
<1>6. fr[1].servers \in Seq(Entries)
  BY <1>1, RestAtTyped
<1> QED
  BY <1>3, <1>5, <1>6, NothingRead, JoinedServers

LEMMA IncludesFrames ==
  ASSUME loading = "load", UNCHANGED <<includes, defines, loading>>,
         StackOK(includes, defines, frames', Whole(includes, defines))
  PROVE  IncludesInv'
BY DEF IncludesInv

LEMMA IncludesStop ==
  ASSUME NEW why \in {"no match", "cycle", "too deep", "unreadable", "invalid"}, End(why),
         why \in {"cycle", "no match"} => why \in Whole(includes, defines).bad,
         why = "too deep" => Head(Top.todo) \notin Visited
  PROVE  IncludesInv'
<1>1. loading' = why /\ UNCHANGED <<includes, defines, mode, frames, servers, bound>>
  BY DEF End
<1>2. loading' # "load" /\ loading' \notin {"bind", "serving"}
  BY <1>1
<1>3. Top' = Top /\ Visited' = Visited
  BY <1>1 DEF Top, Visited
<1>4. loading' \in {"cycle", "no match"} => loading' \in Whole(includes', defines').bad
  BY <1>1
<1>5. loading' = "too deep" => Head(Top'.todo) \notin Visited'
  BY <1>1, <1>3
<1> QED
  BY <1>2, <1>4, <1>5 DEF IncludesInv

LEMMA IncludesReads ==
  ASSUME LoadInv, IncludesInv, Include
  PROVE  IncludesInv'
<1> DEFINE n == Len(frames)
           all == Whole(includes, defines)
           f == Head(Top.todo)
           rest == [Top EXCEPT !.todo = Tail(@)]
<1>1. loading = "load" /\ frames \in Seq(FrameSet) /\ frames # <<>> /\ Givens(includes, defines)
  BY DEF LoadInv, LoadTyped, Include, Givens
<1>2. n \in Nat /\ n > 0 /\ n \in 1..n /\ Top = frames[n] /\ Top \in FrameSet
  BY <1>1 DEF Top
<1>3. StackOK(includes, defines, frames, all)
  BY <1>1 DEF IncludesInv
<1>4. Visited = Above(frames, n)
  BY <1>1 DEF Visited, Above
<1>5. Top.todo \in Seq(Includable) /\ Top.todo # <<>> /\ f \in Includable /\ Tail(Top.todo) \in Seq(Includable)
  <2>1. Top.todo \in Seq(Includable) /\ Top.todo # <<>>
    BY <1>2, FrameFields DEF Include
  <2> QED
    BY <2>1, HeadTailProperties
<1>6. /\ f = "nothing" => "no match" \in all.bad
      /\ f \notin {"nothing", "dir"} /\ f \in Visited => "cycle" \in all.bad
  BY <1>1, <1>2, <1>3, <1>4, <1>5, StopReasons
<1>7. rest \in FrameSet /\ rest.file = Top.file /\ rest.servers = Top.servers /\ rest.todo = Tail(Top.todo)
  <2>1. rest \in FrameSet
    BY <1>2, <1>5, FrameFields
  <2> QED
    BY <1>2, <2>1 DEF FrameSet
<1> DEFINE s == SetTop(rest)
<1>8. s \in Seq(FrameSet) /\ Len(s) = n /\ s[n] = rest /\ \A i \in 1..(n - 1) : s[i] = frames[i]
  <2> HIDE DEF rest
  <2> QED
    BY <1>1, <1>2, <1>7 DEF SetTop
<1>9. CASE f = "nothing"
  <2>1. End("no match")
    BY <1>9 DEF Include
  <2> QED
    BY <1>6, <1>9, <2>1, IncludesStop
<1>10. CASE f = "dir"
  <2>1. frames' = s /\ UNCHANGED <<includes, defines, mode, loading, servers, bound>>
    BY <1>10 DEF Include
  <2> HIDE DEF all, rest, s, n
  <2>2. StackOK(includes, defines, s, all)
    BY <1>1, <1>2, <1>3, <1>5, <1>7, <1>8, <1>10, StackSkips DEF n
  <2> QED
    BY <1>1, <2>1, <2>2, IncludesFrames DEF all
<1>11. CASE f \notin {"nothing", "dir"} /\ Seen(f)
  <2>1. End("cycle") /\ f \in Visited
    BY <1>11 DEF Include, Seen
  <2> QED
    BY <1>6, <1>11, <2>1, IncludesStop
<1>12. CASE f \notin {"nothing", "dir"} /\ ~Seen(f)
  <2> DEFINE new == [file |-> f, todo |-> includes[f], servers |-> defines[f]]
             g == Append(s, new)
  <2>0. f \notin Visited
    BY <1>12 DEF Seen
  <2>1. \/ End("too deep")
        \/ /\ frames' = g
           /\ UNCHANGED <<includes, defines, mode, loading, servers, bound>>
    BY <1>12 DEF Include
  <2>2. CASE End("too deep")
    BY <2>0, <2>2, IncludesStop
  <2>3. CASE frames' = g /\ UNCHANGED <<includes, defines, mode, loading, servers, bound>>
    <3>1. new \in FrameSet /\ new.file = f /\ new.todo = includes[f] /\ new.servers = defines[f]
      BY <1>1, <1>5, <1>12 DEF FrameSet, Givens, Includable
    <3> HIDE DEF all, rest, s, n, new, f
    <3>2. g \in Seq(FrameSet) /\ Len(g) = n + 1 /\ g[n + 1] = new /\ \A i \in 1..n : g[i] = s[i]
      BY <1>2, <1>8, <3>1, AppendProperties
    <3> HIDE DEF g
    <3>3. /\ \A i \in 1..(n - 1) : g[i] = frames[i]
          /\ g[n] = rest
      BY <1>2, <1>8, <3>2
    <3>4. /\ g[n].file = frames[n].file /\ g[n].servers = frames[n].servers /\ g[n].todo = Tail(frames[n].todo)
          /\ g[n + 1].file = f /\ g[n + 1].servers = defines[f] /\ g[n + 1].todo = includes[f]
      BY <1>2, <1>7, <3>1, <3>2, <3>3
    <3>5. f = Head(frames[n].todo) /\ frames[n].todo # <<>> /\ f \notin Above(frames, n)
      BY <1>2, <1>4, <1>5, <2>0 DEF f
    <3>6. Len(frames) = n
      BY DEF n
    <3>7. StackOK(includes, defines, g, all)
      BY <1>1, <1>2, <1>3, <1>12, <3>2, <3>3, <3>4, <3>5, <3>6, StackReads
    <3> QED
      BY <1>1, <2>3, <3>7, IncludesFrames DEF all
  <2> QED
    BY <2>1, <2>2, <2>3
<1> QED
  BY <1>9, <1>10, <1>11, <1>12

LEMMA IncludesMerge ==
  ASSUME LoadInv, IncludesInv, Merge
  PROVE  IncludesInv'
<1> DEFINE n == Len(frames) - 1
           all == Whole(includes, defines)
           s == Front(frames)
<1>1. loading = "load" /\ frames \in Seq(FrameSet) /\ frames # <<>> /\ Givens(includes, defines)
  BY DEF LoadInv, LoadTyped, Merge, Givens
<1>2. /\ Len(frames) > 1 /\ Top.todo = <<>>
      /\ frames' = [Front(frames) EXCEPT ![Len(frames) - 1].servers = @ \o Top.servers]
      /\ UNCHANGED <<includes, defines, mode, loading, servers, bound>>
  BY DEF Merge
<1>3. n \in Nat /\ n > 0 /\ Len(frames) = n + 1 /\ Top = frames[n + 1] /\ n \in 1..n /\ n + 1 \in 1..Len(frames)
      /\ n \in 1..Len(frames)
  BY <1>1, <1>2 DEF Top
<1>4. s \in Seq(FrameSet) /\ Len(s) = n /\ \A i \in 1..n : s[i] = frames[i]
  BY <1>1, <1>2 DEF Front
<1> DEFINE fr == [s[n] EXCEPT !.servers = @ \o Top.servers]
<1>5. frames' = [s EXCEPT ![n] = fr]
  BY <1>2
<1> HIDE DEF n, s
<1>6. s[n] \in FrameSet /\ s[n] = frames[n] /\ Top \in FrameSet
  BY <1>1, <1>3, <1>4
<1>7. fr \in FrameSet /\ fr.file = frames[n].file /\ fr.todo = frames[n].todo
      /\ fr.servers = frames[n].servers \o frames[n + 1].servers
  <2>1. s[n].servers \o Top.servers \in Seq(Entries)
    BY <1>6, FrameFields, JoinedServers
  <2>2. fr \in FrameSet
    BY <1>6, <2>1, FrameFields
  <2>3. \A t : [s[n] EXCEPT !.servers = t].servers = t /\ [s[n] EXCEPT !.servers = t].file = s[n].file
               /\ [s[n] EXCEPT !.servers = t].todo = s[n].todo
    BY <1>6 DEF FrameSet
  <2> QED
    BY <1>3, <1>6, <2>2, <2>3
<1> HIDE DEF fr
<1> DEFINE g == [s EXCEPT ![n] = fr]
<1>8. g \in Seq(FrameSet) /\ Len(g) = n /\ g[n] = fr /\ \A i \in 1..(n - 1) : g[i] = frames[i]
  <2>1. g \in Seq(FrameSet) /\ Len(g) = n /\ g[n] = fr /\ \A i \in 1..(n - 1) : g[i] = s[i]
    BY <1>3, <1>4, <1>7
  <2> QED
    BY <1>3, <1>4, <2>1
<1> HIDE DEF g
<1>9. StackOK(includes, defines, frames, all)
  BY <1>1 DEF IncludesInv
<1> HIDE DEF all
<1>10. StackOK(includes, defines, g, all)
  BY <1>1, <1>2, <1>3, <1>7, <1>8, <1>9, StackMerges
<1> QED
  BY <1>1, <1>2, <1>5, <1>10, IncludesFrames DEF all, g

LEMMA IncludesValidate ==
  ASSUME LoadInv, IncludesInv, Validate
  PROVE  IncludesInv'
<1> DEFINE all == Whole(includes, defines)
<1>1. loading = "load" /\ frames \in Seq(FrameSet) /\ Givens(includes, defines)
      /\ Top.todo = <<>> /\ Len(frames) = 1
  BY DEF LoadInv, LoadTyped, Validate, Givens
<1>2. StackOK(includes, defines, frames, all) /\ Top = frames[1]
  BY <1>1 DEF IncludesInv, Top
<1>3. (\A b : b \notin all.bad) /\ all.servers = Top.servers
  <2> HIDE DEF all
  <2> QED
    BY <1>1, <1>2, StackEnds
<1>4. CASE End("invalid")
  BY <1>4, IncludesStop
<1>5. CASE ~End("invalid")
  <2>1. servers' = Top.servers /\ loading' = "bind" /\ UNCHANGED <<includes, defines, mode, bound>>
    BY <1>5 DEF Validate
  <2>2. all.bad = {}
    <3>1. all.bad \in SUBSET {"no match", "cycle"}
      <4>1. RestRight(includes, defines, includes[Main], {Main})
        BY <1>1, RestOf DEF Givens
      <4>2. Rest(includes, defines, includes[Main], {Main}) \in Results
        BY <4>1, Zenon DEF RestRight
      <4> QED
        BY <1>1, <4>2, WholeOf, ResultFields
    <3> HIDE DEF all
    <3> QED
      BY <1>3, <3>1
  <2>3. Whole(includes', defines') = all
    BY <2>1
  <2> HIDE DEF all
  <2>4. Whole(includes', defines').bad = {} /\ servers' = Whole(includes', defines').servers
    BY <1>3, <2>1, <2>2, <2>3
  <2> QED
    BY <2>1, <2>4 DEF IncludesInv
<1> QED
  BY <1>4, <1>5

LEMMA IncludesStep == LoadInv /\ IncludesInv /\ [LoadNext]_loadVars => IncludesInv'
<1> SUFFICES ASSUME LoadInv, IncludesInv, [LoadNext]_loadVars PROVE IncludesInv'
  OBVIOUS
<1>1. CASE Unreadable
  <2>1. End("unreadable")
    BY <1>1 DEF Unreadable
  <2> QED
    BY <2>1, IncludesStop
<1>2. CASE Bind
  <2>1. loading = "bind" /\ loading' \in {"bind", "serving"} /\ UNCHANGED <<includes, defines, mode, frames, servers>>
    BY <1>2 DEF Bind
  <2> QED
    BY <2>1 DEF IncludesInv
<1>3. CASE UNCHANGED loadVars
  BY <1>3 DEF loadVars, IncludesInv, Top, Visited
<1> QED
  BY <1>1, <1>2, <1>3, IncludesReads, IncludesMerge, IncludesValidate DEF LoadNext

\* For any files and includes, a configuration that is loaded is what is reached
\* from the main file along the includes, in the order of reading, and one that is
\* refused for a cycle or a pattern without files has it.
THEOREM LoadIncludesExact == LoadSpec => []IncludesExact
<1>1. LoadInv /\ IncludesInv => IncludesExact
  <2> SUFFICES ASSUME LoadInv, IncludesInv PROVE IncludesExact
    OBVIOUS
  <2>1. Reached = Whole(includes, defines)
    BY ReachedIs, Zenon DEF Whole
  <2> QED
    BY <2>1 DEF IncludesInv, IncludesExact
<1> QED
  BY <1>1, LoadStarts, LoadInductive, IncludesStart, IncludesStep, PTL DEF LoadSpec

-----------------------------------------------------------------------------
(* From a valid configuration to a server that serves *)

\* Any configuration at all whose counts are numbers and whose
\* switches are on or off and whose certificate is there or not, not only those of
\* RulesInit.
AnyConfig ==
  /\ cfg.rate \in Int /\ cfg.burst \in Int /\ cfg.connLimit \in Int
  /\ cfg.firstLua \in BOOLEAN /\ cfg.lua \in BOOLEAN /\ cfg.geo \in BOOLEAN
  /\ cfg.pem \in {"ok", "missing"}
AnyRulesInit == AnyConfig /\ boot = "load" /\ installed = {}
AnyRulesSpec == AnyRulesInit /\ [][RulesNext]_ruleVars

\* What the start has found out about the configuration by the time it is where
\* it is: each gate it has passed, and, once the chain is built, the middlewares
\* with what their constructors found.
Vetted ==
  /\ cfg.auth # "" => cfg.auth = "basic" /\ cfg.user # ""
  /\ cfg.rate >= 0 /\ cfg.connLimit >= 0
  /\ cfg.cert # "" => cfg.cert = "both"
  /\ cfg.lua => cfg.script # ""

EngineRuns == "lua engine" \in installed <=> EngineWanted

\* The route of a script is there.
RouteRuns == cfg.lua /\ EngineWanted /\ cfg.phase = "route" /\ ~Host => "lua" \in installed

Checked ==
  /\ boot \in {"init", "routes", "chain", "listen", "serving"} => Vetted
  /\ boot \in {"routes", "chain", "listen", "serving"} => 
       ~(First /\ cfg.pages = "all missing")
  /\ boot \in {"load", "init"} => installed = {}
  /\ boot \in {"routes", "chain"} => EngineRuns
  /\ boot \in {"chain", "listen", "serving"} =>
       ~(cfg.algorithm = "sticky" /\ cfg.fallback = "sticky") /\ StaticRouteOK /\ RouteRuns

ChainBuilt ==
  /\ Listed => NewAccessControlOK /\ "access" \in installed
  /\ cfg.rate > 0 => NewRateLimiterOK /\ "rate" \in installed
  /\ ConnsLimited => "conns" \in installed
  /\ cfg.user # "" => NewBasicAuthOK /\ "auth" \in installed
  /\ cfg.authURI \notin {"off", ""} => NewAuthRequestOK /\ "auth request" \in installed
  /\ NewBodyLimitOK
  /\ cfg.pattern # "none" => NewRewriteOK
  /\ cfg.lua /\ EngineWanted /\ ScriptOn /\ cfg.phase # "route" => NewLuaOK /\ "lua" \in installed

RulesInv ==
  /\ AnyConfig /\ Checked
  /\ boot \in {"listen", "serving"} => ChainBuilt
  /\ boot = "serving" /\ TLSUsed => NewTLSManagerOK /\ "tls" \in installed
  /\ AcceptedStarts

\* A middleware that is on is one of those that are built.
LEMMA MiddlewareOn ==
  /\ Listed => <<"access", NewAccessControlOK>> \in Middlewares
  /\ cfg.rate > 0 => <<"rate", NewRateLimiterOK>> \in Middlewares
  /\ ConnsLimited => <<"conns", TRUE>> \in Middlewares
  /\ cfg.user # "" => <<"auth", NewBasicAuthOK>> \in Middlewares
  /\ cfg.authURI \notin {"off", ""} => <<"auth request", NewAuthRequestOK>> \in Middlewares
  /\ <<"body", NewBodyLimitOK>> \in Middlewares
  /\ cfg.pattern # "none" => <<"rewrite", NewRewriteOK>> \in Middlewares
  /\ LuaOn /\ ScriptOn /\ cfg.phase # "route" => <<"lua", NewLuaOK>> \in Middlewares
BY Zenon DEF Middlewares

\* And there is no other: one whose constructor fails is one of these.
LEMMA MiddlewareFails ==
  ASSUME NEW m \in Middlewares, ~m[2]
  PROVE  \/ Listed /\ ~NewAccessControlOK
         \/ cfg.rate > 0 /\ ~NewRateLimiterOK
         \/ cfg.user # "" /\ ~NewBasicAuthOK
         \/ cfg.authURI \notin {"off", ""} /\ ~NewAuthRequestOK
         \/ ~NewBodyLimitOK
         \/ cfg.pattern # "none" /\ ~NewRewriteOK
         \/ LuaOn /\ ScriptOn /\ cfg.phase # "route" /\ ~NewLuaOK
<1>1. \/ Listed /\ m = <<"access", NewAccessControlOK>>
      \/ cfg.rate > 0 /\ m = <<"rate", NewRateLimiterOK>>
      \/ ConnsLimited /\ m = <<"conns", TRUE>>
      \/ cfg.user # "" /\ m = <<"auth", NewBasicAuthOK>>
      \/ cfg.authURI \notin {"off", ""} /\ m = <<"auth request", NewAuthRequestOK>>
      \/ m = <<"body", NewBodyLimitOK>>
      \/ cfg.pattern # "none" /\ m = <<"rewrite", NewRewriteOK>>
      \/ cfg.compression # "" /\ m = <<"compression", TRUE>>
      \/ (cfg.frame # "" \/ cfg.referrer # "") /\ m = <<"headers", TRUE>>
      \/ cfg.cors /\ m = <<"cors", TRUE>>
      \/ LuaOn /\ ScriptOn /\ cfg.phase # "route" /\ m = <<"lua", NewLuaOK>>
  BY ZenonT(60) DEF Middlewares
<1>2. ASSUME NEW name, NEW ok, m = <<name, ok>> PROVE ~ok
  <2>1. m[2] = ok
    BY <1>2
  <2> QED
    BY <2>1, Zenon
<1> QED
  BY <1>1, <1>2, Zenon

\* What the rest of the start relies on in a configuration that is valid.
LEMMA ValidVetted == AnyConfig /\ Valid => Vetted
<1> SUFFICES ASSUME AnyConfig, Valid PROVE Vetted
  OBVIOUS
<1>1. validateServer
  BY DEF Valid
<1>2. validateSSL /\ validateSecurity
  BY <1>1 DEF validateServer
<1>3. validateAuth /\ validateRateLimit
  BY <1>2 DEF validateSecurity
<1>4. cfg.auth # "" => cfg.auth = "basic" /\ cfg.user # ""
  BY <1>3, Zenon DEF validateAuth
<1>5. cfg.rate >= 0 /\ cfg.connLimit >= 0
  BY <1>3 DEF AnyConfig, validateRateLimit
<1>6. cfg.cert # "" => cfg.cert = "both"
  BY <1>2, Zenon DEF validateSSL
<1>7. cfg.lua => cfg.script # ""
  BY <1>1, Zenon DEF validateServer, validateLua
<1> QED
  BY <1>4, <1>5, <1>6, <1>7 DEF Vetted

\* The configuration does not change, nor what was found out about it.
LEMMA RulesFixed ==
  ASSUME cfg' = cfg
  PROVE  /\ (AnyConfig' <=> AnyConfig) /\ (Vetted' <=> Vetted)
         /\ (FilesMissing' <=> FilesMissing) /\ (LateChecks' <=> LateChecks)
         /\ (Listed' <=> Listed) /\ (ConnsLimited' <=> ConnsLimited)
         /\ (NewAccessControlOK' <=> NewAccessControlOK)
         /\ (NewRateLimiterOK' <=> NewRateLimiterOK) /\ (NewBasicAuthOK' <=> NewBasicAuthOK)
         /\ (NewAuthRequestOK' <=> NewAuthRequestOK) /\ (NewBodyLimitOK' <=> NewBodyLimitOK)
         /\ (NewRewriteOK' <=> NewRewriteOK) /\ (NewLuaOK' <=> NewLuaOK)
         /\ (NewTLSManagerOK' <=> NewTLSManagerOK) /\ (TLSUsed' <=> TLSUsed)
         /\ (First' <=> First) /\ (Host' <=> Host) /\ (EngineWanted' <=> EngineWanted)
         /\ (ScriptOn' <=> ScriptOn) /\ (StaticRouteOK' <=> StaticRouteOK)
BY DEF AnyConfig, Vetted, FilesMissing, LateChecks, Listed, ConnsLimited, HashFits, First, Host,
   EngineWanted, ScriptOn, StaticRouteOK, TLSUsed,
   NewAccessControlOK, NewRateLimiterOK, NewBasicAuthOK, NewAuthRequestOK, NewBodyLimitOK,
   NewRewriteOK, NewLuaOK, NewTLSManagerOK

\* Validate decides who goes on.
LEMMA RulesValidated ==
  ASSUME RulesInv, ValidateRules
  PROVE  RulesInv'
<1>1. /\ cfg' = cfg /\ installed' = installed
      /\ boot = "load" /\ boot' \in {"init", "rejected"}
      /\ (boot' = "init" => Vetted)
  BY ValidVetted DEF ValidateRules, RulesInv
<1> QED
  BY <1>1, RulesFixed DEF RulesInv, Checked, AcceptedStarts

LEMMA RulesInited ==
  ASSUME RulesInv, InitParts
  PROVE  RulesInv'
<1>1. cfg' = cfg /\ boot' \in {"failed", "routes"}
  BY DEF InitParts
<1>2. CASE boot' = "failed"
  BY <1>1, <1>2, RulesFixed DEF InitParts, RulesInv, Checked, AcceptedStarts, FilesMissing
<1>3. CASE boot' = "routes"
  <2>1. EngineRuns'
    <3>1. installed = {} /\ AnyConfig
      BY DEF InitParts, RulesInv, Checked
    <3>2. installed' = installed
             \cup ((IF First /\ cfg.pages # "none" THEN {"pages"} ELSE {})
                    \cup (IF EngineWanted THEN {"lua engine"} ELSE {}))
      BY <1>3, <3>1, Zenon DEF InitParts, Runs
    <3>3. "lua engine" \in installed' <=> EngineWanted
      BY <3>1, <3>2
    <3> QED
      BY <1>1, <3>3, RulesFixed DEF EngineRuns
  <2> QED
    BY <1>1, <1>3, <2>1, RulesFixed DEF InitParts, RulesInv, Checked, AcceptedStarts
<1> QED
  BY <1>1, <1>2, <1>3

LEMMA RulesRegistered ==
  ASSUME RulesInv, RegisterRoutes
  PROVE  RulesInv'
<1>1. cfg' = cfg /\ boot' \in {"stack overflow", "failed", "chain"} /\ boot = "routes"
  BY DEF RegisterRoutes
<1>2. EngineRuns /\ AnyConfig
  BY <1>1 DEF RulesInv, Checked
<1>3. CASE boot' = "chain"
  <2>1. /\ ~(cfg.algorithm = "sticky" /\ cfg.fallback = "sticky") /\ StaticRouteOK
        /\ installed' = installed
             \cup ((IF cfg.path # "none" /\ NewProxyOK THEN {"proxy"} ELSE {})
                    \cup (IF LuaOn /\ cfg.phase = "route" /\ ~Host THEN {"lua"} ELSE {}))
    BY <1>3, Zenon DEF RegisterRoutes, Runs
  <2>2. /\ "lua engine" \in installed' <=> "lua engine" \in installed
        /\ LuaOn /\ cfg.phase = "route" /\ ~Host => "lua" \in installed'
    BY <2>1
  <2>3. EngineRuns'
    BY <1>1, <1>2, <2>2, RulesFixed DEF EngineRuns
  <2>4. RouteRuns'
    BY <1>1, <1>2, <2>2, RulesFixed DEF EngineRuns, RouteRuns, LuaOn
  <2> QED
    BY <1>1, <1>3, <2>1, <2>3, <2>4, RulesFixed DEF RulesInv, Checked, AcceptedStarts
<1>4. CASE boot' = "failed"
  <2>1. LateChecks
    BY <1>4 DEF RegisterRoutes, LateChecks
  <2> QED
    BY <1>1, <1>4, <2>1, RulesFixed DEF RulesInv, Checked, AcceptedStarts
<1>5. CASE boot' = "stack overflow"
  <2>1. cfg.algorithm = "sticky" /\ cfg.fallback = "sticky"
    BY <1>5 DEF RegisterRoutes
  <2> QED
    BY <1>1, <1>5, <2>1, RulesFixed DEF RulesInv, Checked, AcceptedStarts
<1> QED
  BY <1>1, <1>3, <1>4, <1>5

LEMMA RulesChained ==
  ASSUME RulesInv, BuildChain
  PROVE  RulesInv'
<1>1. cfg' = cfg /\ boot = "chain" /\ boot' \in {"failed", "listen"}
  BY DEF BuildChain
<1>2. CASE boot' = "failed"
  <2>1. LateChecks \/ FilesMissing
    <3>1. PICK m \in Middlewares : ~m[2]
      BY <1>1, <1>2, Zenon DEF BuildChain
    <3>2. AnyConfig /\ Vetted /\ EngineRuns
      BY <1>1 DEF RulesInv, Checked
    <3>3. CASE Listed /\ ~NewAccessControlOK
      BY <3>3, Zenon DEF NewAccessControlOK, LateChecks, FilesMissing
    <3>4. CASE cfg.rate > 0 /\ ~NewRateLimiterOK
      <4>1. /\ cfg.rate > 0 /\ cfg.limiter # "sliding_window"
            /\ cfg.trusted \in {"bad", "ip"} \/ cfg.burst < cfg.rate
        BY <3>2, <3>4 DEF NewRateLimiterOK, AnyConfig
      <4> QED
        BY <4>1, Zenon DEF LateChecks
    <3>5. CASE cfg.user # "" /\ ~NewBasicAuthOK
      BY <3>2, <3>5, Zenon DEF NewBasicAuthOK, Vetted, LateChecks
    <3>6. CASE cfg.authURI \notin {"off", ""} /\ ~NewAuthRequestOK
      BY <3>6, Zenon DEF NewAuthRequestOK, LateChecks
    <3>7. CASE ~NewBodyLimitOK
      BY <3>7, Zenon DEF NewBodyLimitOK, LateChecks
    <3>8. CASE cfg.pattern # "none" /\ ~NewRewriteOK
      BY <3>8, Zenon DEF NewRewriteOK, LateChecks
    <3>9. CASE LuaOn /\ ScriptOn /\ cfg.phase # "route" /\ ~NewLuaOK
      BY <3>2, <3>9, Zenon DEF NewLuaOK, LuaOn, EngineRuns, LateChecks
    <3> QED
      BY <3>1, <3>3, <3>4, <3>5, <3>6, <3>7, <3>8, <3>9, MiddlewareFails, Zenon
  <2> QED
    BY <1>1, <1>2, <2>1, RulesFixed DEF RulesInv, Checked, AcceptedStarts
<1>3. CASE boot' = "listen"
  <2>1. /\ \A m \in Middlewares : m[2]
        /\ installed' = installed \cup {m[1] : m \in Middlewares}
    BY <1>1, <1>3, Zenon DEF BuildChain, Runs
  <2>2. ASSUME NEW name, NEW ok, <<name, ok>> \in Middlewares
        PROVE  ok /\ name \in installed'
    <3>1. <<name, ok>>[1] = name /\ <<name, ok>>[2] = ok
      OBVIOUS
    <3> QED
      BY <2>1, <2>2, <3>1, Zenon
  <2>3. cfg.lua /\ EngineWanted => LuaOn
    BY <1>1 DEF RulesInv, Checked, EngineRuns, LuaOn
  <2>4. /\ Listed => NewAccessControlOK /\ "access" \in installed'
        /\ cfg.rate > 0 => NewRateLimiterOK /\ "rate" \in installed'
        /\ ConnsLimited => "conns" \in installed'
        /\ cfg.user # "" => NewBasicAuthOK /\ "auth" \in installed'
        /\ cfg.authURI \notin {"off", ""} => NewAuthRequestOK /\ "auth request" \in installed'
        /\ NewBodyLimitOK
        /\ cfg.pattern # "none" => NewRewriteOK
        /\ cfg.lua /\ EngineWanted /\ ScriptOn /\ cfg.phase # "route" => NewLuaOK /\ "lua" \in installed'
    <3>1. Listed => NewAccessControlOK /\ "access" \in installed'
      BY <2>2, MiddlewareOn, Zenon
    <3>2. cfg.rate > 0 => NewRateLimiterOK /\ "rate" \in installed'
      BY <2>2, MiddlewareOn, Zenon
    <3>3. ConnsLimited => "conns" \in installed'
      BY <2>2, MiddlewareOn, Zenon
    <3>4. cfg.user # "" => NewBasicAuthOK /\ "auth" \in installed'
      BY <2>2, MiddlewareOn, Zenon
    <3>5. cfg.authURI \notin {"off", ""} => NewAuthRequestOK /\ "auth request" \in installed'
      BY <2>2, MiddlewareOn, Zenon
    <3>6. NewBodyLimitOK /\ "body" \in installed'
      <4>1. <<"body", NewBodyLimitOK>> \in Middlewares
        BY MiddlewareOn, Zenon
      <4> QED
        BY <2>2, <4>1, Zenon
    <3>7. ASSUME cfg.pattern # "none" PROVE NewRewriteOK /\ "rewrite" \in installed'
      <4>1. <<"rewrite", NewRewriteOK>> \in Middlewares
        BY <3>7, MiddlewareOn, Zenon
      <4> QED
        BY <2>2, <4>1, Zenon
    <3>8. cfg.lua /\ EngineWanted /\ ScriptOn /\ cfg.phase # "route" => NewLuaOK /\ "lua" \in installed'
      BY <2>2, <2>3, MiddlewareOn, Zenon
    <3> QED
      BY <3>1, <3>2, <3>3, <3>4, <3>5, <3>6, <3>7, <3>8
  <2>5. ChainBuilt'
    BY <1>1, <2>4, RulesFixed DEF ChainBuilt
  <2>6. RouteRuns => RouteRuns'
    <3>1. installed \subseteq installed'
      BY <2>1
    <3> QED
      BY <1>1, <3>1, RulesFixed DEF RouteRuns
  <2> QED
    BY <1>1, <1>3, <2>5, <2>6, RulesFixed DEF RulesInv, Checked, AcceptedStarts
<1> QED
  BY <1>1, <1>2, <1>3

LEMMA RulesServing ==
  ASSUME RulesInv, ListenAndServe
  PROVE  RulesInv'
<1>1. cfg' = cfg /\ boot = "listen" /\ boot' \in {"failed", "serving"}
  BY DEF ListenAndServe
<1>2. CASE boot' = "failed"
  <2>1. LateChecks \/ FilesMissing
    BY <1>1, <1>2 DEF ListenAndServe, LateChecks, FilesMissing, NewTLSManagerOK, RulesInv,
       AnyConfig, TLSUsed
  <2> QED
    BY <1>1, <1>2, <2>1, RulesFixed DEF RulesInv, Checked, AcceptedStarts
<1>3. CASE boot' = "serving"
  <2>1. /\ TLSUsed => NewTLSManagerOK /\ "tls" \in installed'
        /\ installed \subseteq installed'
    BY <1>1, <1>3 DEF ListenAndServe, Runs
  <2>2. AnyConfig /\ ChainBuilt /\ Vetted /\ ~(First /\ cfg.pages = "all missing")
        /\ ~(cfg.algorithm = "sticky" /\ cfg.fallback = "sticky") /\ StaticRouteOK /\ RouteRuns
    BY <1>1 DEF RulesInv, Checked
  <2>3. ChainBuilt' /\ RouteRuns'
    BY <1>1, <2>1, <2>2, RulesFixed DEF ChainBuilt, RouteRuns
  <2>4. ~FilesMissing
    BY <2>1, <2>2, Zenon DEF FilesMissing, ChainBuilt, NewTLSManagerOK, NewAccessControlOK
  <2>5. ~LateChecks
    <3>1. ~(cfg.rate > 0 /\ cfg.limiter # "sliding_window"
              /\ (cfg.trusted \in {"bad", "ip"} \/ cfg.burst < cfg.rate))
      <4>1. cfg.rate > 0 => NewRateLimiterOK
        BY <2>2, Zenon DEF ChainBuilt
      <4>2. cfg.rate \in Int /\ cfg.burst \in Int
        BY <2>2 DEF AnyConfig
      <4> QED
        BY <4>1, <4>2 DEF NewRateLimiterOK
    <3>2. ~(cfg.user # "" /\ (cfg.auth = "" \/ ~HashFits))
      BY <2>2 DEF ChainBuilt, NewBasicAuthOK
    <3>3. ~(cfg.authURI = "no host") /\ ~(cfg.bodySize = "bad")
          /\ ~(cfg.path # "none" /\ cfg.pathSize = "bad")
          /\ cfg.pattern \notin {"bad", "unsafe"}
      BY <2>2 DEF ChainBuilt, NewAuthRequestOK, NewBodyLimitOK, NewRewriteOK
    <3>4. ~(cfg.lua /\ EngineWanted /\ ScriptOn /\ cfg.phase = "")
      BY <2>2 DEF ChainBuilt, NewLuaOK
    <3>5. ~(Listed /\ cfg.trusted = "bad") /\ ~(TLSUsed /\ cfg.cipher = "unknown")
      BY <2>1, <2>2, Zenon DEF ChainBuilt, NewAccessControlOK, NewTLSManagerOK
    <3> QED
      BY <2>2, <3>1, <3>2, <3>3, <3>4, <3>5, Zenon DEF LateChecks
  <2> QED
    BY <1>1, <1>3, <2>1, <2>2, <2>3, <2>4, <2>5, RulesFixed DEF RulesInv, Checked, AcceptedStarts
<1> QED
  BY <1>1, <1>2, <1>3

LEMMA RulesInductive == RulesInv /\ [RulesNext]_ruleVars => RulesInv'
<1>1. ASSUME RulesInv, UNCHANGED ruleVars PROVE RulesInv'
  <2>1. cfg' = cfg /\ boot' = boot /\ installed' = installed
    BY <1>1 DEF ruleVars
  <2>2. ChainBuilt => ChainBuilt'
    BY <2>1, RulesFixed DEF ChainBuilt
  <2>3. Checked => Checked'
    BY <2>1, RulesFixed DEF Checked, EngineRuns, RouteRuns
  <2> QED
    BY <1>1, <2>1, <2>2, <2>3, RulesFixed DEF RulesInv, AcceptedStarts
<1> QED
  BY <1>1, RulesValidated, RulesInited, RulesRegistered, RulesChained, RulesServing
  DEF RulesNext

\* Whoever serves has at work what it was told to guard itself with.
LEMMA RulesGuard == RulesInv => GuardsAtWork
<1> SUFFICES ASSUME RulesInv, boot = "serving" PROVE GuardsAtWork
  BY DEF GuardsAtWork
<1>1. ChainBuilt /\ Vetted /\ AnyConfig /\ RouteRuns
  BY DEF RulesInv, Checked
<1>2. cfg.cert = "both" => "tls" \in installed \/ cfg.role = "host"
  BY DEF RulesInv, TLSUsed
<1>3. /\ cfg.rate # 0 => "rate" \in installed
      /\ cfg.connLimit # 0 => "conns" \in installed
  <2>1. /\ cfg.rate > 0 => "rate" \in installed
        /\ cfg.connLimit > 0 => "conns" \in installed
    BY <1>1, Zenon DEF ChainBuilt, ConnsLimited
  <2>2. cfg.rate \in Int /\ cfg.connLimit \in Int /\ cfg.rate >= 0 /\ cfg.connLimit >= 0
    BY <1>1, Zenon DEF AnyConfig, Vetted
  <2> QED
    BY <2>1, <2>2
<1>4. /\ "access" \in installed \/ (cfg.allow = "" /\ cfg.deny = "")
      /\ cfg.auth # "" \/ cfg.user # "" => "auth" \in installed
      /\ cfg.authURI # "off" => "auth request" \in installed \/ cfg.authURI = ""
      /\ cfg.cert # "" => "tls" \in installed \/ cfg.role = "host"
  BY <1>1, <1>2, Zenon DEF ChainBuilt, Vetted, Listed
<1>5. ASSUME cfg.lua, "lua" \notin installed, EngineWanted
      PROVE  IF cfg.phase = "route" THEN Host ELSE ~cfg.enabled /\ cfg.timeout # 0
  <2>1. CASE cfg.phase = "route"
    BY <1>1, <1>5, <2>1 DEF RouteRuns
  <2>2. CASE cfg.phase # "route"
    BY <1>1, <1>5, <2>2 DEF ChainBuilt, ScriptOn, Vetted
  <2> QED
    BY <2>1, <2>2
<1> QED
  BY <1>3, <1>4, <1>5, Zenon DEF GuardsAtWork

\* The configurations the runs look at are among them.
LEMMA RulesInitAny == RulesInit => AnyRulesInit
<1> SUFFICES ASSUME RulesInit PROVE AnyConfig
  BY DEF RulesInit, AnyRulesInit
<1> DEFINE Numbers == {"rate", "burst", "connLimit"}
           Switches == {"firstLua", "lua", "geo"}
           Typed(c) == /\ \A x \in Numbers : c[x] \in Int
                       /\ \A x \in Switches : c[x] \in BOOLEAN
                       /\ c.pem \in {"ok", "missing"}
<1>0. ASSUME Typed(cfg) PROVE AnyConfig
  BY <1>0 DEF AnyConfig
<1>1. Numbers \cup Switches \cup {"pem"} \subseteq DOMAIN Rich
  BY DEF Rich
<1>2. Typed(Rich)
  <2>1. Rich.rate = 1 /\ Rich.burst = 1 /\ Rich.connLimit = 1
    BY DEF Rich
  <2>2. Rich["firstLua"] \in BOOLEAN /\ Rich["lua"] \in BOOLEAN /\ Rich["geo"] \in BOOLEAN
    BY DEF Rich
  <2>3. Rich.pem = "ok"
    BY DEF Rich
  <2>4. \A x \in Switches : Rich[x] \in BOOLEAN
    BY <2>2, Zenon
  <2>5. \A x \in Numbers : Rich[x] \in Int
    BY <2>1
  <2> QED
    BY <2>3, <2>4, <2>5, Zenon
<1>3. \A x \in Numbers : Others[x] \subseteq Int
  <2>1. Others.rate = {0, -1, 2}
    BY DEF Others
  <2>2. Others.burst = {0, -1}
    BY DEF Others
  <2>3. Others.connLimit = {0, -1}
    BY DEF Others
  <2> QED
    BY <2>1, <2>2, <2>3
<1>4. \A x \in Switches : Others[x] \subseteq BOOLEAN
  <2>1. Others.firstLua = {FALSE}
    BY DEF Others
  <2>2. Others.lua = {FALSE}
    BY DEF Others
  <2>3. Others.geo = {FALSE}
    BY DEF Others
  <2> QED
    BY <2>1, <2>2, <2>3
<1>5. Others.pem \subseteq {"ok", "missing"}
  BY DEF Others
<1> HIDE DEF Typed, Numbers, Switches
<1>6. CASE cfg = Rich
  BY <1>0, <1>2, <1>6
<1>7. CASE cfg = DefaultConfig
  BY <1>7 DEF AnyConfig, Rich, DefaultConfig
<1>8. ASSUME NEW f \in DOMAIN Others, NEW g \in DOMAIN Others, NEW v \in Others[f],
             NEW w \in Others[g], cfg = [Rich EXCEPT ![f] = v, ![g] = w]
      PROVE  AnyConfig
  <2>1. ASSUME NEW x \in DOMAIN Rich
        PROVE  cfg[x] \in Others[x] \/ cfg[x] = Rich[x]
    BY <1>8
  <2> QED
    BY <1>0, <1>1, <1>2, <1>3, <1>4, <1>5, <2>1 DEF Typed
<1> QED
  BY <1>6, <1>7, <1>8 DEF RulesInit

\* For every server of a configuration, whatever its fields hold and whatever the
\* run mode: what Validate accepts and the start then refuses has one of the causes
\* listed, and with one of them it never serves.
THEOREM RulesAcceptedStarts == (AnyRulesSpec \/ RulesSpec) => []AcceptedStarts
<1>1. AnyRulesInit => RulesInv
  BY DEF AnyRulesInit, RulesInv, Checked, AcceptedStarts
<1>2. RulesInv => AcceptedStarts
  BY DEF RulesInv
<1> QED
  BY <1>1, <1>2, RulesInitAny, RulesInductive, PTL DEF AnyRulesSpec, RulesSpec

\* And whatever it is told to guard itself with is at work when it serves, but for
\* what the start passes over.
THEOREM RulesGuardsAtWork == (AnyRulesSpec \/ RulesSpec) => []GuardsAtWork
<1>1. AnyRulesInit => RulesInv
  BY DEF AnyRulesInit, RulesInv, Checked, AcceptedStarts
<1> QED
  BY <1>1, RulesGuard, RulesInitAny, RulesInductive, PTL DEF AnyRulesSpec, RulesSpec

-----------------------------------------------------------------------------
(* Virtual hosts *)

\* Host names are what is registered, and the expressions are a list.
HostsInv ==
  /\ hosts \in [HostKinds -> UNION {[D -> Nat] : D \in SUBSET HostNames}]
  /\ regexHosts \in Seq(Regexes \X Nat) /\ tried \in Nat

LEMMA HostsStart == LocInit => HostsInv
<1> SUFFICES ASSUME LocInit PROVE HostsInv
  OBVIOUS
<1>1. << >> \in [{} -> Nat] /\ {} \in SUBSET HostNames
  OBVIOUS
<1>2. << >> \in UNION {[D -> Nat] : D \in SUBSET HostNames}
  BY <1>1
<1> QED
  BY <1>2 DEF LocInit, HostsInv

LEMMA HostsAdded ==
  ASSUME NEW H \in UNION {[D -> Nat] : D \in SUBSET HostNames}, NEW name \in HostNames, NEW n \in Nat
  PROVE  [x \in DOMAIN H \cup {name} |-> IF x = name THEN n ELSE H[x]]
            \in UNION {[D -> Nat] : D \in SUBSET HostNames}
<1>1. PICK D \in SUBSET HostNames : H \in [D -> Nat]
  OBVIOUS
<1>2. DOMAIN H = D
  BY <1>1
<1>3. D \cup {name} \in SUBSET HostNames
  OBVIOUS
<1>4. [x \in D \cup {name} |-> IF x = name THEN n ELSE H[x]] \in [D \cup {name} -> Nat]
  BY <1>1
<1> QED
  BY <1>2, <1>3, <1>4

LEMMA HostsInductive == HostsInv /\ [LocNext]_locVars => HostsInv'
<1> SUFFICES ASSUME HostsInv, [LocNext]_locVars PROVE HostsInv'
  OBVIOUS
<1>1. ASSUME NEW k \in HostKinds, NEW h \in HostNames, AddHost(k, h) PROVE HostsInv'
  <2>1. tried' \in Nat
    BY <1>1 DEF HostsInv, AddHost, Registering
  <2>2. hosts[k] \in UNION {[D -> Nat] : D \in SUBSET HostNames}
    BY DEF HostsInv
  <2>3. [x \in DOMAIN hosts[k] \cup {h} |-> IF x = h THEN tried' ELSE hosts[k][x]]
            \in UNION {[D -> Nat] : D \in SUBSET HostNames}
    BY <2>1, <2>2, HostsAdded
  <2>4. hosts' = [hosts EXCEPT ![k] =
            [x \in DOMAIN hosts[k] \cup {h} |-> IF x = h THEN tried' ELSE hosts[k][x]]]
    BY <1>1 DEF AddHost
  <2>5. hosts' \in [HostKinds -> UNION {[D -> Nat] : D \in SUBSET HostNames}]
    BY <2>3, <2>4 DEF HostsInv
  <2> QED
    BY <1>1, <2>1, <2>5 DEF HostsInv, AddHost
<1>2. ASSUME NEW r \in Regexes, AddRegexHost(r) PROVE HostsInv'
  BY <1>2 DEF AddRegexHost, HostsInv, Registering
<1>3. ASSUME NEW p \in Paths, AddExact(p) PROVE HostsInv'
  BY <1>3 DEF AddExact, HostsInv, Registering
<1>4. ASSUME NEW p \in Paths, NEW t \in PrefixTypes, AddPrefix(t, p) PROVE HostsInv'
  BY <1>4 DEF AddPrefix, HostsInv, Registering
<1>5. ASSUME NEW r \in Regexes, AddRegex(r) PROVE HostsInv'
  BY <1>5 DEF AddRegex, HostsInv, Registering
<1>6. ASSUME NEW n \in LocationNames, AddNamed(n) PROVE HostsInv'
  BY <1>6 DEF AddNamed, HostsInv, Registering
<1>7. CASE BadRegex \/ Serve \/ UNCHANGED locVars
  BY <1>7 DEF BadRegex, Serve, locVars, HostsInv
<1> QED
  BY <1>1, <1>2, <1>3, <1>4, <1>5, <1>6, <1>7 DEF LocNext

\* A name that is a proper end of a host is what begins at one of its places.
LEMMA SuffixBegins ==
  ASSUME NEW S, NEW T, NEW x \in Seq(S), NEW h \in Seq(T), Len(x) < Len(h), IsSuffix(x, h)
  PROVE  x = SubSeq(h, Len(h) - Len(x) + 1, Len(h))
<1> DEFINE n == Len(x)
           m == Len(h)
<1>1. n \in Nat /\ m \in Nat /\ n < m
  OBVIOUS
<1>2. /\ Reverse(x) = [i \in 1..n |-> x[(n - i) + 1]]
      /\ Reverse(h) = [i \in 1..m |-> h[(m - i) + 1]]
  BY DEF Reverse
<1>3. /\ Reverse(x) \in Seq(S) /\ Len(Reverse(x)) = n
      /\ Reverse(h) \in Seq(T) /\ Len(Reverse(h)) = m
  BY <1>1, <1>2
<1>4. SubSeq(Reverse(x), 1, n) = SubSeq(Reverse(h), 1, n)
  BY <1>3 DEF IsSuffix, IsPrefix
<1>5. ASSUME NEW i \in 1..n PROVE x[(n - i) + 1] = h[(m - i) + 1]
  <2>1. SubSeq(Reverse(x), 1, n)[i] = Reverse(x)[i]
    BY <1>1, <1>3
  <2>2. SubSeq(Reverse(h), 1, n)[i] = Reverse(h)[i]
    BY <1>1, <1>3
  <2>3. i \in 1..m
    BY <1>1
  <2>4. Reverse(x)[i] = x[(n - i) + 1]
    BY <1>2
  <2>5. Reverse(h)[i] = h[(m - i) + 1]
    BY <1>2, <2>3
  <2> QED
    BY <1>4, <2>1, <2>2, <2>4, <2>5, Zenon
<1>6. ASSUME NEW j \in 1..n PROVE x[j] = h[(m - n) + j]
  <2>1. n - j + 1 \in 1..n /\ (n - (n - j + 1)) + 1 = j /\ (m - (n - j + 1)) + 1 = (m - n) + j
    BY <1>1
  <2> QED
    BY <1>5, <2>1
<1> DEFINE y == SubSeq(h, m - n + 1, m)
<1>7. Len(y) = n /\ y \in Seq(T) /\ \A j \in 1..n : y[j] = h[(m - n) + j]
  BY <1>1
<1> HIDE DEF y
<1>8. x = y
  <2>1. Len(x) = Len(y)
    BY <1>7
  <2>2. \A j \in 1..Len(x) : x[j] = y[j]
    BY <1>6, <1>7
  <2> QED
    BY ONLY <1>7, <2>1, <2>2, SeqEqual, x \in Seq(S)
<1> QED
  BY <1>8 DEF y

\* And what begins at one of its places is a proper end of it.
LEMMA BeginsSuffix ==
  ASSUME NEW T, NEW h \in Seq(T), NEW i \in 2..Len(h)
  PROVE  LET x == SubSeq(h, i, Len(h))
         IN  x \in Seq(T) /\ Len(x) = Len(h) - i + 1 /\ Len(x) < Len(h) /\ IsSuffix(x, h)
<1> DEFINE x == SubSeq(h, i, Len(h))
           m == Len(h)
           n == m - i + 1
<1>1. m \in Nat /\ n \in Nat /\ n < m /\ i \in Nat
  OBVIOUS
<1>2. x \in Seq(T) /\ Len(x) = n /\ \A j \in 1..n : x[j] = h[(i - 1) + j]
  BY <1>1
<1> HIDE DEF x
<1>3. /\ Reverse(x) = [j \in 1..n |-> x[(n - j) + 1]]
      /\ Reverse(h) = [j \in 1..m |-> h[(m - j) + 1]]
  BY <1>2 DEF Reverse
<1>4. /\ Reverse(x) \in Seq(T) /\ Len(Reverse(x)) = n
      /\ Reverse(h) \in Seq(T) /\ Len(Reverse(h)) = m
  BY <1>1, <1>2, <1>3
<1>5. ASSUME NEW j \in 1..n PROVE Reverse(x)[j] = Reverse(h)[j]
  <2>1. n - j + 1 \in 1..n /\ (i - 1) + (n - j + 1) = (m - j) + 1 /\ j \in 1..m
    BY <1>1
  <2> QED
    BY <1>2, <1>3, <2>1
<1>6. /\ SubSeq(Reverse(x), 1, n) \in Seq(T) /\ Len(SubSeq(Reverse(x), 1, n)) = n
      /\ SubSeq(Reverse(h), 1, n) \in Seq(T) /\ Len(SubSeq(Reverse(h), 1, n)) = n
      /\ \A j \in 1..n : /\ SubSeq(Reverse(x), 1, n)[j] = Reverse(x)[j]
                         /\ SubSeq(Reverse(h), 1, n)[j] = Reverse(h)[j]
  BY <1>1, <1>4
<1>7. SubSeq(Reverse(x), 1, n) = SubSeq(Reverse(h), 1, n)
  BY <1>5, <1>6, SeqEqual
<1>8. IsSuffix(x, h)
  BY <1>1, <1>4, <1>7 DEF IsSuffix, IsPrefix
<1> QED
  BY <1>1, <1>2, <1>8 DEF x

\* The places where a registered suffix begins are the names that cover the
\* host: the first place has the longest of them.
LEMMA WidestBegins ==
  ASSUME HostsInv, NEW h \in HostNames
  PROVE  LET wide == {x \in DOMAIN hosts["suffix"] : Len(x) < Len(h) /\ IsSuffix(x, h)}
             starts == WildcardSuffixes(h)
             x == SubSeq(h, Min(starts), Len(h))
         IN  /\ starts # {} <=> wide # {}
             /\ starts # {} => x \in wide /\ \A y \in wide : Len(y) <= Len(x)
<1> DEFINE wide == {x \in DOMAIN hosts["suffix"] : Len(x) < Len(h) /\ IsSuffix(x, h)}
           starts == WildcardSuffixes(h)
           from(i) == SubSeq(h, i, Len(h))
<1>1. h \in Seq(Range(h)) /\ Len(h) \in Nat
  BY LocAssumption
<1>2. DOMAIN hosts["suffix"] \subseteq HostNames
  BY DEF HostsInv, HostKinds
<1>3. starts \in SUBSET (1..Len(h)) /\ starts = {i \in 2..Len(h) : from(i) \in DOMAIN hosts["suffix"]}
  BY <1>1 DEF WildcardSuffixes
<1>4. ASSUME NEW i \in starts PROVE from(i) \in wide /\ Len(from(i)) = Len(h) - i + 1
  BY <1>1, <1>3, BeginsSuffix
<1>5. ASSUME NEW y \in wide PROVE \E i \in starts : y = from(i) /\ Len(y) = Len(h) - i + 1
  <2> DEFINE i == Len(h) - Len(y) + 1
  <2>1. y \in Seq(Range(y)) /\ y # <<>> /\ Len(y) \in Nat /\ Len(y) > 0
    BY <1>2, LocAssumption
  <2>2. y = from(i)
    BY <1>1, <2>1, SuffixBegins
  <2>3. i \in 2..Len(h) /\ Len(y) = Len(h) - i + 1
    BY <1>1, <2>1
  <2>4. i \in starts
    BY <1>3, <2>2, <2>3
  <2> QED
    BY <2>2, <2>3, <2>4
<1>6. starts # {} => Min(starts) \in starts /\ \A i \in starts : Min(starts) <= i
  BY <1>1, <1>3, FirstPosition
<1> HIDE DEF wide, starts, from
<1>7. starts # {} <=> wide # {}
  BY <1>4, <1>5
<1>8. ASSUME starts # {}, NEW y \in wide PROVE Len(y) <= Len(from(Min(starts)))
  <2>1. PICK i \in starts : Len(y) = Len(h) - i + 1
    BY <1>5
  <2>2. Len(from(Min(starts))) = Len(h) - Min(starts) + 1
    BY <1>4, <1>6, <1>8
  <2>3. i \in 1..Len(h) /\ Min(starts) \in 1..Len(h) /\ Min(starts) <= i
    BY <1>3, <1>6, <1>8
  <2> QED
    BY <1>1, <2>1, <2>2, <2>3
<1>9. starts # {} => from(Min(starts)) \in wide
  BY <1>4, <1>6
<1> QED
  BY <1>7, <1>8, <1>9 DEF wide, starts, from

\* The first label of a list, as a list.
LEMMA OneLabel ==
  ASSUME NEW T, NEW h \in Seq(T), Len(h) > 0
  PROVE  SubSeq(h, 1, 1) = <<h[1]>> /\ Len(<<h[1]>>) = 1
<1> DEFINE y == SubSeq(h, 1, 1)
<1>1. Len(h) \in Nat /\ h[1] \in T
  OBVIOUS
<1>2. y \in Seq(T) /\ Len(y) = 1 /\ y[1] = h[1]
  BY <1>1
<1>3. <<h[1]>> \in Seq(T) /\ Len(<<h[1]>>) = 1 /\ <<h[1]>>[1] = h[1]
  BY <1>1
<1> HIDE DEF y
<1>4. y = <<h[1]>>
  BY <1>2, <1>3, SeqEqual
<1> QED
  BY <1>3, <1>4 DEF y

\* "name.*" covers a host whose first label it is.
LEMMA FirstLabel ==
  ASSUME NEW h \in HostNames, NEW D \in SUBSET HostNames
  PROVE  /\ (\E x \in D : IsStrictPrefix(x, h) /\ Len(x) = 1) <=> Len(h) >= 2 /\ <<h[1]>> \in D
         /\ h[1] = Head(h)
<1>1. h \in Seq(Range(h)) /\ Len(h) \in Nat /\ Len(h) > 0 /\ h[1] = Head(h)
  BY LocAssumption
<1>0. Len(h) >= 2 => Len(h) # 1
  <2>1. \A n \in Nat : n >= 2 => n # 1
    OBVIOUS
  <2> QED
    BY <1>1, <2>1, Zenon
<1>2. ASSUME NEW x \in D, IsStrictPrefix(x, h), Len(x) = 1
      PROVE  Len(h) >= 2 /\ x = <<h[1]>>
  <2>1. x \in Seq(Range(x))
    BY LocAssumption
  <2>2. x = <<x[1]>> /\ SubSeq(x, 1, 1) = x
    BY <1>2, <2>1
  <2>3. SubSeq(h, 1, 1) = <<h[1]>>
    BY <1>1, OneLabel
  <2>4. x = <<h[1]>>
    BY <1>2, <2>2, <2>3 DEF IsStrictPrefix, IsPrefix
  <2>5. Len(h) # 1
    BY <1>1, <1>2, <2>4 DEF IsStrictPrefix
  <2> QED
    BY <1>1, <2>4, <2>5
<1>3. ASSUME Len(h) >= 2, <<h[1]>> \in D
      PROVE  IsStrictPrefix(<<h[1]>>, h) /\ Len(<<h[1]>>) = 1
  <2> DEFINE y == <<h[1]>>
  <2>1. SubSeq(h, 1, 1) = y /\ Len(y) = 1
    BY <1>1, OneLabel
  <2>2. y \in Seq(Range(y)) /\ y[1] = h[1]
    BY <1>3, LocAssumption
  <2> HIDE DEF y
  <2>3. SubSeq(y, 1, 1) = <<y[1]>>
    BY <2>1, <2>2, OneLabel
  <2>4. SubSeq(y, 1, 1) = y
    BY <2>2, <2>3 DEF y
  <2>5. y # h
    <3>1. Len(h) # 1
      BY <1>0, <1>3, Zenon
    <3> QED
      BY <2>1, <3>1, Zenon
  <2>6. IsStrictPrefix(y, h)
    BY <1>1, <1>3, <2>1, <2>4, <2>5 DEF IsStrictPrefix, IsPrefix
  <2> QED
    BY <2>1, <2>6 DEF y
<1> QED
  BY <1>1, <1>2, <1>3

\* For any names and expressions in any order of registration, a request gets
\* the server of the most specific name that covers its host.
THEOREM HostsSound == LocSpec => []HostSound
<1>1. HostsInv => HostSound
  <2> SUFFICES ASSUME HostsInv, NEW h \in HostNames
               PROVE LET s == FindHost(h)
            covers(x) == Len(x) < Len(h) /\ IsSuffix(x, h)
            wide == {x \in DOMAIN hosts["suffix"] : covers(x)}
        IN IF h \in DOMAIN hosts["exact"] THEN s = hosts["exact"][h]
           ELSE IF wide # {}
             THEN \E x \in wide : s = hosts["suffix"][x] /\ \A y \in wide : Len(y) <= Len(x)
           ELSE IF \E x \in DOMAIN hosts["tld"] : IsStrictPrefix(x, h) /\ Len(x) = 1
             THEN s = hosts["tld"][<<Head(h)>>]
           ELSE \/ /\ s = 0
                   /\ \A i \in DOMAIN regexHosts : h \notin regexHosts[i][1].hosts
                \/ \E i \in DOMAIN regexHosts :
                      /\ s = regexHosts[i][2] /\ h \in regexHosts[i][1].hosts
                      /\ \A j \in 1..(i - 1) : h \notin regexHosts[j][1].hosts
    BY Zenon DEF HostSound
  <2> DEFINE starts == WildcardSuffixes(h)
             fits == {i \in DOMAIN regexHosts : h \in regexHosts[i][1].hosts}
             wide == {x \in DOMAIN hosts["suffix"] : Len(x) < Len(h) /\ IsSuffix(x, h)}
             first == \E x \in DOMAIN hosts["tld"] : IsStrictPrefix(x, h) /\ Len(x) = 1
             longest == SubSeq(h, Min(starts), Len(h))
  <2>1. /\ starts # {} <=> wide # {}
        /\ starts # {} => longest \in wide /\ \A y \in wide : Len(y) <= Len(longest)
    BY WidestBegins
  <2>2. DOMAIN hosts["tld"] \in SUBSET HostNames
    BY DEF HostsInv, HostKinds
  <2>3. /\ first <=> Len(h) >= 2 /\ <<h[1]>> \in DOMAIN hosts["tld"]
        /\ h[1] = Head(h)
    BY <2>2, FirstLabel
  <2>4. fits # {} => Min(fits) \in fits /\ \A j \in fits : Min(fits) <= j
    <3>1. fits \in SUBSET (1..Len(regexHosts)) /\ Len(regexHosts) \in Nat
      BY DEF HostsInv
    <3> QED
      BY <3>1, FirstPosition
  <2>5. FindHost(h) =
          IF h \in DOMAIN hosts["exact"] THEN hosts["exact"][h]
          ELSE IF starts # {} THEN hosts["suffix"][longest]
          ELSE IF Len(h) >= 2 /\ <<h[1]>> \in DOMAIN hosts["tld"] THEN hosts["tld"][<<h[1]>>]
          ELSE IF fits # {} THEN regexHosts[Min(fits)][2]
          ELSE 0
    BY Zenon DEF FindHost
  <2>6. ASSUME fits # {}, NEW j \in 1..(Min(fits) - 1) PROVE h \notin regexHosts[j][1].hosts
    <3>1. Min(fits) \in 1..Len(regexHosts) /\ Len(regexHosts) \in Nat
      BY <2>4, <2>6 DEF HostsInv
    <3>2. j \in DOMAIN regexHosts /\ ~(Min(fits) <= j)
      BY <3>1 DEF HostsInv
    <3> QED
      BY <2>4, <2>6, <3>2
  <2>7. fits # {} => /\ Min(fits) \in DOMAIN regexHosts /\ h \in regexHosts[Min(fits)][1].hosts
    BY <2>4
  <2>8. fits = {} => \A i \in DOMAIN regexHosts : h \notin regexHosts[i][1].hosts
    OBVIOUS
  <2>9. CASE h \in DOMAIN hosts["exact"]
    BY <2>5, <2>9, Zenon
  <2>10. CASE h \notin DOMAIN hosts["exact"] /\ starts # {}
    BY <2>1, <2>5, <2>10, Zenon
  <2>11. CASE h \notin DOMAIN hosts["exact"] /\ starts = {} /\ first
    BY <2>1, <2>3, <2>5, <2>11, Zenon
  <2>12. CASE h \notin DOMAIN hosts["exact"] /\ starts = {} /\ ~first /\ fits = {}
    BY <2>1, <2>3, <2>5, <2>8, <2>12, Zenon
  <2>13. CASE h \notin DOMAIN hosts["exact"] /\ starts = {} /\ ~first /\ fits # {}
    BY <2>1, <2>3, <2>5, <2>6, <2>7, <2>13, Zenon
  <2> QED
    BY <2>9, <2>10, <2>11, <2>12, <2>13, Zenon
<1> QED
  BY <1>1, HostsStart, HostsInductive, PTL DEF LocSpec

-----------------------------------------------------------------------------
(* The location a path leads to *)

Chars == UNION {Range(p) : p \in Paths}

LEMMA PathSeqs ==
  /\ <<>> \in Seq(Chars) /\ Len(<<>>) = 0
  /\ \A p \in Paths : p \in Seq(Chars) /\ p # <<>> /\ Len(p) \in Nat /\ Len(p) > 0
<1>1. ASSUME NEW p \in Paths PROVE p \in Seq(Chars) /\ p # <<>> /\ Len(p) \in Nat /\ Len(p) > 0
  <2>1. p \in Seq(Range(p)) /\ p # <<>>
    BY LocAssumption
  <2>2. Range(p) \subseteq Chars
    BY DEF Chars
  <2>3. p \in Seq(Chars)
    BY <2>1, <2>2
  <2> QED
    BY <2>1, <2>3
<1> QED
  BY <1>1

LEMMA PrefixElements ==
  ASSUME NEW S, NEW p \in Seq(S), NEW q \in Seq(S)
  PROVE  IsPrefix(p, q) <=> Len(p) <= Len(q) /\ \A i \in 1..Len(p) : p[i] = q[i]
<1>1. Len(p) \in Nat /\ Len(q) \in Nat
  OBVIOUS
<1>2. Len(p) <= Len(q) => SubSeq(p, 1, Len(p)) = [i \in 1..Len(p) |-> p[i]]
                          /\ SubSeq(q, 1, Len(p)) = [i \in 1..Len(p) |-> q[i]]
  BY <1>1
<1> QED
  BY <1>2 DEF IsPrefix

LEMMA PrefixOfPrefix ==
  ASSUME NEW S, NEW p \in Seq(S), NEW q \in Seq(S), NEW r \in Seq(S), IsPrefix(p, q), IsPrefix(q, r)
  PROVE  IsPrefix(p, r)
<1>1. Len(p) \in Nat /\ Len(q) \in Nat /\ Len(r) \in Nat
  OBVIOUS
<1>2. Len(p) <= Len(q) /\ Len(q) <= Len(r) /\ (\A i \in 1..Len(p) : p[i] = q[i])
      /\ (\A i \in 1..Len(q) : q[i] = r[i])
  BY PrefixElements
<1>3. Len(p) <= Len(r) /\ \A i \in 1..Len(p) : p[i] = r[i]
  BY <1>1, <1>2
<1> QED
  BY <1>3, PrefixElements

LEMMA EmptyPrefix == ASSUME NEW S, NEW q \in Seq(S) PROVE IsPrefix(<<>>, q)
<1>1. <<>> \in Seq(S) /\ Len(<<>>) = 0 /\ Len(q) \in Nat
  OBVIOUS
<1>2. Len(<<>>) <= Len(q) /\ \A i \in 1..Len(<<>>) : <<>>[i] = q[i]
  BY <1>1
<1> QED
  BY <1>1, <1>2, PrefixElements

\* The nodes of a tree, and where each one was registered.
Nodes(t) == Range(t.nodes) \cup {<<>>}
Place(t, n) == IF n = <<>> THEN 0 ELSE CHOOSE i \in 1..Len(t.nodes) : t.nodes[i] = n

\* A node hangs below the root or below one registered before it that begins its path.
HangsWell(t, i) ==
  \/ t.parent[t.nodes[i]] = <<>>
  \/ \E j \in 1..(i - 1) : t.nodes[j] = t.parent[t.nodes[i]] /\ IsPrefix(t.nodes[j], t.nodes[i])

TreeOK(t) ==
  /\ t.nodes \in Seq(Paths)
  /\ \A i, j \in 1..Len(t.nodes) : t.nodes[i] = t.nodes[j] => i = j
  /\ DOMAIN t.parent = Range(t.nodes)
  /\ \A i \in 1..Len(t.nodes) : HangsWell(t, i)

LEMMA NodesOf ==
  ASSUME NEW t, TreeOK(t)
  PROVE  /\ Len(t.nodes) \in Nat /\ DOMAIN t.nodes = 1..Len(t.nodes)
         /\ Range(t.nodes) = {t.nodes[i] : i \in 1..Len(t.nodes)}
         /\ <<>> \in Nodes(t) /\ \A i \in 1..Len(t.nodes) : t.nodes[i] \in Nodes(t) /\ t.nodes[i] \in Paths
         /\ \A n \in Nodes(t) : n \in Seq(Chars) /\ (n = <<>> \/ n \in Paths)
         /\ \A n \in Nodes(t) : n # <<>> => \E i \in 1..Len(t.nodes) : t.nodes[i] = n
<1>1. t.nodes \in Seq(Paths)
  BY DEF TreeOK
<1>2. Len(t.nodes) \in Nat /\ DOMAIN t.nodes = 1..Len(t.nodes) /\ \A i \in 1..Len(t.nodes) : t.nodes[i] \in Paths
  BY <1>1
<1>3. Range(t.nodes) = {t.nodes[i] : i \in 1..Len(t.nodes)}
  BY <1>2 DEF Range
<1> QED
  BY <1>2, <1>3, PathSeqs DEF Nodes

LEMMA PlaceOf ==
  ASSUME NEW t, TreeOK(t)
  PROVE  /\ Place(t, <<>>) = 0
         /\ \A i \in 1..Len(t.nodes) : Place(t, t.nodes[i]) = i
         /\ \A n \in Nodes(t) : Place(t, n) \in 0..Len(t.nodes)
<1>1. Place(t, <<>>) = 0
  BY DEF Place
<1>2. ASSUME NEW i \in 1..Len(t.nodes) PROVE Place(t, t.nodes[i]) = i
  <2>1. t.nodes[i] # <<>>
    BY NodesOf, PathSeqs
  <2>2. \A j \in 1..Len(t.nodes) : t.nodes[j] = t.nodes[i] => j = i
    BY DEF TreeOK
  <2> QED
    BY <2>1, <2>2 DEF Place
<1>3. \A n \in Nodes(t) : n = <<>> \/ \E i \in 1..Len(t.nodes) : t.nodes[i] = n
  BY NodesOf
<1>4. Len(t.nodes) \in Nat
  BY NodesOf
<1>5. ASSUME NEW n \in Nodes(t) PROVE Place(t, n) \in 0..Len(t.nodes)
  <2>1. CASE n = <<>>
    BY <1>1, <1>4, <2>1
  <2>2. ASSUME NEW i \in 1..Len(t.nodes), t.nodes[i] = n PROVE Place(t, n) \in 0..Len(t.nodes)
    <3>1. Place(t, n) = i
      BY <1>2, <2>2
    <3> QED
      BY <1>4, <3>1
  <2> QED
    BY <1>3, <2>1, <2>2
<1> QED
  BY <1>1, <1>2, <1>5

\* Children are registered after their parent, and carry something of their own.
LEMMA ChildLater ==
  ASSUME NEW t, TreeOK(t), NEW n \in Nodes(t), NEW i \in Children(t, n)
  PROVE  /\ i \in 1..Len(t.nodes) /\ t.nodes[i] \in Nodes(t)
         /\ Place(t, n) < Place(t, t.nodes[i])
<1>1. i \in 1..Len(t.nodes) /\ t.parent[t.nodes[i]] = n
  BY NodesOf DEF Children
<1>2. Place(t, t.nodes[i]) = i
  BY <1>1, PlaceOf
<1>3. CASE n = <<>>
  BY <1>1, <1>2, <1>3, PlaceOf, NodesOf
<1>4. CASE n # <<>>
  <2>1. PICK j \in 1..(i - 1) : t.nodes[j] = n
    BY <1>1, <1>4 DEF TreeOK, HangsWell
  <2>2. j \in 1..Len(t.nodes) /\ j < i
    BY <1>1, <2>1, NodesOf
  <2>3. Place(t, n) = j
    BY <2>1, <2>2, PlaceOf
  <2> QED
    BY <1>1, <1>2, <2>2, <2>3, NodesOf
<1> QED
  BY <1>3, <1>4

\* The recursions over a tree go from a node to nodes registered later.
Depth(t) == [n \in Nodes(t) |-> Len(t.nodes) - Place(t, n)]

LEMMA DepthOf ==
  ASSUME NEW t, TreeOK(t)
  PROVE  /\ Depth(t) \in [Nodes(t) -> 0..Len(t.nodes)] /\ Len(t.nodes) \in Nat
         /\ \A n \in Nodes(t) : \A i \in Children(t, n) :
              t.nodes[i] \in Nodes(t) /\ Depth(t)[t.nodes[i]] < Depth(t)[n]
<1>1. Len(t.nodes) \in Nat /\ \A n \in Nodes(t) : Place(t, n) \in 0..Len(t.nodes)
  BY NodesOf, PlaceOf
<1>2. Depth(t) \in [Nodes(t) -> 0..Len(t.nodes)]
  BY <1>1 DEF Depth
<1>3. ASSUME NEW n \in Nodes(t), NEW i \in Children(t, n)
      PROVE  t.nodes[i] \in Nodes(t) /\ Depth(t)[t.nodes[i]] < Depth(t)[n]
  <2>1. t.nodes[i] \in Nodes(t) /\ Place(t, n) < Place(t, t.nodes[i])
    BY ChildLater
  <2> QED
    BY <1>1, <2>1 DEF Depth
<1> QED
  BY <1>1, <1>2, <1>3

Fits(t, n, path) == {i \in Children(t, n) : IsPrefix(t.nodes[i], path)}

LEMMA FirstFit ==
  ASSUME NEW t, TreeOK(t), NEW n \in Nodes(t), NEW path
  PROVE  /\ Fits(t, n, path) \in SUBSET (1..Len(t.nodes))
         /\ Fits(t, n, path) # {} => Min(Fits(t, n, path)) \in Fits(t, n, path)
<1>1. Len(t.nodes) \in Nat /\ Fits(t, n, path) \in SUBSET (1..Len(t.nodes))
  BY NodesOf DEF Fits, Children
<1> QED
  BY <1>1, FirstPosition

\* insertNode
DownFrom(t, path, h, n) ==
  IF Fits(t, n, path) = {} THEN n ELSE h[t.nodes[Min(Fits(t, n, path))]]

LEMMA DownExists ==
  ASSUME NEW t, TreeOK(t), NEW path
  PROVE  \E h : h = [n \in Nodes(t) |-> DownFrom(t, path, h, n)]
<1> DEFINE D == Nodes(t)
           G == [x \in D \X [D -> D] |-> DownFrom(t, path, x[2], x[1])]
           rank == Depth(t)
           b == Len(t.nodes)
<1>1. b \in Nat /\ rank \in [D -> 0..b] /\ <<>> \in D
  BY DepthOf, NodesOf
<1>2. ASSUME NEW n \in D, Fits(t, n, path) # {}
      PROVE  /\ t.nodes[Min(Fits(t, n, path))] \in D
             /\ rank[t.nodes[Min(Fits(t, n, path))]] < rank[n]
  <2>1. Min(Fits(t, n, path)) \in Children(t, n)
    BY <1>2, FirstFit DEF Fits
  <2> QED
    BY <2>1, DepthOf
<1> HIDE DEF D, rank, b
<1>3. \A n \in D, f \in [D -> D] : DownFrom(t, path, f, n) \in D
  BY <1>2 DEF DownFrom
<1>4. G \in [D \X [D -> D] -> D] /\ \A n \in D, f \in [D -> D] : G[<<n, f>>] = DownFrom(t, path, f, n)
  BY <1>3
<1> HIDE DEF G
<1>5. Descends(D, D, rank, G)
  <2> SUFFICES ASSUME NEW x \in D, NEW f \in [D -> D], NEW g \in [D -> D],
                      \A y \in D : rank[y] < rank[x] => f[y] = g[y]
               PROVE  G[<<x, f>>] = G[<<x, g>>]
    BY DEF Descends
  <2>1. DownFrom(t, path, f, x) = DownFrom(t, path, g, x)
    BY <1>2 DEF DownFrom
  <2> QED
    BY <1>4, <2>1
<1>6. PICK f \in [D -> D] : \A x \in D : f[x] = G[<<x, f>>]
  <2>1. Recursive(D, D, rank, G)
    BY <1>1, <1>4, <1>5 DEF Recursive
  <2> QED
    BY <2>1, Recursion
<1>7. f = [n \in D |-> DownFrom(t, path, f, n)]
  BY <1>4, <1>6
<1> QED
  BY <1>7 DEF D

LEMMA DownFits ==
  ASSUME NEW t, TreeOK(t), NEW path, NEW h, h = [n \in Nodes(t) |-> DownFrom(t, path, h, n)]
  PROVE  \A n \in Nodes(t) : IsPrefix(n, path) => h[n] \in Nodes(t) /\ IsPrefix(h[n], path)
<1> DEFINE D == Nodes(t)
           rank == Depth(t)
           S == {n \in D : IsPrefix(n, path) => h[n] \in D /\ IsPrefix(h[n], path)}
<1>1. rank \in [D -> Nat]
  BY DepthOf
<1>2. Inductive(D, rank, S)
  <2> SUFFICES ASSUME NEW n \in D, \A m \in D : rank[m] < rank[n] => m \in S PROVE n \in S
    BY DEF Inductive
  <2>1. h[n] = DownFrom(t, path, h, n)
    OBVIOUS
  <2>2. CASE Fits(t, n, path) = {}
    BY <2>1, <2>2 DEF DownFrom
  <2>3. CASE Fits(t, n, path) # {}
    <3> DEFINE c == t.nodes[Min(Fits(t, n, path))]
    <3>1. h[n] = h[c]
      BY <2>1, <2>3 DEF DownFrom
    <3>2. Min(Fits(t, n, path)) \in Fits(t, n, path)
      BY <2>3, FirstFit
    <3>3. IsPrefix(c, path) /\ c \in D /\ rank[c] < rank[n]
      BY <3>2, DepthOf DEF Fits
    <3> HIDE DEF c, rank
    <3>4. h[c] \in D /\ IsPrefix(h[c], path)
      BY <3>3
    <3> QED
      BY <3>1, <3>4
  <2> QED
    BY <2>2, <2>3
<1> HIDE DEF D, rank, S
<1>3. \A n \in D : n \in S
  BY <1>1, <1>2, RankInduction
<1> QED
  BY <1>3 DEF D, S

LEMMA BelowFits ==
  ASSUME NEW t, TreeOK(t), NEW path \in Paths
  PROVE  Below(t, path) \in Nodes(t) /\ IsPrefix(Below(t, path), path)
<1> DEFINE down == CHOOSE h : h = [n \in Nodes(t) |-> DownFrom(t, path, h, n)]
<1>1. Below(t, path) = down[<<>>]
  BY Zenon DEF Below, DownFrom, Fits, Nodes
<1>2. down = [n \in Nodes(t) |-> DownFrom(t, path, down, n)]
  BY DownExists
<1> HIDE DEF down
<1>3. <<>> \in Nodes(t) /\ IsPrefix(<<>>, path)
  BY NodesOf, PathSeqs, EmptyPrefix
<1>4. down[<<>>] \in Nodes(t) /\ IsPrefix(down[<<>>], path)
  BY <1>2, <1>3, DownFits
<1> QED
  BY <1>1, <1>4

\* A new path hangs below one that begins it, and moves no other.
LEMMA InsertKeeps ==
  ASSUME NEW t, TreeOK(t), NEW path \in Paths, path \notin Range(t.nodes)
  PROVE  TreeOK(Insert(t, path))
<1> DEFINE u == Insert(t, path)
           L == Len(t.nodes)
<1>1. /\ u.nodes = Append(t.nodes, path)
      /\ u.parent = [p \in Range(t.nodes) \cup {path} |-> IF p = path THEN Below(t, path) ELSE t.parent[p]]
  BY DEF Insert, TreeOK
<1>2. t.nodes \in Seq(Paths) /\ L \in Nat
  BY NodesOf DEF TreeOK
<1>3. /\ u.nodes \in Seq(Paths) /\ Len(u.nodes) = L + 1
      /\ \A i \in 1..L : u.nodes[i] = t.nodes[i] /\ u.nodes[i] # path /\ u.nodes[i] \in Range(t.nodes)
      /\ u.nodes[L + 1] = path
  <2>1. Range(t.nodes) = {t.nodes[i] : i \in 1..L}
    BY NodesOf
  <2> QED
    BY <1>1, <1>2, <2>1
<1> HIDE DEF u, L
<1>4. 1..(L + 1) = 1..L \cup {L + 1} /\ L + 1 \notin 1..L
  BY <1>2
<1>5. \A i, j \in 1..(L + 1) : u.nodes[i] = u.nodes[j] => i = j
  <2>1. \A i, j \in 1..L : t.nodes[i] = t.nodes[j] => i = j
    BY DEF TreeOK, L
  <2> QED
    BY <1>3, <1>4, <2>1
<1>6. DOMAIN u.parent = Range(u.nodes)
  <2>1. DOMAIN u.nodes = 1..(L + 1)
    BY <1>3
  <2>2. Range(u.nodes) = {u.nodes[i] : i \in 1..(L + 1)}
    BY <2>1 DEF Range
  <2>3. Range(t.nodes) = {t.nodes[i] : i \in 1..L}
    BY NodesOf DEF L
  <2>4. Range(u.nodes) = Range(t.nodes) \cup {path}
    BY <1>3, <1>4, <2>2, <2>3
  <2> QED
    BY <1>1, <2>4
<1>7. ASSUME NEW i \in 1..(L + 1) PROVE HangsWell(u, i)
  <2>1. CASE i \in 1..L
    <3>1. u.nodes[i] = t.nodes[i] /\ u.parent[u.nodes[i]] = t.parent[t.nodes[i]]
      BY <1>1, <1>3, <2>1
    <3>2. HangsWell(t, i)
      BY <2>1 DEF TreeOK, L
    <3>3. \A j \in 1..(i - 1) : u.nodes[j] = t.nodes[j]
      BY <1>2, <1>3, <2>1
    <3> QED
      BY <3>1, <3>2, <3>3 DEF HangsWell
  <2>2. CASE i = L + 1
    <3> DEFINE b == Below(t, path)
    <3>1. b \in Nodes(t) /\ IsPrefix(b, path)
      BY BelowFits
    <3>2. u.nodes[i] = path /\ u.parent[u.nodes[i]] = b
      BY <1>1, <1>3, <2>2
    <3> HIDE DEF b
    <3>3. CASE b = <<>>
      BY <3>2, <3>3 DEF HangsWell
    <3>4. CASE b # <<>>
      <4>1. PICK j \in 1..L : t.nodes[j] = b
        BY <3>1, <3>4, NodesOf DEF L
      <4>2. j \in 1..(i - 1) /\ u.nodes[j] = b
        BY <1>2, <1>3, <2>2, <4>1
      <4> QED
        BY <3>1, <3>2, <4>2 DEF HangsWell
    <3> QED
      BY <3>3, <3>4
  <2> QED
    BY <1>4, <2>1, <2>2
<1> QED
  BY <1>3, <1>5, <1>6, <1>7 DEF TreeOK, u

\* searchLongest
Visits(t, path, n) == {0} \cup Fits(t, n, path)
FoundAt(t, h, n, i) == IF i = 0 THEN n ELSE h[t.nodes[i]]
MostOf(t, path, h, n) ==
  {i \in Visits(t, path, n) : \A j \in Visits(t, path, n) :
     Own(t, FoundAt(t, h, n, j)) <= Own(t, FoundAt(t, h, n, i))}
SearchFrom(t, path, h, n) == FoundAt(t, h, n, Min(MostOf(t, path, h, n)))

\* What a node carries is a length.
LEMMA OwnLength ==
  ASSUME NEW t, TreeOK(t)
  PROVE  /\ Own(t, <<>>) = 0
         /\ \A n \in Nodes(t) : Own(t, n) \in Nat /\ Own(t, n) <= Len(n)
         /\ \A i \in Children(t, <<>>) : Own(t, t.nodes[i]) = Len(t.nodes[i])
<1>1. Own(t, <<>>) = 0 /\ Len(<<>>) = 0
  BY DEF Own
<1>2. ASSUME NEW i \in 1..Len(t.nodes)
      PROVE  /\ Own(t, t.nodes[i]) \in Nat /\ Own(t, t.nodes[i]) <= Len(t.nodes[i])
             /\ t.parent[t.nodes[i]] = <<>> => Own(t, t.nodes[i]) = Len(t.nodes[i])
  <2> DEFINE p == t.nodes[i]
             q == t.parent[p]
  <2>1. p \in Paths /\ p # <<>> /\ Len(p) \in Nat
    BY NodesOf, PathSeqs
  <2>2. Own(t, p) = Len(p) - Len(q)
    BY <2>1 DEF Own
  <2>3. Len(q) \in Nat /\ Len(q) <= Len(p)
    <3>1. CASE q = <<>>
      BY <1>1, <2>1, <3>1
    <3>2. ASSUME NEW j \in 1..(i - 1), t.nodes[j] = q, IsPrefix(t.nodes[j], p)
          PROVE  Len(q) \in Nat /\ Len(q) <= Len(p)
      <4>1. j \in 1..Len(t.nodes)
        BY NodesOf
      <4>2. q \in Paths
        BY <3>2, <4>1, NodesOf
      <4> QED
        BY <3>2, <4>2, PathSeqs DEF IsPrefix
    <3> QED
      BY <3>1, <3>2 DEF TreeOK, HangsWell
  <2> HIDE DEF p, q
  <2>4. q = <<>> => Len(q) = 0
    BY <1>1
  <2>5. Own(t, p) \in Nat /\ Own(t, p) <= Len(p) /\ (q = <<>> => Own(t, p) = Len(p))
    BY <2>1, <2>2, <2>3, <2>4
  <2> QED
    BY <2>5, Zenon DEF p, q
<1>3. ASSUME NEW n \in Nodes(t) PROVE Own(t, n) \in Nat /\ Own(t, n) <= Len(n)
  BY <1>1, <1>2, NodesOf
<1>4. \A i \in Children(t, <<>>) : i \in 1..Len(t.nodes) /\ t.parent[t.nodes[i]] = <<>>
  BY NodesOf DEF Children
<1> QED
  BY <1>1, <1>2, <1>3, <1>4

\* One of the nodes found carries most.
LEMMA MostFound ==
  ASSUME NEW t, TreeOK(t), NEW path, NEW n \in Nodes(t), NEW h,
         \A i \in Fits(t, n, path) : h[t.nodes[i]] \in Nodes(t)
  PROVE  /\ MostOf(t, path, h, n) \in SUBSET Nat
         /\ Min(MostOf(t, path, h, n)) \in Visits(t, path, n)
         /\ \A j \in Visits(t, path, n) :
              Own(t, FoundAt(t, h, n, j)) <= Own(t, FoundAt(t, h, n, Min(MostOf(t, path, h, n))))
<1> DEFINE A == Visits(t, path, n)
           L == Len(t.nodes)
           w == [i \in A |-> Own(t, FoundAt(t, h, n, i))]
           M == MostOf(t, path, h, n)
<1>1. L \in Nat /\ A \in SUBSET (0..L) /\ 0 \in A
  BY NodesOf, FirstFit DEF Visits
<1>2. \A i \in A : FoundAt(t, h, n, i) \in Nodes(t)
  BY DEF Visits, FoundAt
<1>3. w \in [A -> Nat] /\ \A i \in A : w[i] = Own(t, FoundAt(t, h, n, i))
  BY <1>2, OwnLength
<1>4. M = {i \in A : \A j \in A : w[j] <= w[i]}
  BY <1>3 DEF MostOf
<1> HIDE DEF A, L, w, M
<1>5. \E i \in A : \A j \in A : w[j] <= w[i]
  <2>1. A # {}
    BY <1>1
  <2> QED
    BY <1>1, <1>3, <2>1, LargestOf
<1>6. M # {} /\ M \in SUBSET Nat
  <2>1. M # {}
    BY <1>4, <1>5
  <2>2. M \subseteq A /\ 0..L \subseteq Nat
    BY <1>1, <1>4
  <2> QED
    BY <1>1, <2>1, <2>2
<1>7. Min(M) \in M
  BY <1>6, LeastOfSet
<1>8. Min(M) \in A /\ \A j \in A : w[j] <= w[Min(M)]
  BY <1>4, <1>7
<1> QED
  BY <1>3, <1>6, <1>8 DEF A, M

LEMMA SearchExists ==
  ASSUME NEW t, TreeOK(t), NEW path
  PROVE  \E h : h = [n \in Nodes(t) |-> SearchFrom(t, path, h, n)]
<1> DEFINE D == Nodes(t)
           G == [x \in D \X [D -> D] |-> SearchFrom(t, path, x[2], x[1])]
           rank == Depth(t)
           b == Len(t.nodes)
<1>1. b \in Nat /\ rank \in [D -> 0..b] /\ D # {}
  BY DepthOf, NodesOf
<1>2. ASSUME NEW n \in D, NEW i \in Fits(t, n, path)
      PROVE  t.nodes[i] \in D /\ rank[t.nodes[i]] < rank[n] /\ i # 0
  <2>1. i \in Children(t, n) /\ i \in 1..b
    BY FirstFit DEF Fits
  <2> QED
    BY <1>1, <2>1, DepthOf
<1>3. ASSUME NEW n \in D, NEW f \in [D -> D] PROVE SearchFrom(t, path, f, n) \in D
  <2>1. \A i \in Fits(t, n, path) : f[t.nodes[i]] \in D
    BY <1>2
  <2>2. Min(MostOf(t, path, f, n)) \in Visits(t, path, n)
    BY <2>1, MostFound
  <2> HIDE DEF D
  <2> QED
    BY <2>1, <2>2 DEF SearchFrom, FoundAt, Visits
<1> HIDE DEF D, rank, b
<1>4. G \in [D \X [D -> D] -> D] /\ \A n \in D, f \in [D -> D] : G[<<n, f>>] = SearchFrom(t, path, f, n)
  BY <1>3
<1> HIDE DEF G
<1>5. Descends(D, D, rank, G)
  <2> SUFFICES ASSUME NEW x \in D, NEW f \in [D -> D], NEW g \in [D -> D],
                      \A y \in D : rank[y] < rank[x] => f[y] = g[y]
               PROVE  G[<<x, f>>] = G[<<x, g>>]
    BY DEF Descends
  <2>1. \A i \in Visits(t, path, x) : FoundAt(t, f, x, i) = FoundAt(t, g, x, i)
    BY <1>2 DEF Visits, FoundAt
  <2>2. MostOf(t, path, f, x) = MostOf(t, path, g, x)
    BY <2>1 DEF MostOf
  <2>3. \A i \in Fits(t, x, path) : f[t.nodes[i]] \in D
    BY <1>2
  <2>4. Min(MostOf(t, path, f, x)) \in Visits(t, path, x)
    BY <2>3, MostFound DEF D
  <2>5. SearchFrom(t, path, f, x) = SearchFrom(t, path, g, x)
    BY <2>1, <2>2, <2>4 DEF SearchFrom
  <2> QED
    BY <1>4, <2>5
<1>6. PICK f \in [D -> D] : \A x \in D : f[x] = G[<<x, f>>]
  <2>1. Recursive(D, D, rank, G)
    BY <1>1, <1>4, <1>5 DEF Recursive
  <2> QED
    BY <2>1, Recursion
<1>7. f = [n \in D |-> SearchFrom(t, path, f, n)]
  BY <1>4, <1>6
<1> QED
  BY <1>7 DEF D

\* What is found from a node begins the path and carries as much as the node and as
\* its children that begin the path.
FindsWell(t, path, h, n) ==
  /\ h[n] \in Nodes(t) /\ IsPrefix(h[n], path) /\ Own(t, n) <= Own(t, h[n])
  /\ \A i \in Fits(t, n, path) : Own(t, t.nodes[i]) <= Own(t, h[n])

LEMMA SearchFinds ==
  ASSUME NEW t, TreeOK(t), NEW path, NEW h, h = [n \in Nodes(t) |-> SearchFrom(t, path, h, n)]
  PROVE  \A n \in Nodes(t) : IsPrefix(n, path) => FindsWell(t, path, h, n)
<1> DEFINE D == Nodes(t)
           rank == Depth(t)
           S == {n \in D : IsPrefix(n, path) => FindsWell(t, path, h, n)}
<1>1. rank \in [D -> Nat]
  BY DepthOf
<1>2. Inductive(D, rank, S)
  <2> SUFFICES ASSUME NEW n \in D, \A m \in D : rank[m] < rank[n] => m \in S,
                      IsPrefix(n, path)
               PROVE  FindsWell(t, path, h, n)
    BY DEF Inductive
  <2>1. h[n] = SearchFrom(t, path, h, n)
    OBVIOUS
  <2>2. ASSUME NEW i \in Fits(t, n, path)
        PROVE  /\ t.nodes[i] \in D /\ h[t.nodes[i]] \in D /\ IsPrefix(h[t.nodes[i]], path)
               /\ Own(t, t.nodes[i]) <= Own(t, h[t.nodes[i]]) /\ i # 0
    <3> DEFINE c == t.nodes[i]
    <3>0. i \in Children(t, n) /\ IsPrefix(c, path) /\ i # 0
      <4>1. i \in 1..Len(t.nodes)
        BY FirstFit
      <4> QED
        BY <4>1 DEF Fits
    <3>1. IsPrefix(c, path) /\ c \in D /\ rank[c] < rank[n] /\ i # 0
      BY <3>0, DepthOf
    <3> HIDE DEF c, rank
    <3>2. FindsWell(t, path, h, c)
      BY <3>1
    <3> QED
      BY <3>1, <3>2 DEF FindsWell, c
  <2>3. /\ Min(MostOf(t, path, h, n)) \in Visits(t, path, n)
        /\ \A j \in Visits(t, path, n) :
             Own(t, FoundAt(t, h, n, j)) <= Own(t, FoundAt(t, h, n, Min(MostOf(t, path, h, n))))
    BY <2>2, MostFound
  <2>4. \A j \in Visits(t, path, n) : Own(t, FoundAt(t, h, n, j)) <= Own(t, h[n])
    BY <2>1, <2>3 DEF SearchFrom
  <2>5. h[n] \in D /\ IsPrefix(h[n], path)
    <3>1. \A j \in Visits(t, path, n) : FoundAt(t, h, n, j) \in D /\ IsPrefix(FoundAt(t, h, n, j), path)
      BY <2>2 DEF Visits, FoundAt
    <3> QED
      BY <2>1, <2>3, <3>1 DEF SearchFrom
  <2>6. Own(t, n) <= Own(t, h[n])
    <3>1. 0 \in Visits(t, path, n) /\ FoundAt(t, h, n, 0) = n
      BY DEF Visits, FoundAt
    <3> QED
      BY <2>4, <3>1
  <2>7. ASSUME NEW i \in Fits(t, n, path) PROVE Own(t, t.nodes[i]) <= Own(t, h[n])
    <3>1. i \in Visits(t, path, n) /\ FoundAt(t, h, n, i) = h[t.nodes[i]]
      BY <2>2 DEF Visits, FoundAt
    <3>2. Own(t, h[t.nodes[i]]) <= Own(t, h[n])
      BY <2>4, <3>1
    <3>3. Own(t, t.nodes[i]) \in Nat /\ Own(t, h[t.nodes[i]]) \in Nat /\ Own(t, h[n]) \in Nat
      BY <2>2, <2>5, OwnLength
    <3> QED
      BY <2>2, <3>2, <3>3
  <2> QED
    BY <2>5, <2>6, <2>7 DEF FindsWell
<1> HIDE DEF D, rank, S
<1>3. \A n \in D : n \in S
  BY <1>1, <1>2, RankInduction
<1> QED
  BY <1>3 DEF D, S

\* What is found among the prefixes begins the path and carries as much as every
\* prefix that hangs below the root and begins it.
LEMMA LongestFound ==
  ASSUME NEW t, TreeOK(t), NEW path \in Paths
  PROVE  FindLongestPrefix(t, path) \in Nodes(t) /\ IsPrefix(FindLongestPrefix(t, path), path)
         /\ \A i \in Fits(t, <<>>, path) :
              Own(t, t.nodes[i]) <= Own(t, FindLongestPrefix(t, path))
<1> DEFINE search == CHOOSE h : h = [n \in Nodes(t) |-> SearchFrom(t, path, h, n)]
<1>1. FindLongestPrefix(t, path) = search[<<>>]
  BY Zenon DEF FindLongestPrefix, SearchFrom, FoundAt, MostOf, Visits, Fits, Nodes
<1>2. search = [n \in Nodes(t) |-> SearchFrom(t, path, search, n)]
  BY SearchExists
<1> HIDE DEF search
<1>3. <<>> \in Nodes(t) /\ IsPrefix(<<>>, path)
  BY NodesOf, PathSeqs, EmptyPrefix
<1>4. FindsWell(t, path, search, <<>>)
  BY <1>2, <1>3, SearchFinds
<1> QED
  BY <1>1, <1>4 DEF FindsWell

\* The places of the prefixes that begin a path.
FitPlaces(t, path) == {i \in 1..Len(t.nodes) : IsPrefix(t.nodes[i], path)}

\* The first of them hangs below the root.
LEMMA FirstHangsBelowRoot ==
  ASSUME NEW t, TreeOK(t), NEW path \in Paths, NEW i \in FitPlaces(t, path),
         \A j \in FitPlaces(t, path) : i <= j
  PROVE  i \in Fits(t, <<>>, path) /\ Own(t, t.nodes[i]) = Len(t.nodes[i])
<1>1. i \in 1..Len(t.nodes) /\ IsPrefix(t.nodes[i], path) /\ Len(t.nodes) \in Nat
  BY NodesOf DEF FitPlaces
<1>2. t.parent[t.nodes[i]] = <<>>
  <2>1. ASSUME NEW j \in 1..(i - 1), IsPrefix(t.nodes[j], t.nodes[i]) PROVE FALSE
    <3>1. j \in 1..Len(t.nodes) /\ ~(i <= j)
      BY <1>1
    <3>2. t.nodes[j] \in Seq(Chars) /\ t.nodes[i] \in Seq(Chars) /\ path \in Seq(Chars)
      BY <1>1, <3>1, NodesOf, PathSeqs
    <3>3. IsPrefix(t.nodes[j], path)
      BY <1>1, <2>1, <3>2, PrefixOfPrefix
    <3> QED
      BY <3>1, <3>3 DEF FitPlaces
  <2> QED
    BY <1>1, <2>1 DEF TreeOK, HangsWell
<1>3. i \in Children(t, <<>>)
  BY <1>1, <1>2, NodesOf DEF Children
<1> QED
  BY <1>1, <1>3, OwnLength DEF Fits

FitNodes(t, path) == {l \in Range(t.nodes) : IsPrefix(l, path)}

\* A prefix is found when one begins the path, and it does.
LEMMA SomeFound ==
  ASSUME NEW t, TreeOK(t), NEW path \in Paths
  PROVE  /\ FitNodes(t, path) = {} => FindLongestPrefix(t, path) = <<>>
         /\ FitNodes(t, path) # {} =>
              FindLongestPrefix(t, path) # <<>> /\ FindLongestPrefix(t, path) \in FitNodes(t, path)
<1> DEFINE s == FindLongestPrefix(t, path)
           P == FitPlaces(t, path)
<1>1. s \in Nodes(t) /\ IsPrefix(s, path)
  BY LongestFound
<1>2. s # <<>> => s \in FitNodes(t, path)
  BY <1>1 DEF Nodes, FitNodes
<1>3. ASSUME FitNodes(t, path) # {} PROVE s # <<>>
  <2>1. PICK l \in Range(t.nodes) : IsPrefix(l, path)
    BY <1>3 DEF FitNodes
  <2>2. PICK k \in 1..Len(t.nodes) : t.nodes[k] = l
    <3>1. Range(t.nodes) = {t.nodes[k] : k \in 1..Len(t.nodes)}
      BY NodesOf
    <3> QED
      BY <3>1
  <2>3. P # {} /\ P \in SUBSET Nat
    <3>1. k \in P
      BY <2>1, <2>2 DEF FitPlaces
    <3>2. P \subseteq 1..Len(t.nodes) /\ Len(t.nodes) \in Nat
      BY NodesOf DEF FitPlaces
    <3>3. 1..Len(t.nodes) \subseteq Nat
      BY <3>2
    <3> HIDE DEF P
    <3> QED
      BY ONLY <3>1, <3>2, <3>3
  <2>4. PICK i \in P : \A j \in P : i <= j
    <3> HIDE DEF P
    <3> QED
      BY <2>3, LeastNumber
  <2>5. i \in Fits(t, <<>>, path) /\ Own(t, t.nodes[i]) = Len(t.nodes[i])
    BY <2>4, FirstHangsBelowRoot
  <2>6. i \in 1..Len(t.nodes)
    BY FirstFit, <2>5, NodesOf
  <2>7. Len(t.nodes[i]) \in Nat /\ Len(t.nodes[i]) > 0
    BY <2>6, NodesOf, PathSeqs
  <2>8. Own(t, t.nodes[i]) <= Own(t, s)
    BY <2>5, LongestFound
  <2>9. Own(t, <<>>) = 0
    BY OwnLength
  <2> HIDE DEF s
  <2> QED
    BY <2>5, <2>7, <2>8, <2>9
<1> QED
  BY <1>2, <1>3

\* A prefix that is longer than the others of a path and was registered before
\* them is found.
LEMMA FirstLongestFound ==
  ASSUME NEW t, TreeOK(t), NEW path \in Paths, NEW l \in FitNodes(t, path),
         \A o \in FitNodes(t, path) \ {l} : Len(o) < Len(l) /\ Earlier(t.nodes, l, o)
  PROVE  FindLongestPrefix(t, path) = l
<1> DEFINE s == FindLongestPrefix(t, path)
<1>1. l \in Range(t.nodes) /\ IsPrefix(l, path)
  BY DEF FitNodes
<1>2. PICK i \in 1..Len(t.nodes) : t.nodes[i] = l
  <2>1. Range(t.nodes) = {t.nodes[k] : k \in 1..Len(t.nodes)}
    BY NodesOf
  <2> QED
    BY <1>1, <2>1
<1>3. i \in FitPlaces(t, path)
  BY <1>1, <1>2 DEF FitPlaces
<1>4. ASSUME NEW j \in FitPlaces(t, path) PROVE i <= j
  <2>1. j \in 1..Len(t.nodes) /\ i \in 1..Len(t.nodes) /\ Len(t.nodes) \in Nat /\ i \in Nat /\ j \in Nat
    BY NodesOf DEF FitPlaces
  <2>2. CASE t.nodes[j] = l
    BY <1>2, <2>1, <2>2 DEF TreeOK
  <2>3. CASE t.nodes[j] # l
    <3>1. t.nodes[j] \in FitNodes(t, path) \ {l}
      BY <2>1, <2>3, NodesOf DEF FitPlaces, FitNodes
    <3>2. PICK a, b \in DOMAIN t.nodes : a < b /\ t.nodes[a] = l /\ t.nodes[b] = t.nodes[j]
      BY <3>1 DEF Earlier
    <3>3. a \in 1..Len(t.nodes) /\ b \in 1..Len(t.nodes)
      BY NodesOf
    <3>4. a = i /\ b = j
      BY <1>2, <2>1, <3>2, <3>3 DEF TreeOK
    <3> QED
      BY <2>1, <3>2, <3>4
  <2> QED
    BY <2>2, <2>3
<1>5. i \in Fits(t, <<>>, path) /\ Own(t, l) = Len(l)
  BY <1>2, <1>3, <1>4, FirstHangsBelowRoot
<1>6. Own(t, l) <= Own(t, s)
  BY <1>2, <1>5, LongestFound
<1>7. s \in FitNodes(t, path) /\ s \in Nodes(t)
  BY SomeFound, LongestFound
<1>8. Own(t, s) \in Nat /\ Own(t, s) <= Len(s) /\ Own(t, l) \in Nat /\ s \in Seq(Chars) /\ l \in Seq(Chars)
  <2>1. l \in Nodes(t)
    BY <1>1 DEF Nodes
  <2> QED
    BY <1>7, <2>1, OwnLength, NodesOf
<1>9. Len(s) \in Nat /\ Len(l) \in Nat
  BY <1>8
<1> HIDE DEF s
<1>10. Len(l) <= Len(s)
  BY <1>5, <1>6, <1>8, <1>9
<1>11. s # l => Len(s) < Len(l)
  BY <1>7
<1>12. s = l
  BY <1>9, <1>10, <1>11
<1> QED
  BY <1>12 DEF s

LocationsInv ==
  /\ DOMAIN tree = PrefixTypes /\ \A k \in PrefixTypes : TreeOK(tree[k])
  /\ regexes \in Seq(Regexes)

LEMMA LocationsStart == LocInit => LocationsInv
<1> SUFFICES ASSUME LocInit PROVE LocationsInv
  OBVIOUS
<1>1. tree = [k \in PrefixTypes |-> [nodes |-> <<>>, parent |-> << >>]] /\ regexes = <<>>
  BY DEF LocInit
<1>2. ASSUME NEW k \in PrefixTypes PROVE TreeOK(tree[k])
  <2>1. tree[k].nodes = <<>> /\ tree[k].parent = << >>
    BY <1>1
  <2>2. <<>> \in Seq(Paths) /\ Len(<<>>) = 0 /\ DOMAIN <<>> = {} /\ 1..0 = {}
    OBVIOUS
  <2>3. Range(<<>>) = {}
    BY <2>2 DEF Range
  <2> QED
    BY <2>1, <2>2, <2>3 DEF TreeOK
<1> QED
  BY <1>1, <1>2 DEF LocationsInv

LEMMA LocationsStep == LocationsInv /\ [LocNext]_locVars => LocationsInv'
<1> SUFFICES ASSUME LocationsInv, [LocNext]_locVars PROVE LocationsInv'
  OBVIOUS
<1>1. ASSUME UNCHANGED <<tree, regexes>> PROVE LocationsInv'
  BY <1>1 DEF LocationsInv, TreeOK, HangsWell
<1>2. ASSUME NEW p \in Paths, AddExact(p) PROVE LocationsInv'
  BY <1>1, <1>2 DEF AddExact
<1>3. ASSUME NEW p \in Paths, NEW type \in PrefixTypes, AddPrefix(type, p) PROVE LocationsInv'
  <2>1. regexes' = regexes
    BY <1>3 DEF AddPrefix
  <2>2. CASE Conflict(p)
    BY <1>1, <1>3, <2>1, <2>2 DEF AddPrefix
  <2>3. CASE ~Conflict(p)
    <3>1. tree' = [tree EXCEPT ![type] = Insert(tree[type], p)]
      BY <1>3, <2>3 DEF AddPrefix
    <3>2. DOMAIN tree' = PrefixTypes
      BY <3>1 DEF LocationsInv
    <3>3. ASSUME NEW k \in PrefixTypes PROVE TreeOK(tree'[k])
      <4>1. p \notin Range(tree[type].nodes)
        BY <2>3 DEF Conflict
      <4>2. TreeOK(tree[type]) /\ TreeOK(tree[k])
        BY DEF LocationsInv
      <4>3. TreeOK(Insert(tree[type], p))
        BY <4>1, <4>2, InsertKeeps
      <4>4. tree'[k] = IF k = type THEN Insert(tree[type], p) ELSE tree[k]
        BY <3>1 DEF LocationsInv
      <4> QED
        BY <4>2, <4>3, <4>4, Zenon
    <3>4. \A k \in PrefixTypes : TreeOK(tree[k])'
      BY <3>3 DEF TreeOK, HangsWell
    <3> QED
      BY <2>1, <3>2, <3>4 DEF LocationsInv
  <2> QED
    BY <2>2, <2>3
<1>4. ASSUME NEW r \in Regexes, AddRegex(r) PROVE LocationsInv'
  <2>1. tree' = tree /\ regexes' = Append(regexes, r)
    BY <1>4 DEF AddRegex
  <2>2. regexes' \in Seq(Regexes)
    BY <2>1 DEF LocationsInv
  <2> QED
    BY <2>1, <2>2 DEF LocationsInv, TreeOK, HangsWell
<1>5. ASSUME NEW r \in Regexes, AddRegexHost(r) PROVE LocationsInv'
  BY <1>1, <1>5 DEF AddRegexHost
<1>6. ASSUME NEW n \in LocationNames, AddNamed(n) PROVE LocationsInv'
  BY <1>1, <1>6 DEF AddNamed
<1>7. ASSUME NEW k \in HostKinds, NEW h \in HostNames, AddHost(k, h) PROVE LocationsInv'
  BY <1>1, <1>7 DEF AddHost
<1>8. ASSUME BadRegex \/ Serve PROVE LocationsInv'
  BY <1>1, <1>8 DEF BadRegex, Serve
<1>9. ASSUME UNCHANGED locVars PROVE LocationsInv'
  BY <1>1, <1>9 DEF locVars
<1> QED
  BY <1>2, <1>3, <1>4, <1>5, <1>6, <1>7, <1>8, <1>9 DEF LocNext

\* What LocationSound says of one path and a location it gets.
SoundFor(p, m) ==
  LET kinds == <<"prefix_priority", "regex", "prefix">>
      with == {i \in 1..3 : Fitting(kinds[i], p) # {}}
  IN IF p \in exact THEN m = [type |-> "exact", path |-> p]
     ELSE IF with = {} THEN m = NoRoute
     ELSE LET k == kinds[Min(with)] IN
          /\ m.type = k /\ m.path \in Fitting(k, p)
          /\ k # "regex" =>
               \A l \in Fitting(k, p) :
                  (\A o \in Fitting(k, p) \ {l} :
                      Len(o) < Len(l) /\ Earlier(tree[k].nodes, l, o))
                    => m.path = l


\* What a path finds among the prefixes of a kind.
LEMMA PrefixFound ==
  ASSUME LocationsInv, NEW p \in Paths, NEW k \in PrefixTypes
  PROVE  LET s == FindLongestPrefix(tree[k], p) IN
         /\ s = <<>> <=> Fitting(k, p) = {}
         /\ s # <<>> => s \in Fitting(k, p)
         /\ \A l \in Fitting(k, p) :
              (\A o \in Fitting(k, p) \ {l} : Len(o) < Len(l) /\ Earlier(tree[k].nodes, l, o))
                => s = l
<1> DEFINE t == tree[k]
<1>1. TreeOK(t)
  BY DEF LocationsInv
<1>2. Fitting(k, p) = FitNodes(t, p)
  BY DEF Fitting, FitNodes, Of, Applies, PrefixTypes
<1> HIDE DEF t
<1>3. /\ FitNodes(t, p) = {} => FindLongestPrefix(t, p) = <<>>
      /\ FitNodes(t, p) # {} => FindLongestPrefix(t, p) # <<>> /\ FindLongestPrefix(t, p) \in FitNodes(t, p)
  BY <1>1, SomeFound
<1>4. ASSUME NEW l \in FitNodes(t, p),
             \A o \in FitNodes(t, p) \ {l} : Len(o) < Len(l) /\ Earlier(t.nodes, l, o)
      PROVE  FindLongestPrefix(t, p) = l
  BY <1>1, <1>4, FirstLongestFound
<1> QED
  BY <1>2, <1>3, <1>4, Zenon DEF t

\* What a path finds among the expressions.
LEMMA RegexFound ==
  ASSUME LocationsInv, NEW p
  PROVE  LET fits == {i \in DOMAIN regexes : p \in regexes[i].paths} IN
         /\ fits = {} <=> Fitting("regex", p) = {}
         /\ fits # {} => regexes[Min(fits)] \in Fitting("regex", p)
<1> DEFINE fits == {i \in DOMAIN regexes : p \in regexes[i].paths}
<1>1. Fitting("regex", p) = {regexes[i] : i \in fits}
  BY DEF Fitting, Of, Applies, Range
<1>2. fits \in SUBSET (1..Len(regexes)) /\ Len(regexes) \in Nat
  BY DEF LocationsInv
<1> HIDE DEF fits
<1>3. fits # {} => Min(fits) \in fits
  BY <1>2, FirstPosition
<1> QED
  BY <1>1, <1>3 DEF fits

\* The first kind that has a location for a path.
LEMMA FirstKind ==
  ASSUME NEW p
  PROVE  LET kinds == <<"prefix_priority", "regex", "prefix">>
             with == {i \in 1..3 : Fitting(kinds[i], p) # {}}
         IN /\ with = {} <=> \A k \in {"prefix_priority", "regex", "prefix"} : Fitting(k, p) = {}
            /\ Fitting("prefix_priority", p) # {} => kinds[Min(with)] = "prefix_priority"
            /\ Fitting("prefix_priority", p) = {} /\ Fitting("regex", p) # {}
                 => kinds[Min(with)] = "regex"
            /\ Fitting("prefix_priority", p) = {} /\ Fitting("regex", p) = {}
                 /\ Fitting("prefix", p) # {} => kinds[Min(with)] = "prefix"
<1> DEFINE kinds == <<"prefix_priority", "regex", "prefix">>
           with == {i \in 1..3 : Fitting(kinds[i], p) # {}}
<1>1. kinds[1] = "prefix_priority" /\ kinds[2] = "regex" /\ kinds[3] = "prefix"
  OBVIOUS
<1>2. with \in SUBSET (1..3)
  OBVIOUS
<1>3. with # {} => Min(with) \in with /\ \A i \in with : Min(with) <= i
  BY <1>2, FirstPosition
<1>4. /\ 1 \in with <=> Fitting("prefix_priority", p) # {}
      /\ 2 \in with <=> Fitting("regex", p) # {}
      /\ 3 \in with <=> Fitting("prefix", p) # {}
  BY <1>1
<1> HIDE DEF kinds, with
<1>5. 1..3 = {1, 2, 3}
  OBVIOUS
<1> DEFINE first == Min(with)
<1>f. with # {} => first \in with /\ first \in {1, 2, 3} /\ \A i \in with : first <= i
  BY <1>2, <1>3, <1>5
<1> HIDE DEF first
<1>6. 1 \in with => first = 1
  BY <1>f
<1>7. 1 \notin with /\ 2 \in with => first = 2
  BY <1>f
<1>8. 1 \notin with /\ 2 \notin with /\ 3 \in with => first = 3
  BY <1>f
<1>9. with = {} <=> 1 \notin with /\ 2 \notin with /\ 3 \notin with
  BY <1>2, <1>5
<1>10. /\ with = {} <=> \A k \in {"prefix_priority", "regex", "prefix"} : Fitting(k, p) = {}
       /\ Fitting("prefix_priority", p) # {} => kinds[Min(with)] = "prefix_priority"
       /\ Fitting("prefix_priority", p) = {} /\ Fitting("regex", p) # {} => kinds[Min(with)] = "regex"
       /\ Fitting("prefix_priority", p) = {} /\ Fitting("regex", p) = {} /\ Fitting("prefix", p) # {}
            => kinds[Min(with)] = "prefix"
  BY <1>1, <1>4, <1>6, <1>7, <1>8, <1>9 DEF first
<1> QED
  BY <1>10 DEF kinds, with

\* For any paths and expressions in any order of registration, a path gets a
\* location of the first kind that has one for it, and of the prefixes the
\* longest where it was registered first.
THEOREM LocationsSound == LocSpec => []LocationSound
<1>1. LocationsInv => LocationSound
  <2> SUFFICES ASSUME LocationsInv, NEW p \in Paths PROVE SoundFor(p, Match(p))
    BY Zenon DEF LocationSound, SoundFor
  <2> DEFINE kinds == <<"prefix_priority", "regex", "prefix">>
             with == {i \in 1..3 : Fitting(kinds[i], p) # {}}
             fits == {i \in DOMAIN regexes : p \in regexes[i].paths}
             high == FindLongestPrefix(tree["prefix_priority"], p)
             low == FindLongestPrefix(tree["prefix"], p)
             k == kinds[Min(with)]
             m == Match(p)
             Alone(j, l) == \A o \in Fitting(j, p) \ {l} :
                              Len(o) < Len(l) /\ Earlier(tree[j].nodes, l, o)
  <2>1. m = IF p \in exact THEN [type |-> "exact", path |-> p]
            ELSE IF high # <<>> THEN [type |-> "prefix_priority", path |-> high]
            ELSE IF fits # {} THEN [type |-> "regex", path |-> regexes[Min(fits)]]
            ELSE IF low # <<>> THEN [type |-> "prefix", path |-> low]
            ELSE NoRoute
    BY Zenon DEF Match
  <2>2. /\ high = <<>> <=> Fitting("prefix_priority", p) = {}
        /\ high # <<>> => high \in Fitting("prefix_priority", p)
        /\ \A l \in Fitting("prefix_priority", p) : Alone("prefix_priority", l) => high = l
    BY PrefixFound DEF PrefixTypes
  <2>3. /\ low = <<>> <=> Fitting("prefix", p) = {}
        /\ low # <<>> => low \in Fitting("prefix", p)
        /\ \A l \in Fitting("prefix", p) : Alone("prefix", l) => low = l
    BY PrefixFound DEF PrefixTypes
  <2>4. /\ fits = {} <=> Fitting("regex", p) = {}
        /\ fits # {} => regexes[Min(fits)] \in Fitting("regex", p)
    BY RegexFound
  <2>5. /\ with = {} <=> \A j \in {"prefix_priority", "regex", "prefix"} : Fitting(j, p) = {}
        /\ Fitting("prefix_priority", p) # {} => k = "prefix_priority"
        /\ Fitting("prefix_priority", p) = {} /\ Fitting("regex", p) # {} => k = "regex"
        /\ Fitting("prefix_priority", p) = {} /\ Fitting("regex", p) = {} /\ Fitting("prefix", p) # {}
             => k = "prefix"
    BY FirstKind
  <2>6. SoundFor(p, m) <=>
          IF p \in exact THEN m = [type |-> "exact", path |-> p]
          ELSE IF with = {} THEN m = NoRoute
          ELSE /\ m.type = k /\ m.path \in Fitting(k, p)
               /\ k # "regex" => \A l \in Fitting(k, p) : Alone(k, l) => m.path = l
    BY Zenon DEF SoundFor
  <2> HIDE DEF kinds, with, fits, high, low, k, m, Alone
  <2>7. CASE p \in exact
    BY <2>1, <2>6, <2>7, Zenon DEF m
  <2>8. CASE p \notin exact /\ high # <<>>
    <3>1. m = [type |-> "prefix_priority", path |-> high] /\ k = "prefix_priority" /\ with # {}
      BY <2>1, <2>2, <2>5, <2>8
    <3>2. m.type = "prefix_priority" /\ m.path = high
      BY <3>1
    <3> QED
      BY <2>2, <2>6, <2>8, <3>1, <3>2, Zenon DEF m
  <2>9. CASE p \notin exact /\ high = <<>> /\ fits # {}
    <3>1. m = [type |-> "regex", path |-> regexes[Min(fits)]] /\ k = "regex" /\ with # {}
      BY <2>1, <2>2, <2>4, <2>5, <2>9
    <3>2. m.type = "regex" /\ m.path = regexes[Min(fits)]
      BY <3>1
    <3> QED
      BY <2>4, <2>6, <2>9, <3>1, <3>2, Zenon DEF m
  <2>10. CASE p \notin exact /\ high = <<>> /\ fits = {} /\ low # <<>>
    <3>1. m = [type |-> "prefix", path |-> low] /\ k = "prefix" /\ with # {}
      BY <2>1, <2>2, <2>3, <2>4, <2>5, <2>10
    <3>2. m.type = "prefix" /\ m.path = low
      BY <3>1
    <3> QED
      BY <2>3, <2>6, <2>10, <3>1, <3>2, Zenon DEF m
  <2>11. CASE p \notin exact /\ high = <<>> /\ fits = {} /\ low = <<>>
    <3>1. with = {} /\ m = NoRoute
      BY <2>1, <2>2, <2>3, <2>4, <2>5, <2>11
    <3> QED
      BY <2>6, <2>11, <3>1, Zenon DEF m
  <2> QED
    BY <2>7, <2>8, <2>9, <2>10, <2>11
<1> QED
  BY <1>1, LocationsStart, LocationsStep, PTL DEF LocSpec
=============================================================================
