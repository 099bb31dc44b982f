----------------------------- MODULE FileProofs -----------------------------
(***************************************************************************)
(* Proofs about the static file handler and its two caches, for any files, *)
(* clients, cache sizes, TTL and length of a request: how old an answer    *)
(* can be, and that the accounts of the content cache are exact.           *)
(***************************************************************************)
EXTENDS StaticFiles, CountingTheorems

-----------------------------------------------------------------------------
(* The invariant.  F, n and G are the files, the number of changes and the
   history (fs, changes and gone); O are the objects of the cache. *)

Infos == [ver : Versions, age : 0..(TTL + 1)]
CacheEntries == [path : StaticPaths \cup {StaticNone}, data : Versions, ver : Versions,
                 age : 0..TTL]
Copies == [body : Versions, etag : Versions, since : Versions]
StaticPCs == {"idle", "stat", "stored", "serve", "get", "check", "send", "read", "set",
              "200", "304", "404", "500"}
Readers == [pc : StaticPCs, mode : {"std", "try", "direct"}, cond : Validators \cup {{}},
            todo : Seq(StaticPaths), at : Nat, ver : Versions, held : Objs \cup {StaticNone}, torn : BOOLEAN,
            data : Versions, etag : Versions, ticks : 0..MaxSpan]

FilesTyped ==
  /\ fs \in [StaticPaths -> Versions] /\ changes \in 0..MaxChanges
  /\ gone \in [StaticPaths -> [Versions -> 0..(Bound + 1)]]
  /\ info \in [StaticPaths -> Infos \cup {StaticNone}]
  /\ obj \in [Objs -> CacheEntries]
  /\ staticReq \in [StaticRequests -> Readers]
  /\ copy \in [StaticRequests -> Copies]

\* A version f may have had: not above the one it has, unless it has none.
Past(F, n, f, v) == v \in 0..(n + 1) /\ (F[f] # 0 => v <= F[f])

\* A content that f had: no earlier version was there after it.
Ordered(G, f, d) == \A v \in 1..d : G[f][d] <= G[f][v]

Had(F, n, G, f, d) == Past(F, n, f, d) /\ Ordered(G, f, d)

\* What is known of a file was right when the request that stored it asked.
InfoKept(F, n, G, f, i) ==
  i # StaticNone =>
    /\ Past(F, n, f, i.ver)
    /\ i.age <= TTL => G[f][i.ver] <= i.age + MaxSpan

\* An entry: a content that is not older than what it announces; within the TTL
\* either of them was current at most this long ago.
EntryKept(F, n, G, e) ==
  /\ e.data >= e.ver
  /\ e.path # StaticNone =>
       /\ Had(F, n, G, e.path, e.data)
       /\ e.age < TTL => /\ G[e.path][e.data] <= e.age + TTL + 2 * MaxSpan
                         /\ G[e.path][e.ver] <= e.age + TTL + 3 * MaxSpan

OneEntry(O) ==
  \A x, y \in Objs : O[x].path # StaticNone /\ O[x].path = O[y].path => x = y

\* A request that has its file's information.
Informed(F, n, G, m, f) ==
  /\ m.ver # 0 /\ Past(F, n, f, m.ver)
  /\ G[f][m.ver] <= TTL + MaxSpan + m.ticks

\* A request that holds an entry which has changed: the entry that took its
\* place came while the request was under way.
Replaced(G, O, m, f) ==
  \A x \in Objs : O[x].path = f =>
    /\ G[f][O[x].data] <= MaxSpan + m.ticks
    /\ G[f][O[x].ver] <= TTL + 2 * MaxSpan + m.ticks

\* A request under way at the file f.
ReaderKept(F, n, G, O, m, f) ==
  /\ m.pc = "stored" => Past(F, n, f, m.ver) /\ G[f][m.ver] <= m.ticks
  /\ m.pc \in {"serve", "get", "check", "send", "read", "set"} => Informed(F, n, G, m, f)
  /\ m.pc = "set" => /\ m.data >= m.ver /\ Had(F, n, G, f, m.data)
                     /\ G[f][m.data] <= m.ticks
  /\ m.pc \in {"check", "send"} => /\ m.held \in Objs
                                   /\ ~m.torn => O[m.held].path = f
  /\ m.pc = "check" /\ m.torn => Replaced(G, O, m, f)
  /\ m.pc = "send" /\ ~m.torn => G[f][O[m.held].data] <= Served + 2 * MaxSpan + m.ticks
  /\ m.pc \in {"200", "304"} /\ ~m.torn =>
       /\ Past(F, n, f, m.data) /\ G[f][m.data] <= Bound
       /\ m.etag # 0 => Had(F, n, G, f, m.data)
  /\ m.pc \in {"200", "304"} => m.data >= m.etag
  /\ m.pc = "404" => G[f][0] <= Bound

\* Its list of files, of which those before the present one are absent.
TodoKept(G, m) ==
  /\ m.pc = "idle" => m.at = 1
  /\ m.pc # "idle" =>
       /\ m.at \in 1..Len(m.todo)
       /\ \A i \in 1..(m.at - 1) : G[m.todo[i]][0] <= TTL + MaxSpan + m.ticks

RequestKept(F, n, G, O, m) ==
  /\ TodoKept(G, m)
  /\ m.pc # "idle" => ReaderKept(F, n, G, O, m, m.todo[m.at])

CopyKept(F, n, G, c) == Had(F, n, G, First, c.body) /\ c.body >= c.etag

FilesNow(F, n, G) == \A f \in StaticPaths : Past(F, n, f, F[f]) /\ G[f][F[f]] = 0
InfosKept(F, n, G, I) == \A f \in StaticPaths : InfoKept(F, n, G, f, I[f])
EntriesKept(F, n, G, O) == \A o \in Objs : EntryKept(F, n, G, O[o])
RequestsKept(F, n, G, O, R) == \A r \in StaticRequests : RequestKept(F, n, G, O, R[r])
CopiesKept(F, n, G, C) == \A r \in StaticRequests : CopyKept(F, n, G, C[r])

AnswersInv ==
  /\ FilesTyped
  /\ FilesNow(fs, changes, gone)
  /\ InfosKept(fs, changes, gone, info)
  /\ EntriesKept(fs, changes, gone, obj)
  /\ OneEntry(obj)
  /\ RequestsKept(fs, changes, gone, obj, staticReq)
  /\ CopiesKept(fs, changes, gone, copy)

-----------------------------------------------------------------------------
(* Arithmetic and types *)

LEMMA ServedLong ==
  /\ TTL \in Nat /\ MaxSpan \in Nat /\ MaxChanges \in Nat
  /\ Served \in Nat /\ Served >= TTL /\ Served >= 2 * TTL - 1
  /\ Bound \in Nat /\ Bound = Served + 3 * MaxSpan
<1>1. TTL \in Nat /\ MaxSpan \in Nat /\ MaxChanges \in Nat
  BY StaticAssumption
<1>2. Served \in Nat /\ Served >= TTL /\ Served >= 2 * TTL - 1
  <2>1. CASE TTL = 0
    BY <2>1 DEF Served
  <2>2. CASE TTL # 0
    BY <1>1, <2>2 DEF Served
  <2> QED
    BY <2>1, <2>2
<1> QED
  BY <1>1, <1>2 DEF Bound

\* What a request is told is within Bound, from what it knows: the information
\* of its file, a content that may still be served, an entry that is fresh.
LEMMA TimesAdd ==
  ASSUME NEW t \in Nat, t <= MaxSpan, NEW a \in Nat
  PROVE  /\ TTL + MaxSpan + t \in Nat
         /\ a <= TTL + MaxSpan + t => a <= Served + 2 * MaxSpan + t /\ a <= Bound
         /\ a <= Served + 2 * MaxSpan + t => a <= Bound
         /\ a <= t => a <= MaxSpan /\ a <= TTL + 2 * MaxSpan
         /\ a <= TTL + MaxSpan + t => a <= TTL + 2 * MaxSpan /\ a <= TTL + 3 * MaxSpan
BY ServedLong

LEMMA FreshTimes ==
  ASSUME NEW t \in Nat, NEW age \in Nat, age < TTL, NEW a \in Nat, NEW b \in Nat,
         a <= age + TTL + 2 * MaxSpan, b <= age + TTL + 3 * MaxSpan
  PROVE  a <= Served + 2 * MaxSpan + t /\ b <= Bound
BY ServedLong

Times == 0..(Bound + 1)
Histories == [StaticPaths -> [Versions -> Times]]
Trees == [StaticPaths -> Versions]
Heaps == [Objs -> CacheEntries]

LEMMA AnswersStart == ASSUME StaticInit PROVE AnswersInv
<1>1. FilesTyped
  <2>1. fs \in Trees /\ changes \in 0..MaxChanges
    BY ServedLong DEF StaticInit, Versions, Trees
  <2>2. gone \in Histories
    BY ServedLong DEF StaticInit, Histories, Times
  <2>3. info \in [StaticPaths -> Infos \cup {StaticNone}]
    BY DEF StaticInit
  <2>4. Zeroed \in CacheEntries
    BY ServedLong DEF Zeroed, CacheEntries, Versions
  <2>5. obj \in Heaps
    BY <2>4 DEF StaticInit, Heaps
  <2>6. Idle \in Readers
    <3>1. <<>> \in Seq(StaticPaths)
      OBVIOUS
    <3> QED
      BY <3>1, ServedLong DEF Idle, Readers, Versions, StaticPCs
  <2>7. staticReq \in [StaticRequests -> Readers]
    BY <2>6 DEF StaticInit
  <2>8. copy \in [StaticRequests -> Copies]
    BY ServedLong DEF StaticInit, NoCopy, Copies, Versions
  <2> QED
    BY <2>1, <2>2, <2>3, <2>5, <2>7, <2>8 DEF FilesTyped, Trees, Histories, Times, Heaps
<1>2. FilesNow(fs, changes, gone)
  <2> SUFFICES ASSUME NEW f \in StaticPaths PROVE Past(fs, changes, f, fs[f]) /\ gone[f][fs[f]] = 0
    BY DEF FilesNow
  <2>1. fs[f] \in {0, 1} /\ changes = 0
    BY DEF StaticInit
  <2>2. fs[f] \in Versions
    BY <2>1, ServedLong DEF Versions
  <2> QED
    BY <2>1, <2>2 DEF StaticInit, Past
<1>3. InfosKept(fs, changes, gone, info)
  BY DEF StaticInit, InfosKept, InfoKept
<1>4. EntriesKept(fs, changes, gone, obj) /\ OneEntry(obj)
  BY DEF StaticInit, EntriesKept, EntryKept, OneEntry, Zeroed
<1>5. RequestsKept(fs, changes, gone, obj, staticReq)
  BY DEF StaticInit, RequestsKept, RequestKept, TodoKept, Idle
<1>6. CopiesKept(fs, changes, gone, copy)
  <2> SUFFICES Had(fs, changes, gone, First, 0)
    BY DEF StaticInit, CopiesKept, CopyKept, NoCopy
  <2>1. fs[First] \in {0, 1} /\ changes = 0
    BY StaticAssumption DEF StaticInit
  <2> QED
    BY <2>1 DEF Had, Past, Ordered
<1> QED
  BY <1>1, <1>2, <1>3, <1>4, <1>5, <1>6 DEF AnswersInv

-----------------------------------------------------------------------------
(* The environment.  F2, n2 and G2 are the files after a change (k = 0) or a
   tick (k = 1): what was known of them remains, k ticks older. *)

Later(F, n, G, F2, n2, G2, k) ==
  /\ \A f \in StaticPaths : G2[f][0] <= G[f][0] + k
  /\ \A f \in StaticPaths, v \in Versions :
       Past(F, n, f, v) => Past(F2, n2, f, v) /\ G2[f][v] <= G[f][v] + k
  /\ \A f \in StaticPaths, d \in Versions : Had(F, n, G, f, d) => Had(F2, n2, G2, f, d)

LaterInfo(i, j, k) ==
  j # StaticNone => /\ i # StaticNone /\ j.ver = i.ver
                    /\ j.age <= TTL => j.age = i.age + k

LaterEntry(d, e, k) ==
  Same(d, e) /\ (d.path # StaticNone /\ e.age < TTL => e.age = d.age + k)

LaterReader(m, q, k) ==
  /\ q.pc = m.pc /\ q.mode = m.mode /\ q.todo = m.todo /\ q.at = m.at /\ q.ver = m.ver
  /\ q.held = m.held /\ (q.torn <=> m.torn) /\ q.data = m.data /\ q.etag = m.etag
  /\ m.pc # "idle" => q.ticks = m.ticks + k
  /\ m.pc \in {"200", "304", "404", "500"} => k = 0

LEMMA InfoLater ==
  ASSUME NEW F \in Trees, NEW n \in Nat, NEW G \in Histories, NEW F2 \in Trees, NEW n2 \in Nat, NEW G2 \in Histories,
         NEW k \in {0, 1}, Later(F, n, G, F2, n2, G2, k),
         NEW f \in StaticPaths, NEW i \in Infos \cup {StaticNone},
         NEW j \in Infos \cup {StaticNone}, InfoKept(F, n, G, f, i),
         LaterInfo(i, j, k)
  PROVE  InfoKept(F2, n2, G2, f, j)
<1> SUFFICES ASSUME j # StaticNone
             PROVE /\ Past(F2, n2, f, j.ver)
                   /\ j.age <= TTL => G2[f][j.ver] <= j.age + MaxSpan
  BY DEF InfoKept
<1>1. /\ i \in Infos /\ j \in Infos /\ j.ver = i.ver /\ i.ver \in Versions
      /\ i # StaticNone /\ Past(F, n, f, i.ver)
  BY DEF InfoKept, Infos, LaterInfo
<1>2. Past(F2, n2, f, i.ver) /\ G2[f][i.ver] <= G[f][i.ver] + k
  BY <1>1 DEF Later
<1>3. ASSUME j.age <= TTL PROVE G2[f][i.ver] <= j.age + MaxSpan
  <2>1. j.age = i.age + k /\ i.age \in Nat /\ i.age <= TTL
    BY <1>1, <1>3, ServedLong DEF Infos, LaterInfo
  <2>2. G[f][i.ver] <= i.age + MaxSpan
    BY <2>1, <1>1 DEF InfoKept
  <2>3. G[f][i.ver] \in Nat /\ G2[f][i.ver] \in Nat
    BY <1>1, ServedLong DEF Histories, Times
  <2> QED
    BY <1>2, <2>1, <2>2, <2>3, ServedLong
<1> QED
  BY <1>1, <1>2, <1>3

LEMMA EntryPast ==
  ASSUME NEW F \in Trees, NEW n \in Nat, NEW G, NEW e \in CacheEntries, e.path # StaticNone,
         EntryKept(F, n, G, e)
  PROVE  /\ e.path \in StaticPaths /\ e.data \in Versions /\ e.ver \in Versions
         /\ Past(F, n, e.path, e.data) /\ Past(F, n, e.path, e.ver)
<1>1. e.path \in StaticPaths /\ e.data \in Versions /\ e.ver \in Versions
  BY DEF CacheEntries
<1>2. Past(F, n, e.path, e.data) /\ e.data >= e.ver
  BY DEF EntryKept, Had
<1>3. Past(F, n, e.path, e.ver)
  BY <1>1, <1>2, ServedLong DEF Past, Trees, Versions
<1> QED
  BY <1>1, <1>2, <1>3

LEMMA EntryLater ==
  ASSUME NEW F \in Trees, NEW n \in Nat, NEW G \in Histories, NEW F2 \in Trees, NEW n2 \in Nat, NEW G2 \in Histories,
         NEW k \in {0, 1}, Later(F, n, G, F2, n2, G2, k),
         NEW d \in CacheEntries, NEW e \in CacheEntries, LaterEntry(d, e, k),
         EntryKept(F, n, G, d)
  PROVE  EntryKept(F2, n2, G2, e)
<1>1. e.path = d.path /\ e.data = d.data /\ e.ver = d.ver /\ d.data >= d.ver
  BY DEF LaterEntry, Same, EntryKept
<1>2. ASSUME d.path # StaticNone
      PROVE /\ Had(F2, n2, G2, d.path, d.data)
            /\ e.age < TTL => /\ G2[d.path][d.data] <= e.age + TTL + 2 * MaxSpan
                              /\ G2[d.path][d.ver] <= e.age + TTL + 3 * MaxSpan
  <2>1. /\ d.path \in StaticPaths /\ d.data \in Versions /\ d.ver \in Versions
        /\ Past(F, n, d.path, d.data) /\ Past(F, n, d.path, d.ver)
    BY <1>2, EntryPast
  <2>2. Had(F2, n2, G2, d.path, d.data)
    BY <1>2, <2>1 DEF EntryKept, Later
  <2>3. /\ G2[d.path][d.data] <= G[d.path][d.data] + k
        /\ G2[d.path][d.ver] <= G[d.path][d.ver] + k
    BY <2>1 DEF Later
  <2>4. /\ G[d.path][d.data] \in Nat /\ G2[d.path][d.data] \in Nat
        /\ G[d.path][d.ver] \in Nat /\ G2[d.path][d.ver] \in Nat
    BY <2>1, ServedLong DEF Histories, Times
  <2>5. ASSUME e.age < TTL
        PROVE /\ G2[d.path][d.data] <= e.age + TTL + 2 * MaxSpan
              /\ G2[d.path][d.ver] <= e.age + TTL + 3 * MaxSpan
    <3>1. e.age = d.age + k /\ d.age \in Nat /\ d.age < TTL
      BY <1>2, <2>5, ServedLong DEF LaterEntry, CacheEntries
    <3>2. /\ G[d.path][d.data] <= d.age + TTL + 2 * MaxSpan
          /\ G[d.path][d.ver] <= d.age + TTL + 3 * MaxSpan
      BY <1>2, <3>1 DEF EntryKept
    <3> QED
      BY <2>3, <2>4, <3>1, <3>2, ServedLong
  <2> QED
    BY <2>2, <2>5
<1> QED
  BY <1>1, <1>2 DEF EntryKept

LEMMA HistoryNat ==
  ASSUME NEW G \in Histories, NEW f \in StaticPaths, NEW v \in Versions
  PROVE  G[f][v] \in Nat
BY ServedLong DEF Histories, Times

LEMMA ReplacedLater ==
  ASSUME NEW F \in Trees, NEW n \in Nat, NEW G \in Histories, NEW F2 \in Trees, NEW n2 \in Nat, NEW G2 \in Histories,
         NEW k \in {0, 1}, Later(F, n, G, F2, n2, G2, k),
         NEW O \in Heaps, NEW P \in Heaps, \A o \in Objs : LaterEntry(O[o], P[o], k),
         EntriesKept(F, n, G, O), NEW f \in StaticPaths,
         NEW m \in Readers, NEW q \in Readers, q.ticks = m.ticks + k, Replaced(G, O, m, f)
  PROVE  Replaced(G2, P, q, f)
<1> SUFFICES ASSUME NEW x \in Objs, P[x].path = f
             PROVE /\ G2[f][P[x].data] <= MaxSpan + q.ticks
                   /\ G2[f][P[x].ver] <= TTL + 2 * MaxSpan + q.ticks
  BY DEF Replaced
<1>1. O[x].path = f /\ O[x].data = P[x].data /\ O[x].ver = P[x].ver /\ O[x] \in CacheEntries
  BY DEF LaterEntry, Same, Heaps
<1>2. /\ O[x].data \in Versions /\ O[x].ver \in Versions
      /\ Past(F, n, f, O[x].data) /\ Past(F, n, f, O[x].ver)
  BY <1>1, EntryPast, StaticAssumption DEF EntriesKept
<1>3. G2[f][O[x].data] <= G[f][O[x].data] + k /\ G2[f][O[x].ver] <= G[f][O[x].ver] + k
  BY <1>2 DEF Later
<1>4. /\ G[f][O[x].data] <= MaxSpan + m.ticks
      /\ G[f][O[x].ver] <= TTL + 2 * MaxSpan + m.ticks
  BY <1>1 DEF Replaced
<1>5. /\ G[f][O[x].data] \in Nat /\ G2[f][O[x].data] \in Nat
      /\ G[f][O[x].ver] \in Nat /\ G2[f][O[x].ver] \in Nat
  BY <1>2, HistoryNat
<1>6. m.ticks \in Nat
  BY ServedLong DEF Readers
<1> QED
  BY <1>1, <1>3, <1>4, <1>5, <1>6, ServedLong

LEMMA KnownLater ==
  ASSUME NEW F \in Trees, NEW n \in Nat, NEW G \in Histories, NEW F2 \in Trees, NEW n2 \in Nat, NEW G2 \in Histories,
         NEW k \in {0, 1}, Later(F, n, G, F2, n2, G2, k), NEW f \in StaticPaths,
         NEW v \in Versions, Past(F, n, f, v), NEW t \in Nat, G[f][v] <= t
  PROVE  Past(F2, n2, f, v) /\ G2[f][v] <= t + k
<1>1. Past(F2, n2, f, v) /\ G2[f][v] <= G[f][v] + k
  BY DEF Later
<1>2. G[f][v] \in Nat /\ G2[f][v] \in Nat
  BY HistoryNat
<1> DEFINE g == G[f][v]
           g2 == G2[f][v]
<1>3. g \in Nat /\ g2 \in Nat /\ g2 <= g + k /\ g <= t /\ k \in {0, 1} /\ t \in Nat
  BY <1>1, <1>2
<1> HIDE DEF g, g2
<1>4. g2 <= t + k
  BY ONLY <1>3
<1> QED
  BY <1>1, <1>4 DEF g2

LEMMA InformedLater ==
  ASSUME NEW F \in Trees, NEW n \in Nat, NEW G \in Histories, NEW F2 \in Trees, NEW n2 \in Nat, NEW G2 \in Histories,
         NEW k \in {0, 1}, Later(F, n, G, F2, n2, G2, k), NEW f \in StaticPaths,
         NEW m \in Readers, NEW q \in Readers, q.ver = m.ver, q.ticks = m.ticks + k,
         Informed(F, n, G, m, f)
  PROVE  Informed(F2, n2, G2, q, f)
<1>1. m.ver \in Versions /\ m.ticks \in Nat /\ TTL + MaxSpan + m.ticks \in Nat
  BY ServedLong DEF Readers
<1>2. Past(F2, n2, f, m.ver) /\ G2[f][m.ver] <= TTL + MaxSpan + m.ticks + k
  <2> DEFINE t == TTL + MaxSpan + m.ticks
             v == m.ver
  <2>1. v \in Versions /\ t \in Nat /\ Past(F, n, f, v) /\ G[f][v] <= t
    BY <1>1 DEF Informed
  <2> HIDE DEF t, v
  <2>2. Past(F2, n2, f, v) /\ G2[f][v] <= G[f][v] + k
    BY <2>1 DEF Later
  <2>3. G[f][v] \in Nat /\ G2[f][v] \in Nat
    BY <2>1, HistoryNat
  <2>4. G2[f][v] <= t + k
    BY <2>1, <2>2, <2>3
  <2> QED
    BY <2>2, <2>4 DEF t, v
<1> QED
  BY <1>1, <1>2, ServedLong DEF Informed

LEMMA ReaderLater ==
  ASSUME NEW F \in Trees, NEW n \in Nat, NEW G \in Histories, NEW F2 \in Trees, NEW n2 \in Nat, NEW G2 \in Histories,
         NEW k \in {0, 1}, Later(F, n, G, F2, n2, G2, k),
         NEW O \in Heaps, NEW P \in Heaps, \A o \in Objs : LaterEntry(O[o], P[o], k),
         EntriesKept(F, n, G, O), NEW f \in StaticPaths,
         NEW m \in Readers, NEW q \in Readers, LaterReader(m, q, k), m.pc # "idle",
         ReaderKept(F, n, G, O, m, f)
  PROVE  ReaderKept(F2, n2, G2, P, q, f)
<1>1. /\ q.pc = m.pc /\ q.ver = m.ver /\ q.held = m.held /\ (q.torn <=> m.torn)
      /\ q.data = m.data /\ q.etag = m.etag /\ q.ticks = m.ticks + k
  BY DEF LaterReader
<1>2. m.data \in Versions /\ m.ticks \in Nat /\ 0 \in Versions
  BY ServedLong DEF Readers, Versions
<1>3. ASSUME m.pc = "stored" PROVE Past(F2, n2, f, q.ver) /\ G2[f][q.ver] <= q.ticks
  <2>1. m.ver \in Versions /\ Past(F, n, f, m.ver) /\ G[f][m.ver] <= m.ticks
    BY <1>3 DEF ReaderKept, Readers
  <2> DEFINE v == m.ver
             t == m.ticks
  <2>2. v \in Versions /\ t \in Nat /\ Past(F, n, f, v) /\ G[f][v] <= t
    BY <1>2, <2>1
  <2> HIDE DEF v, t
  <2>3. Past(F2, n2, f, v) /\ G2[f][v] <= t + k
    <3>1. \A w \in Versions, s \in Nat :
            Past(F, n, f, w) /\ G[f][w] <= s => Past(F2, n2, f, w) /\ G2[f][w] <= s + k
      BY KnownLater
    <3> QED
      BY ONLY <2>2, <3>1, Zenon
  <2> QED
    BY <1>1, <2>3, Zenon DEF v, t
<1>4. ASSUME m.pc \in {"serve", "get", "check", "send", "read", "set"}
      PROVE  Informed(F2, n2, G2, q, f)
  <2>1. Informed(F, n, G, m, f)
    BY <1>4 DEF ReaderKept
  <2> QED
    BY <1>1, <2>1, InformedLater
<1>5. ASSUME m.pc = "set"
      PROVE  q.data >= q.ver /\ Had(F2, n2, G2, f, q.data) /\ G2[f][q.data] <= q.ticks
  <2>1. m.data >= m.ver /\ Had(F, n, G, f, m.data) /\ G[f][m.data] <= m.ticks
    BY <1>5 DEF ReaderKept
  <2>2. Past(F, n, f, m.data)
    BY <2>1 DEF Had
  <2>3. Had(F2, n2, G2, f, m.data)
    BY <1>2, <2>1 DEF Later
  <2>4. G2[f][m.data] <= m.ticks + k
    <3> DEFINE v == m.data
               t == m.ticks
    <3>1. v \in Versions /\ t \in Nat /\ Past(F, n, f, v) /\ G[f][v] <= t
      BY <1>2, <2>1, <2>2
    <3> HIDE DEF v, t
    <3>2. G2[f][v] <= t + k
      BY <3>1, KnownLater
    <3> QED
      BY <3>2 DEF v, t
  <2> QED
    BY <1>1, <2>1, <2>3, <2>4
<1>6. m.pc \in {"check", "send"} => /\ q.held \in Objs
                                    /\ ~q.torn => P[q.held].path = f
  BY <1>1 DEF ReaderKept, LaterEntry, Same
<1>7. m.pc = "check" /\ q.torn => Replaced(G2, P, q, f)
  BY <1>1, ReplacedLater DEF ReaderKept
<1>8. ASSUME m.pc = "send", ~q.torn
      PROVE G2[f][P[q.held].data] <= Served + 2 * MaxSpan + q.ticks
  <2>1. m.held \in Objs /\ O[m.held].path = f /\ ~m.torn
    BY <1>1, <1>8 DEF ReaderKept
  <2> DEFINE d == O[m.held].data
  <2>2. O[m.held] \in CacheEntries /\ P[m.held].data = d
    BY <2>1 DEF Heaps, LaterEntry, Same
  <2>3. d \in Versions /\ Past(F, n, f, d)
    BY <2>1, <2>2, EntryPast, StaticAssumption DEF EntriesKept
  <2>4. G2[f][d] <= G[f][d] + k
    BY <2>3 DEF Later
  <2>5. G[f][d] \in Nat /\ G2[f][d] \in Nat
    BY <2>3, HistoryNat
  <2>6. G[f][d] <= Served + 2 * MaxSpan + m.ticks
    BY <1>8, <2>1 DEF ReaderKept
  <2> HIDE DEF d
  <2> QED
    BY <1>1, <1>2, <2>2, <2>4, <2>5, <2>6, ServedLong
<1>9. ASSUME m.pc \in {"200", "304"}, ~q.torn
      PROVE /\ Past(F2, n2, f, q.data) /\ G2[f][q.data] <= Bound
            /\ q.etag # 0 => Had(F2, n2, G2, f, q.data)
  <2>1. /\ Past(F, n, f, m.data) /\ G[f][m.data] <= Bound /\ k = 0
        /\ m.etag # 0 => Had(F, n, G, f, m.data)
    BY <1>1, <1>9 DEF ReaderKept, LaterReader
  <2>2. /\ Past(F2, n2, f, m.data) /\ G2[f][m.data] <= G[f][m.data] + k
        /\ m.etag # 0 => Had(F2, n2, G2, f, m.data)
    BY <1>2, <2>1 DEF Later
  <2>3. G[f][m.data] \in Nat /\ G2[f][m.data] \in Nat
    BY <1>2, HistoryNat
  <2> QED
    BY <1>1, <2>1, <2>2, <2>3, ServedLong
<1>10. m.pc \in {"200", "304"} => q.data >= q.etag
  BY <1>1 DEF ReaderKept
<1>11. ASSUME m.pc = "404" PROVE G2[f][0] <= Bound
  <2>1. G[f][0] <= Bound /\ k = 0 /\ G2[f][0] <= G[f][0] + k
    BY <1>11 DEF ReaderKept, LaterReader, Later
  <2>2. G[f][0] \in Nat /\ G2[f][0] \in Nat
    BY <1>2, HistoryNat
  <2> QED
    BY <2>1, <2>2, ServedLong
<1> QED
  BY <1>1, <1>3, <1>4, <1>5, <1>6, <1>7, <1>8, <1>9, <1>10, <1>11, Zenon DEF ReaderKept

LEMMA RequestLater ==
  ASSUME NEW F \in Trees, NEW n \in Nat, NEW G \in Histories, NEW F2 \in Trees, NEW n2 \in Nat, NEW G2 \in Histories,
         NEW k \in {0, 1}, Later(F, n, G, F2, n2, G2, k),
         NEW O \in Heaps, NEW P \in Heaps, \A o \in Objs : LaterEntry(O[o], P[o], k),
         EntriesKept(F, n, G, O), NEW m \in Readers, NEW q \in Readers, LaterReader(m, q, k),
         RequestKept(F, n, G, O, m)
  PROVE  RequestKept(F2, n2, G2, P, q)
<1>1. CASE m.pc = "idle"
  BY <1>1 DEF RequestKept, TodoKept, LaterReader
<1>2. CASE m.pc # "idle"
  <2>1. /\ q.pc = m.pc /\ q.todo = m.todo /\ q.at = m.at /\ q.ticks = m.ticks + k
    BY <1>2 DEF LaterReader
  <2>2. /\ m.at \in 1..Len(m.todo)
        /\ \A i \in 1..(m.at - 1) : G[m.todo[i]][0] <= TTL + MaxSpan + m.ticks
        /\ m.todo \in Seq(StaticPaths) /\ m.ticks \in Nat /\ m.at \in Nat
    <3>1. m.todo \in Seq(StaticPaths) /\ m.ticks \in Nat /\ m.at \in Nat
      BY ServedLong DEF Readers
    <3> QED
      BY <1>2, <3>1, Zenon DEF RequestKept, TodoKept
  <2>3. m.todo[m.at] \in StaticPaths
    BY <2>2
  <2>4. ReaderKept(F2, n2, G2, P, q, m.todo[m.at])
    BY <1>2, <2>3, ReaderLater DEF RequestKept
  <2>5. ASSUME NEW i \in 1..(m.at - 1) PROVE G2[m.todo[i]][0] <= TTL + MaxSpan + q.ticks
    <3>1. m.todo[i] \in StaticPaths /\ 0 \in Versions
      BY <2>2, ServedLong DEF Versions
    <3>2. G2[m.todo[i]][0] <= G[m.todo[i]][0] + k
      BY <3>1 DEF Later
    <3>3. G[m.todo[i]][0] \in Nat /\ G2[m.todo[i]][0] \in Nat
      BY <3>1, HistoryNat
    <3>4. G[m.todo[i]][0] <= TTL + MaxSpan + m.ticks
      BY <2>2
    <3> DEFINE a == G[m.todo[i]][0]
               b == G2[m.todo[i]][0]
    <3> HIDE DEF a, b
    <3>5. b <= a + k /\ a \in Nat /\ b \in Nat /\ a <= TTL + MaxSpan + m.ticks /\ m.ticks \in Nat
      BY <2>2, <3>2, <3>3, <3>4 DEF a, b
    <3>6. b <= TTL + MaxSpan + q.ticks
      BY ONLY <2>1, <3>5, k \in {0, 1}, ServedLong
    <3> QED
      BY <3>6 DEF b
  <2>6. TodoKept(G2, q)
    BY <1>2, <2>1, <2>2, <2>5 DEF TodoKept
  <2> QED
    BY <2>1, <2>4, <2>6 DEF RequestKept
<1> QED
  BY <1>1, <1>2

LEMMA EnvironmentKept ==
  ASSUME AnswersInv, FilesTyped', NEW k \in {0, 1},
         Later(fs, changes, gone, fs', changes', gone', k), FilesNow(fs', changes', gone'),
         \A f \in StaticPaths : LaterInfo(info[f], info'[f], k),
         \A o \in Objs : LaterEntry(obj[o], obj'[o], k),
         \A r \in StaticRequests : LaterReader(staticReq[r], staticReq'[r], k), copy' = copy
  PROVE  AnswersInv'
<1>1. /\ fs \in Trees /\ changes \in Nat /\ gone \in Histories /\ obj \in Heaps
      /\ info \in [StaticPaths -> Infos \cup {StaticNone}]
      /\ staticReq \in [StaticRequests -> Readers] /\ copy \in [StaticRequests -> Copies]
  BY ServedLong DEF AnswersInv, FilesTyped, Trees, Histories, Times, Heaps
<1>2. /\ fs' \in Trees /\ changes' \in Nat /\ gone' \in Histories /\ obj' \in Heaps
      /\ info' \in [StaticPaths -> Infos \cup {StaticNone}]
      /\ staticReq' \in [StaticRequests -> Readers]
  BY ServedLong DEF FilesTyped, Trees, Histories, Times, Heaps
<1>3. InfosKept(fs', changes', gone', info')
  <2> SUFFICES ASSUME NEW f \in StaticPaths PROVE InfoKept(fs', changes', gone', f, info'[f])
    BY DEF InfosKept
  <2>1. InfoKept(fs, changes, gone, f, info[f])
    BY DEF AnswersInv, InfosKept
  <2>2. info[f] \in Infos \cup {StaticNone} /\ info'[f] \in Infos \cup {StaticNone}
    BY <1>1, <1>2
  <2> QED
    BY <1>1, <1>2, <2>1, <2>2, InfoLater
<1>4. EntriesKept(fs, changes, gone, obj)
  BY DEF AnswersInv
<1>5. EntriesKept(fs', changes', gone', obj')
  <2> SUFFICES ASSUME NEW o \in Objs PROVE EntryKept(fs', changes', gone', obj'[o])
    BY DEF EntriesKept
  <2>1. obj[o] \in CacheEntries /\ obj'[o] \in CacheEntries
    BY <1>1, <1>2 DEF Heaps
  <2> QED
    BY <1>1, <1>2, <1>4, <2>1, EntryLater DEF EntriesKept
<1>6. OneEntry(obj')
  BY DEF AnswersInv, OneEntry, LaterEntry, Same
<1>7. RequestsKept(fs', changes', gone', obj', staticReq')
  <2> SUFFICES ASSUME NEW r \in StaticRequests
               PROVE RequestKept(fs', changes', gone', obj', staticReq'[r])
    BY DEF RequestsKept
  <2>1. staticReq[r] \in Readers /\ staticReq'[r] \in Readers
    BY <1>1, <1>2
  <2>2. RequestKept(fs, changes, gone, obj, staticReq[r])
    BY DEF AnswersInv, RequestsKept
  <2> QED
    BY <1>1, <1>2, <1>4, <2>1, <2>2, RequestLater
<1>8. CopiesKept(fs', changes', gone', copy')
  <2> SUFFICES ASSUME NEW r \in StaticRequests PROVE CopyKept(fs', changes', gone', copy[r])
    BY DEF CopiesKept
  <2>1. copy[r].body \in Versions /\ First \in StaticPaths
    BY <1>1, StaticAssumption DEF Copies
  <2> QED
    BY <2>1 DEF AnswersInv, CopiesKept, CopyKept, Later
<1> QED
  BY <1>3, <1>5, <1>6, <1>7, <1>8 DEF AnswersInv

\* What a step finds.
LEMMA FilesTypes ==
  ASSUME AnswersInv
  PROVE  /\ fs \in Trees /\ changes \in 0..MaxChanges /\ changes \in Nat
         /\ gone \in Histories /\ obj \in Heaps
         /\ info \in [StaticPaths -> Infos \cup {StaticNone}]
         /\ staticReq \in [StaticRequests -> Readers] /\ copy \in [StaticRequests -> Copies]
BY ServedLong DEF AnswersInv, FilesTyped, Trees, Histories, Times, Heaps

LEMMA EntriesSame == \A e, k : k = 0 /\ e \in CacheEntries => LaterEntry(e, e, k)
BY DEF LaterEntry, Same, CacheEntries

\* A change of one file.
LEMMA ChangeKept ==
  ASSUME AnswersInv, NEW f \in StaticPaths, NEW v \in Versions, v = 0 \/ v = changes + 2,
         changes < MaxChanges, changes' = changes + 1, fs' = [fs EXCEPT ![f] = v],
         gone' = [gone EXCEPT ![f][v] = 0],
         UNCHANGED <<info, cvars, staticReq, copy>>
  PROVE  AnswersInv'
<1> USE FilesTypes
<1>1. fs' \in Trees /\ changes' \in 0..MaxChanges
  BY ServedLong DEF Trees
<1>2. \A g \in StaticPaths, w \in Versions :
        gone'[g][w] = IF g = f /\ w = v THEN 0 ELSE gone[g][w]
  BY DEF Histories
<1>3. gone' \in Histories
  BY ServedLong DEF Histories, Times
<1>4. FilesTyped'
  BY <1>1, <1>3 DEF AnswersInv, FilesTyped, Trees, Histories, Times, cvars
<1>5. \A g \in StaticPaths : fs'[g] = IF g = f THEN v ELSE fs[g]
  BY DEF Trees
<1>6. \A g \in StaticPaths : fs[g] \in Versions
  BY DEF Trees
<1>7. ASSUME NEW g \in StaticPaths, NEW w \in Versions, Past(fs, changes, g, w)
      PROVE /\ Past(fs', changes', g, w) /\ w <= changes + 1
            /\ w # 0 => gone'[g][w] = gone[g][w]
            /\ gone'[g][w] <= gone[g][w]
  <2>1. w \in 0..(changes + 1) /\ (fs[g] # 0 => w <= fs[g])
    BY <1>7 DEF Past
  <2>2. Past(fs', changes', g, w)
    BY <1>1, <1>5, <1>6, <2>1 DEF Past, Versions
  <2>3. w # 0 => w # v
    BY <2>1 DEF Versions
  <2>4. gone[g][w] \in Nat
    BY HistoryNat
  <2> QED
    BY <1>2, <2>1, <2>2, <2>3, <2>4 DEF Versions
<1>8. ASSUME NEW g \in StaticPaths, NEW d \in Versions, Had(fs, changes, gone, g, d)
      PROVE  Had(fs', changes', gone', g, d)
  <2>1. Past(fs, changes, g, d) /\ Ordered(gone, g, d)
    BY <1>8 DEF Had
  <2>2. Past(fs', changes', g, d) /\ d <= changes + 1
    BY <1>7, <2>1
  <2>3. ASSUME NEW w \in 1..d PROVE gone'[g][d] <= gone'[g][w]
    <3>1. w \in Versions /\ w # 0 /\ w # v /\ d # 0 /\ d # v
      BY <2>2, ServedLong DEF Versions
    <3>2. gone'[g][d] = gone[g][d] /\ gone'[g][w] = gone[g][w]
      BY <1>2, <3>1
    <3> QED
      BY <2>1, <3>2 DEF Ordered
  <2> QED
    BY <2>2, <2>3 DEF Had, Ordered
<1>9. Later(fs, changes, gone, fs', changes', gone', 0)
  <2>1. ASSUME NEW g \in StaticPaths, NEW w \in Versions
        PROVE  gone'[g][w] \in Nat /\ gone[g][w] \in Nat /\ gone'[g][w] + 0 = gone'[g][w]
               /\ gone[g][w] + 0 = gone[g][w]
    BY <1>3, HistoryNat
  <2>2. 0 \in Versions
    BY ServedLong DEF Versions
  <2>3. \A g \in StaticPaths : gone'[g][0] <= gone[g][0] + 0
    BY <1>2, <2>1, <2>2
  <2>4. ASSUME NEW g \in StaticPaths, NEW w \in Versions, Past(fs, changes, g, w)
        PROVE  Past(fs', changes', g, w) /\ gone'[g][w] <= gone[g][w] + 0
    BY <1>7, <2>1, <2>4
  <2> QED
    BY <1>8, <2>3, <2>4, Zenon DEF Later
<1>10. FilesNow(fs', changes', gone')
  <2> SUFFICES ASSUME NEW g \in StaticPaths
               PROVE Past(fs', changes', g, fs'[g]) /\ gone'[g][fs'[g]] = 0
    BY DEF FilesNow
  <2>1. CASE g = f
    BY <1>1, <1>2, <1>5, <2>1 DEF Past, Versions
  <2>2. CASE g # f
    <3>1. Past(fs, changes, g, fs[g]) /\ gone[g][fs[g]] = 0
      BY DEF AnswersInv, FilesNow
    <3>2. Past(fs', changes', g, fs[g])
      BY <1>6, <1>7, <3>1
    <3> QED
      BY <1>2, <1>5, <1>6, <2>2, <3>1, <3>2
  <2> QED
    BY <2>1, <2>2
<1>11. \A g \in StaticPaths : LaterInfo(info[g], info'[g], 0)
  BY ServedLong DEF LaterInfo, Infos
<1>12. \A o \in Objs : LaterEntry(obj[o], obj'[o], 0)
  BY EntriesSame DEF Heaps, cvars
<1>13. \A r \in StaticRequests : LaterReader(staticReq[r], staticReq'[r], 0)
  <2> SUFFICES ASSUME NEW r \in StaticRequests
               PROVE LaterReader(staticReq[r], staticReq[r], 0)
    OBVIOUS
  <2>1. staticReq[r].ticks \in Nat
    BY ServedLong DEF Readers
  <2>2. staticReq[r].ticks = staticReq[r].ticks + 0
    BY <2>1
  <2> QED
    BY <2>2, Zenon DEF LaterReader
<1> QED
  BY <1>4, <1>9, <1>10, <1>11, <1>12, <1>13, EnvironmentKept

LEMMA WriteKept == ASSUME AnswersInv, NEW f \in StaticPaths, Write(f) PROVE AnswersInv'
<1>1. changes + 2 \in Versions /\ changes' + 1 = changes + 2
  BY FilesTypes, ServedLong DEF Versions, Write
<1> QED
  BY <1>1, ChangeKept DEF Write

LEMMA DeleteKept == ASSUME AnswersInv, NEW f \in StaticPaths, Delete(f) PROVE AnswersInv'
<1>1. 0 \in Versions
  BY ServedLong DEF Versions
<1> QED
  BY <1>1, ChangeKept DEF Delete

LEMMA OlderGrows ==
  /\ \A a, cap \in Nat : /\ Older(a, cap) \in Nat /\ Older(a, cap) <= a + 1
                         /\ Older(a, cap) <= cap
                         /\ Older(a, cap) < cap => Older(a, cap) = a + 1
  /\ \A a, b, cap \in Nat : a <= b => Older(a, cap) <= Older(b, cap)
BY DEF Older

LEMMA OlderBelow ==
  ASSUME NEW a \in Nat, NEW cap \in Nat
  PROVE  /\ Older(a, cap) \in 0..cap /\ (Older(a, cap) < cap => Older(a, cap) = a + 1)
         /\ Older(a, cap + 1) \in 0..(cap + 1)
         /\ Older(a, cap + 1) <= cap => Older(a, cap + 1) = a + 1
BY DEF Older

LEMMA TickKept == ASSUME AnswersInv, StaticTick PROVE AnswersInv'
<1> USE FilesTypes
<1>1. /\ \A f \in StaticPaths, v \in Versions :
           gone'[f][v] = IF v = fs[f] THEN 0 ELSE Older(gone[f][v], Bound + 1)
      /\ UNCHANGED <<fs, changes, copy>>
  BY DEF StaticTick
<1>2. \A f \in StaticPaths, v \in Versions : gone[f][v] \in Nat /\ fs[f] \in Versions
  BY HistoryNat DEF Trees
<1>3. ASSUME NEW f \in StaticPaths, NEW v \in Versions
      PROVE  gone'[f][v] \in Times /\ gone'[f][v] <= gone[f][v] + 1
  <2>1. gone[f][v] \in Nat /\ Bound + 1 \in Nat
    BY <1>2, ServedLong
  <2>2. /\ Older(gone[f][v], Bound + 1) \in Nat
        /\ Older(gone[f][v], Bound + 1) <= gone[f][v] + 1
        /\ Older(gone[f][v], Bound + 1) <= Bound + 1
    BY ONLY <2>1, OlderGrows
  <2> QED
    BY <1>1, <2>1, <2>2 DEF Times
<1>4. gone' \in Histories
  BY <1>3 DEF StaticTick, Histories
<1>5. ASSUME NEW f \in StaticPaths, NEW d \in Versions, Had(fs, changes, gone, f, d)
      PROVE  Had(fs', changes', gone', f, d)
  <2>1. Past(fs, changes, f, d) /\ Ordered(gone, f, d)
    BY <1>5 DEF Had
  <2>2. ASSUME NEW w \in 1..d PROVE gone'[f][d] <= gone'[f][w]
    <3>1. w \in Versions /\ w # 0 /\ gone[f][d] <= gone[f][w]
      BY <2>1, ServedLong DEF Versions, Ordered
    <3>2. CASE w = fs[f]
      <4>1. d = w
        BY <2>1, <3>1, <3>2, ServedLong DEF Past, Versions
      <4> QED
        BY <4>1, <1>1, <3>2
    <3>3. CASE w # fs[f]
      <4>1. gone'[f][w] = Older(gone[f][w], Bound + 1)
        BY <1>1, <3>1, <3>3
      <4>a. gone[f][d] \in Nat /\ gone[f][w] \in Nat /\ Bound + 1 \in Nat
        BY <1>2, <3>1, ServedLong
      <4>2. Older(gone[f][d], Bound + 1) <= Older(gone[f][w], Bound + 1)
        BY ONLY <4>a, <3>1, OlderGrows
      <4>3. Older(gone[f][w], Bound + 1) \in Nat
        BY ONLY <4>a, OlderGrows
      <4> QED
        BY <1>1, <4>1, <4>2, <4>3
    <3> QED
      BY <3>2, <3>3
  <2>3. Past(fs', changes', f, d)
    BY <1>1, <2>1
  <2> QED
    BY <2>2, <2>3 DEF Had, Ordered
<1>6. Later(fs, changes, gone, fs', changes', gone', 1)
  <2>1. 0 \in Versions
    BY ServedLong DEF Versions
  <2> QED
    BY <1>1, <1>3, <1>5, <2>1 DEF Later
<1>7. FilesNow(fs', changes', gone')
  <2> SUFFICES ASSUME NEW f \in StaticPaths
               PROVE Past(fs, changes, f, fs[f]) /\ gone'[f][fs[f]] = 0
    BY <1>1 DEF FilesNow
  <2>1. fs[f] \in Versions
    BY DEF Trees
  <2> QED
    BY <1>1, <2>1 DEF AnswersInv, FilesNow
<1>8. ASSUME NEW f \in StaticPaths
      PROVE  info'[f] \in Infos \cup {StaticNone} /\ LaterInfo(info[f], info'[f], 1)
  <2>1. CASE info[f] = StaticNone
    BY <2>1 DEF StaticTick, LaterInfo
  <2>2. CASE info[f] # StaticNone
    <3>1. info'[f] = [info[f] EXCEPT !.age = Older(@, TTL + 1)] /\ info[f] \in Infos
      BY <2>2 DEF StaticTick
    <3>2. info[f].age \in Nat /\ info[f].ver \in Versions
      BY <3>1, ServedLong DEF Infos
    <3>3. /\ info'[f].ver = info[f].ver /\ info'[f].age = Older(info[f].age, TTL + 1)
          /\ info'[f] = [ver |-> info[f].ver, age |-> Older(info[f].age, TTL + 1)]
      BY <3>1 DEF Infos
    <3>4. /\ Older(info[f].age, TTL + 1) \in 0..(TTL + 1)
          /\ Older(info[f].age, TTL + 1) <= TTL
               => Older(info[f].age, TTL + 1) = info[f].age + 1
      BY ONLY <3>2, OlderBelow, ServedLong
    <3> QED
      BY <2>2, <3>2, <3>3, <3>4 DEF Infos, LaterInfo
  <2> QED
    BY <2>1, <2>2
<1>9. ASSUME NEW o \in Objs PROVE obj'[o] \in CacheEntries /\ LaterEntry(obj[o], obj'[o], 1)
  <2>1. obj[o] \in CacheEntries
    BY DEF Heaps
  <2>2. CASE obj[o].path = StaticNone
    BY <2>1, <2>2 DEF StaticTick, LaterEntry, Same
  <2>3. CASE obj[o].path # StaticNone
    <3>1. obj'[o] = [obj[o] EXCEPT !.age = Older(@, TTL)]
      BY <2>3 DEF StaticTick
    <3>2. /\ obj[o].path \in StaticPaths \cup {StaticNone} /\ obj[o].data \in Versions
          /\ obj[o].ver \in Versions /\ obj[o].age \in Nat
      BY <2>1, ServedLong DEF CacheEntries
    <3>3. obj'[o] = [path |-> obj[o].path, data |-> obj[o].data, ver |-> obj[o].ver,
                     age |-> Older(obj[o].age, TTL)]
      BY <2>1, <3>1 DEF CacheEntries
    <3>4. /\ Older(obj[o].age, TTL) \in 0..TTL
          /\ Older(obj[o].age, TTL) < TTL => Older(obj[o].age, TTL) = obj[o].age + 1
      BY ONLY <3>2, OlderBelow, ServedLong
    <3> QED
      BY <3>2, <3>3, <3>4 DEF CacheEntries, LaterEntry, Same
  <2> QED
    BY <2>2, <2>3
<1>10. ASSUME NEW r \in StaticRequests
       PROVE  staticReq'[r] \in Readers /\ LaterReader(staticReq[r], staticReq'[r], 1)
  <2> DEFINE m == staticReq[r]
  <2>1. m \in Readers
    OBVIOUS
  <2>2. CASE m.pc = "idle"
    BY <2>1, <2>2 DEF StaticTick, LaterReader
  <2>3. CASE m.pc # "idle"
    <3>1. /\ staticReq'[r] = [m EXCEPT !.ticks = @ + 1] /\ m.ticks < MaxSpan
          /\ m.pc \notin {"200", "304", "404", "500"}
      BY <2>3 DEF StaticTick
    <3>2. m.ticks + 1 \in 0..MaxSpan
      BY <2>1, <3>1, ServedLong DEF Readers
    <3> HIDE DEF m
    <3> QED
      BY <2>1, <3>1, <3>2 DEF Readers, LaterReader, m
  <2> QED
    BY <2>2, <2>3
<1>11. FilesTyped'
  <2>1. info' \in [StaticPaths -> Infos \cup {StaticNone}]
    BY <1>8 DEF StaticTick
  <2>2. obj' \in Heaps
    BY <1>9 DEF StaticTick, Heaps
  <2>3. staticReq' \in [StaticRequests -> Readers]
    BY <1>10 DEF StaticTick
  <2> QED
    BY <1>1, <1>4, <2>1, <2>2, <2>3 DEF AnswersInv, FilesTyped, Trees, Histories, Times, Heaps
<1> QED
  BY <1>1, <1>6, <1>7, <1>8, <1>9, <1>10, <1>11, EnvironmentKept

-----------------------------------------------------------------------------
(* A step of a request, seen by the others.  P are the objects after the step:
   each has become free, is what it was, or holds what was just stored. *)

Newest(G, e) ==
  G[e.path][e.data] <= MaxSpan /\ G[e.path][e.ver] <= TTL + 2 * MaxSpan

Moves(G, O, P) ==
  \A x \in Objs : P[x].path = StaticNone \/ Same(O[x], P[x]) \/ Newest(G, P[x])

LEMMA TornFields ==
  ASSUME NEW m \in Readers, NEW P
  PROVE  LET q == Torn(m, P) IN
         /\ q \in Readers
         /\ q.pc = m.pc /\ q.mode = m.mode /\ q.todo = m.todo /\ q.at = m.at /\ q.ver = m.ver
         /\ q.held = m.held /\ q.data = m.data /\ q.etag = m.etag /\ q.ticks = m.ticks
         /\ q.torn <=> m.torn \/ (m.held # StaticNone /\ ~Same(obj[m.held], P[m.held]))
<1> DEFINE b == m.torn \/ (m.held # StaticNone /\ ~Same(obj[m.held], P[m.held]))
<1>1. Torn(m, P) = [m EXCEPT !.torn = b]
  BY Zenon DEF Torn
<1>2. b \in BOOLEAN
  BY Zenon DEF Readers
<1> HIDE DEF b
<1>3. LET q == [m EXCEPT !.torn = b] IN
      /\ q \in Readers
      /\ q.pc = m.pc /\ q.mode = m.mode /\ q.todo = m.todo /\ q.at = m.at /\ q.ver = m.ver
      /\ q.held = m.held /\ q.data = m.data /\ q.etag = m.etag /\ q.ticks = m.ticks
      /\ q.torn = b
  BY <1>2 DEF Readers
<1> QED
  BY <1>1, <1>3, Zenon DEF b

LEMMA RequestAt ==
  ASSUME NEW F \in Trees, NEW n \in Nat, NEW G \in Histories, NEW O \in Heaps, NEW P \in Heaps,
         NEW m \in Readers, NEW q \in Readers, m.pc # "idle", q.pc # "idle",
         q.todo = m.todo, q.at = m.at, q.ticks = m.ticks,
         RequestKept(F, n, G, O, m), ReaderKept(F, n, G, P, q, m.todo[m.at])
  PROVE  RequestKept(F, n, G, P, q)
BY Zenon DEF RequestKept, TodoKept

LEMMA ReaderAt ==
  ASSUME NEW F \in Trees, NEW n \in Nat, NEW G \in Histories, NEW O \in Heaps,
         NEW m \in Readers, m.pc # "idle", RequestKept(F, n, G, O, m)
  PROVE  /\ m.at \in 1..Len(m.todo) /\ m.todo[m.at] \in StaticPaths
         /\ ReaderKept(F, n, G, O, m, m.todo[m.at])
<1>1. m.todo \in Seq(StaticPaths)
  BY DEF Readers
<1>2. m.at \in 1..Len(m.todo)
  BY Zenon DEF RequestKept, TodoKept
<1>3. m.todo[m.at] \in StaticPaths
  BY <1>1, <1>2
<1> QED
  BY <1>2, <1>3, Zenon DEF RequestKept

LEMMA OtherReader ==
  ASSUME NEW F \in Trees, NEW n \in Nat, NEW G \in Histories, obj \in Heaps, NEW P \in Heaps,
         Moves(G, obj, P), OneEntry(obj), NEW f \in StaticPaths, NEW m \in Readers,
         ReaderKept(F, n, G, obj, m, f)
  PROVE  ReaderKept(F, n, G, P, Torn(m, P), f)
<1> DEFINE q == Torn(m, P)
<1>1. /\ q \in Readers
      /\ q.pc = m.pc /\ q.ver = m.ver
      /\ q.held = m.held /\ q.data = m.data /\ q.etag = m.etag /\ q.ticks = m.ticks
  BY TornFields
<1>2. q.torn <=> m.torn \/ (m.held # StaticNone /\ ~Same(obj[m.held], P[m.held]))
  BY TornFields
<1> HIDE DEF q
<1>3. m.pc \in {"check", "send"} => /\ q.held \in Objs
                                    /\ ~q.torn => P[q.held].path = f
  BY <1>1, <1>2, StaticAssumption DEF ReaderKept, Same
<1>4. m.pc = "send" /\ ~q.torn => G[f][P[q.held].data] <= Served + 2 * MaxSpan + q.ticks
  BY <1>1, <1>2, StaticAssumption DEF ReaderKept, Same
<1>5. ASSUME m.pc = "check", q.torn PROVE Replaced(G, P, q, f)
  <2> SUFFICES ASSUME NEW x \in Objs, P[x].path = f
               PROVE /\ G[f][P[x].data] <= MaxSpan + q.ticks
                     /\ G[f][P[x].ver] <= TTL + 2 * MaxSpan + q.ticks
    BY DEF Replaced
  <2>1. P[x].data \in Versions /\ P[x].ver \in Versions /\ m.ticks \in Nat
    BY ServedLong DEF Heaps, CacheEntries, Readers
  <2>2. G[f][P[x].data] \in Nat /\ G[f][P[x].ver] \in Nat
    BY <2>1, HistoryNat
  <2>3. CASE Newest(G, P[x])
    BY <1>1, <2>1, <2>2, <2>3, ServedLong DEF Newest
  <2>4. CASE Same(obj[x], P[x])
    <3>1. obj[x].path = f /\ obj[x].data = P[x].data /\ obj[x].ver = P[x].ver
      BY <2>4 DEF Same
    <3>2. m.torn
      <4>1. SUFFICES ASSUME ~m.torn PROVE FALSE
        OBVIOUS
      <4>2. m.held \in Objs /\ obj[m.held].path = f /\ ~Same(obj[m.held], P[m.held])
        BY <1>2, <1>5, <4>1 DEF ReaderKept
      <4>3. x = m.held
        BY <3>1, <4>2, StaticAssumption DEF OneEntry
      <4> QED
        BY <2>4, <4>2, <4>3
    <3>3. Replaced(G, obj, m, f)
      BY <1>5, <3>2 DEF ReaderKept
    <3> QED
      BY <1>1, <3>1, <3>3 DEF Replaced
  <2>5. P[x].path # StaticNone
    BY StaticAssumption
  <2> QED
    BY <2>3, <2>4, <2>5 DEF Moves
<1>6. (m.torn => q.torn) /\ (Informed(F, n, G, m, f) => Informed(F, n, G, q, f))
  BY <1>1, <1>2 DEF Informed
<1>7. ReaderKept(F, n, G, P, q, f)
  <2> USE <1>1, <1>6 DEF ReaderKept
  <2>1. q.pc = "stored" => Past(F, n, f, q.ver) /\ G[f][q.ver] <= q.ticks
    OBVIOUS
  <2>2. q.pc \in {"serve", "get", "check", "send", "read", "set"} => Informed(F, n, G, q, f)
    BY Zenon
  <2>3. q.pc = "set" => /\ q.data >= q.ver /\ Had(F, n, G, f, q.data)
                        /\ G[f][q.data] <= q.ticks
    OBVIOUS
  <2>4. q.pc \in {"200", "304"} /\ ~q.torn =>
          /\ Past(F, n, f, q.data) /\ G[f][q.data] <= Bound
          /\ q.etag # 0 => Had(F, n, G, f, q.data)
    BY Zenon
  <2>5. (q.pc \in {"200", "304"} => q.data >= q.etag) /\ (q.pc = "404" => G[f][0] <= Bound)
    OBVIOUS
  <2> QED
    BY <1>3, <1>4, <1>5, <2>1, <2>2, <2>3, <2>4, <2>5, Zenon
<1> QED
  BY <1>7 DEF q

LEMMA OtherRequest ==
  ASSUME NEW F \in Trees, NEW n \in Nat, NEW G \in Histories, obj \in Heaps, NEW P \in Heaps,
         Moves(G, obj, P), OneEntry(obj), NEW m \in Readers, RequestKept(F, n, G, obj, m)
  PROVE  RequestKept(F, n, G, P, Torn(m, P))
<1>1. /\ Torn(m, P) \in Readers /\ Torn(m, P).pc = m.pc /\ Torn(m, P).todo = m.todo
      /\ Torn(m, P).at = m.at /\ Torn(m, P).ticks = m.ticks
  BY TornFields
<1>2. CASE m.pc = "idle"
  BY <1>1, <1>2, Zenon DEF RequestKept, TodoKept
<1>3. CASE m.pc # "idle"
  <2>1. ReaderKept(F, n, G, P, Torn(m, P), m.todo[m.at])
    BY <1>3, ReaderAt, OtherReader
  <2> QED
    BY <1>1, <1>3, <2>1, RequestAt
<1> QED
  BY <1>2, <1>3

LEMMA RequestStep ==
  ASSUME AnswersInv, NEW r \in StaticRequests, UNCHANGED <<fs, changes, gone>>, obj' = obj,
         info' \in [StaticPaths -> Infos \cup {StaticNone}],
         InfosKept(fs, changes, gone, info'),
         copy' \in [StaticRequests -> Copies], CopiesKept(fs, changes, gone, copy'),
         NEW m \in Readers, staticReq' = [staticReq EXCEPT ![r] = m],
         RequestKept(fs, changes, gone, obj, m)
  PROVE  AnswersInv'
<1>1. staticReq' \in [StaticRequests -> Readers]
  BY FilesTypes
<1>2. FilesTyped'
  BY <1>1 DEF AnswersInv, FilesTyped
<1>3. \A q \in StaticRequests : staticReq'[q] = IF q = r THEN m ELSE staticReq[q]
  BY FilesTypes
<1>4. RequestsKept(fs, changes, gone, obj, staticReq')
  BY <1>3 DEF AnswersInv, RequestsKept
<1> QED
  BY <1>2, <1>4 DEF AnswersInv

\* Most steps of a request change nothing else.
LEMMA OwnStep ==
  ASSUME AnswersInv, NEW r \in StaticRequests, UNCHANGED <<fs, changes, gone, info, cvars, copy>>,
         NEW m \in Readers, staticReq' = [staticReq EXCEPT ![r] = m],
         RequestKept(fs, changes, gone, obj, m)
  PROVE  AnswersInv'
<1>1. /\ info' \in [StaticPaths -> Infos \cup {StaticNone}]
      /\ copy' \in [StaticRequests -> Copies] /\ obj' = obj
  BY FilesTypes DEF cvars
<1>2. InfosKept(fs, changes, gone, info') /\ CopiesKept(fs, changes, gone, copy')
  BY DEF AnswersInv
<1> QED
  BY <1>1, <1>2, RequestStep

LEMMA CacheStep ==
  ASSUME AnswersInv, NEW r \in StaticRequests, UNCHANGED <<fs, changes, gone, info, copy>>,
         obj' \in Heaps, Moves(gone, obj, obj'), EntriesKept(fs, changes, gone, obj'),
         OneEntry(obj'), NEW m \in Readers,
         staticReq' = [q \in StaticRequests |-> IF q = r THEN m ELSE Torn(staticReq[q], obj')],
         RequestKept(fs, changes, gone, obj', m)
  PROVE  AnswersInv'
<1>1. ASSUME NEW q \in StaticRequests
      PROVE  staticReq'[q] \in Readers /\ RequestKept(fs, changes, gone, obj', staticReq'[q])
  <2>1. CASE q = r
    BY <2>1
  <2>2. CASE q # r
    <3>1. staticReq'[q] = Torn(staticReq[q], obj') /\ staticReq[q] \in Readers
      BY <2>2, FilesTypes
    <3>2. RequestKept(fs, changes, gone, obj, staticReq[q]) /\ OneEntry(obj)
      BY DEF AnswersInv, RequestsKept
    <3>3. Torn(staticReq[q], obj') \in Readers
      BY <3>1, TornFields
    <3>4. RequestKept(fs, changes, gone, obj', Torn(staticReq[q], obj'))
      BY <3>1, <3>2, FilesTypes, OtherRequest
    <3> QED
      BY <3>1, <3>3, <3>4
  <2> QED
    BY <2>1, <2>2
<1>2. staticReq' \in [StaticRequests -> Readers]
  BY <1>1
<1>3. FilesTyped'
  BY <1>2 DEF AnswersInv, FilesTyped, Heaps
<1>4. RequestsKept(fs, changes, gone, obj', staticReq')
  BY <1>1 DEF RequestsKept
<1> QED
  BY <1>3, <1>4 DEF AnswersInv

\* The forms a request's record takes.
At(m, pc) == [m EXCEPT !.pc = pc]
Answered(m, out, data, etag) ==
  [m EXCEPT !.pc = out, !.data = data, !.etag = etag, !.held = StaticNone]

LEMMA MeForm ==
  ASSUME NEW r \in StaticRequests, staticReq \in [StaticRequests -> Readers], NEW pc \in StaticPCs
  PROVE  /\ Me(r, pc) = [staticReq EXCEPT ![r] = At(staticReq[r], pc)]
         /\ At(staticReq[r], pc) \in Readers
BY DEF Me, At, Readers

LEMMA AtFields ==
  ASSUME NEW m \in Readers, NEW pc \in StaticPCs
  PROVE  LET q == At(m, pc) IN
         /\ q \in Readers
         /\ q.pc = pc /\ q.mode = m.mode /\ q.todo = m.todo /\ q.at = m.at /\ q.ver = m.ver
         /\ q.held = m.held /\ (q.torn <=> m.torn) /\ q.data = m.data /\ q.etag = m.etag
         /\ q.ticks = m.ticks
BY DEF At, Readers

LEMMA AnswerForm ==
  ASSUME NEW r \in StaticRequests, staticReq \in [StaticRequests -> Readers],
         NEW out, NEW data, NEW etag
  PROVE  StaticAnswer(staticReq, r, out, data, etag)
           = [staticReq EXCEPT ![r] = Answered(staticReq[r], out, data, etag)]
BY DEF StaticAnswer, Answered, Readers

LEMMA AnsweredFields ==
  ASSUME NEW m \in Readers, NEW out \in StaticPCs, NEW data \in Versions, NEW etag \in Versions
  PROVE  /\ Answered(m, out, data, etag) \in Readers
         /\ Answered(m, out, data, etag).pc = out
         /\ Answered(m, out, data, etag).todo = m.todo
         /\ Answered(m, out, data, etag).at = m.at
         /\ Answered(m, out, data, etag).ver = m.ver
         /\ Answered(m, out, data, etag).held = StaticNone
         /\ Answered(m, out, data, etag).torn <=> m.torn
         /\ Answered(m, out, data, etag).data = data
         /\ Answered(m, out, data, etag).etag = etag
         /\ Answered(m, out, data, etag).ticks = m.ticks
<1> DEFINE q == Answered(m, out, data, etag)
<1>1. q \in Readers
  BY DEF Answered, Readers
<1>2. /\ q.pc = out /\ q.todo = m.todo /\ q.at = m.at /\ q.ver = m.ver
      /\ q.held = StaticNone /\ q.data = data /\ q.etag = etag
      /\ q.ticks = m.ticks
  BY DEF Answered, Readers
<1>3. q.torn = m.torn
  BY DEF Answered, Readers
<1> HIDE DEF q
<1>4. q.torn <=> m.torn
  BY <1>3, Zenon
<1> QED
  BY <1>1, <1>2, <1>4 DEF q

\* A final answer.
AnswerOK(F, n, G, torn, f, out, data, etag) ==
  /\ out \in {"200", "304"} /\ ~torn =>
       /\ Past(F, n, f, data) /\ G[f][data] <= Bound
       /\ etag # 0 => Had(F, n, G, f, data)
  /\ out \in {"200", "304"} => data >= etag
  /\ out = "404" => G[f][0] <= Bound

LEMMA AnswerKept ==
  ASSUME NEW F \in Trees, NEW n \in Nat, NEW G \in Histories, NEW O \in Heaps, NEW P \in Heaps,
         NEW m \in Readers, NEW q \in Readers, m.pc # "idle",
         q.pc \in {"200", "304", "404", "500"},
         q.todo = m.todo, q.at = m.at, q.ticks = m.ticks, RequestKept(F, n, G, O, m),
         AnswerOK(F, n, G, q.torn, m.todo[m.at], q.pc, q.data, q.etag)
  PROVE  RequestKept(F, n, G, P, q)
<1>1. ReaderKept(F, n, G, P, q, m.todo[m.at])
  BY DEF ReaderKept, AnswerOK
<1> QED
  BY <1>1, RequestAt

-----------------------------------------------------------------------------
(* The steps of a request that leave the cache alone *)

\* What a step of the request r finds.
LEMMA Current ==
  ASSUME AnswersInv, NEW r \in StaticRequests, staticReq[r].pc # "idle"
  PROVE  /\ staticReq[r] \in Readers /\ RequestKept(fs, changes, gone, obj, staticReq[r])
         /\ staticReq[r].at \in 1..Len(staticReq[r].todo) /\ staticReq[r].todo \in Seq(StaticPaths)
         /\ File(r) = staticReq[r].todo[staticReq[r].at] /\ File(r) \in StaticPaths
         /\ ReaderKept(fs, changes, gone, obj, staticReq[r], File(r))
         /\ staticReq[r].ticks \in Nat /\ staticReq[r].ticks <= MaxSpan
         /\ staticReq[r].ver \in Versions /\ staticReq[r].data \in Versions
<1>1. staticReq[r] \in Readers
  BY FilesTypes
<1>2. RequestKept(fs, changes, gone, obj, staticReq[r])
  BY DEF AnswersInv, RequestsKept
<1>3. /\ staticReq[r].ticks \in Nat /\ staticReq[r].ticks <= MaxSpan
      /\ staticReq[r].ver \in Versions /\ staticReq[r].data \in Versions
      /\ staticReq[r].todo \in Seq(StaticPaths)
  BY <1>1, ServedLong DEF Readers
<1>4. /\ staticReq[r].at \in 1..Len(staticReq[r].todo)
      /\ staticReq[r].todo[staticReq[r].at] \in StaticPaths
      /\ ReaderKept(fs, changes, gone, obj, staticReq[r], staticReq[r].todo[staticReq[r].at])
  BY <1>1, <1>2, FilesTypes, ReaderAt
<1> QED
  BY <1>1, <1>2, <1>3, <1>4, Zenon DEF File

LEMMA HandleKept ==
  ASSUME AnswersInv, NEW r \in StaticRequests, StaticHandle(r)
  PROVE  AnswersInv'
<1> DEFINE m == staticReq[r]
<1>1. PICK todo \in {<<f>> : f \in StaticPaths} \cup {<<First, Fallback>>}, mode \in {"std", "try"},
           cond \in Validators \cup {{}} :
        staticReq' = [staticReq EXCEPT ![r].pc = "stat", ![r].mode = mode, ![r].cond = cond,
                                       ![r].todo = todo]
  BY DEF StaticHandle
<1>2. todo \in Seq(StaticPaths) /\ Len(todo) >= 1 /\ Len(todo) \in Nat
  <2>1. CASE todo = <<First, Fallback>>
    BY <2>1, StaticAssumption
  <2>2. CASE todo \in {<<f>> : f \in StaticPaths}
    <3>1. PICK f \in StaticPaths : todo = <<f>>
      BY <2>2
    <3> QED
      BY <3>1
  <2> QED
    BY <2>1, <2>2
<1>3. m \in Readers /\ m.at = 1
  BY FilesTypes DEF StaticHandle, AnswersInv, RequestsKept, RequestKept, TodoKept
<1> DEFINE q == [m EXCEPT !.pc = "stat", !.mode = mode, !.cond = cond, !.todo = todo]
<1>4. staticReq' = [staticReq EXCEPT ![r] = q]
  BY <1>1, FilesTypes DEF Readers
<1>5. "stat" \in StaticPCs
  BY DEF StaticPCs
<1>6. q \in Readers /\ q.pc = "stat" /\ q.todo = todo /\ q.at = 1
  BY <1>2, <1>3, <1>5 DEF Readers
<1> HIDE DEF q
<1>7. TodoKept(gone, q)
  BY <1>2, <1>6 DEF TodoKept
<1>8. ReaderKept(fs, changes, gone, obj, q, q.todo[q.at])
  BY <1>6 DEF ReaderKept
<1>9. RequestKept(fs, changes, gone, obj, q)
  BY <1>7, <1>8 DEF RequestKept
<1> QED
  BY <1>4, <1>6, <1>9, OwnStep DEF StaticHandle

LEMMA FoundKept ==
  ASSUME AnswersInv, NEW r \in StaticRequests, staticReq[r].pc \in {"stat", "stored"},
         NEW v \in Versions, Past(fs, changes, File(r), v),
         gone[File(r)][v] <= TTL + MaxSpan + staticReq[r].ticks, Found(r, v)
  PROVE  \E q \in Readers : /\ staticReq' = [staticReq EXCEPT ![r] = q]
                            /\ RequestKept(fs, changes, gone, obj, q)
<1> DEFINE m == staticReq[r]
           f == File(r)
           last == m.at = Len(m.todo)
<1>1. /\ m \in Readers /\ m.pc # "idle" /\ RequestKept(fs, changes, gone, obj, m)
      /\ m.at \in 1..Len(m.todo) /\ m.todo \in Seq(StaticPaths)
      /\ f = m.todo[m.at] /\ f \in StaticPaths /\ m.ticks \in Nat /\ m.ticks <= MaxSpan
  BY Current
<1>2. staticReq \in [StaticRequests -> Readers] /\ gone[f][v] \in Nat
  BY <1>1, FilesTypes, HistoryNat
<1>3. /\ "stat" \in StaticPCs /\ "get" \in StaticPCs /\ "serve" \in StaticPCs
      /\ "404" \in StaticPCs /\ 0 \in Versions
  BY ServedLong DEF StaticPCs, Versions
<1>4. CASE v = 0 /\ ~last /\ staticReq' = [Me(r, "stat") EXCEPT ![r].at = @ + 1]
  <2> DEFINE q == [m EXCEPT !.pc = "stat", !.at = @ + 1]
  <2>1. staticReq' = [staticReq EXCEPT ![r] = q]
    BY <1>2, <1>4 DEF Me, Readers
  <2>a. m.at + 1 \in Nat
    BY <1>1
  <2>2. q \in Readers /\ q.pc = "stat" /\ q.todo = m.todo /\ q.at = m.at + 1 /\ q.ticks = m.ticks
    <3> DEFINE n == m.at + 1
    <3>1. q = [m EXCEPT !.pc = "stat", !.at = n]
      OBVIOUS
    <3> HIDE DEF n
    <3>2. n \in Nat
      BY <2>a DEF n
    <3>3. q \in Readers /\ q.pc = "stat" /\ q.todo = m.todo /\ q.at = n /\ q.ticks = m.ticks
      BY <1>1, <1>3, <3>1, <3>2 DEF Readers
    <3> QED
      BY <3>3 DEF n
  <2> HIDE DEF q
  <2>3. ReaderKept(fs, changes, gone, obj, q, q.todo[q.at])
    BY <2>2 DEF ReaderKept
  <2>4. q.at \in 1..Len(q.todo)
    BY <1>1, <1>4, <2>2
  <2>5. ASSUME NEW i \in 1..(q.at - 1) PROVE gone[q.todo[i]][0] <= TTL + MaxSpan + q.ticks
    <3>1. CASE i = m.at
      BY <1>1, <1>4, <2>2, <3>1
    <3>2. CASE i # m.at
      <4>1. i \in 1..(m.at - 1)
        BY <1>1, <2>2, <3>2
      <4>2. gone[m.todo[i]][0] <= TTL + MaxSpan + m.ticks
        BY <1>1, <4>1, Zenon DEF RequestKept, TodoKept
      <4> QED
        BY <2>2, <4>2
    <3> QED
      BY <3>1, <3>2
  <2>6. TodoKept(gone, q)
    BY <2>2, <2>4, <2>5, Zenon DEF TodoKept
  <2> QED
    BY <2>1, <2>2, <2>3, <2>6 DEF RequestKept
<1>5. CASE v = 0 /\ staticReq' = StaticAnswer(staticReq, r, "404", 0, 0)
  <2> DEFINE q == Answered(m, "404", 0, 0)
  <2>1. staticReq' = [staticReq EXCEPT ![r] = q]
    BY <1>2, <1>5, AnswerForm
  <2>a. ASSUME NEW d \in Versions
        PROVE  /\ Answered(m, "404", d, d) \in Readers /\ Answered(m, "404", d, d).pc = "404"
               /\ Answered(m, "404", d, d).todo = m.todo /\ Answered(m, "404", d, d).at = m.at
               /\ Answered(m, "404", d, d).ticks = m.ticks
    <3>1. m \in Readers /\ "404" \in StaticPCs
      BY <1>1, <1>3
    <3> QED
      BY ONLY <3>1, d \in Versions, AnsweredFields
  <2>2. q \in Readers /\ q.pc = "404" /\ q.todo = m.todo /\ q.at = m.at /\ q.ticks = m.ticks
    BY <1>3, <2>a, Zenon
  <2> HIDE DEF q
  <2>3. gone[f][0] <= Bound
    <3>1. /\ gone[f][0] \in Nat /\ gone[f][0] <= TTL + MaxSpan + m.ticks
          /\ m.ticks \in Nat /\ m.ticks <= MaxSpan
      BY <1>1, <1>2, <1>5
    <3> QED
      BY ONLY <3>1, ServedLong
  <2>4. AnswerOK(fs, changes, gone, q.torn, m.todo[m.at], q.pc, q.data, q.etag)
    BY <1>1, <2>2, <2>3 DEF AnswerOK
  <2>5. RequestKept(fs, changes, gone, obj, q)
    BY <1>1, <2>2, <2>4, FilesTypes, AnswerKept
  <2> QED
    BY <2>1, <2>2, <2>5
<1>6. ASSUME NEW mode \in {"direct", "std"},
             staticReq' = [Me(r, "stat") EXCEPT ![r].mode = mode]
      PROVE \E q \in Readers : /\ staticReq' = [staticReq EXCEPT ![r] = q]
                               /\ RequestKept(fs, changes, gone, obj, q)
  <2> DEFINE q == [m EXCEPT !.pc = "stat", !.mode = mode]
  <2>1. staticReq' = [staticReq EXCEPT ![r] = q]
    BY <1>2, <1>6 DEF Me, Readers
  <2>2. q \in Readers /\ q.pc = "stat" /\ q.todo = m.todo /\ q.at = m.at /\ q.ticks = m.ticks
    BY <1>1, <1>3 DEF Readers
  <2> HIDE DEF q
  <2>3. ReaderKept(fs, changes, gone, obj, q, m.todo[m.at])
    BY <2>2 DEF ReaderKept
  <2>4. RequestKept(fs, changes, gone, obj, q)
    BY <1>1, <2>2, <2>3, FilesTypes, RequestAt
  <2> QED
    BY <2>1, <2>2, <2>4
<1>7. ASSUME NEW pc \in {"get", "serve"}, v # 0, staticReq' = [Me(r, pc) EXCEPT ![r].ver = v]
      PROVE \E q \in Readers : /\ staticReq' = [staticReq EXCEPT ![r] = q]
                               /\ RequestKept(fs, changes, gone, obj, q)
  <2> DEFINE q == [m EXCEPT !.pc = pc, !.ver = v]
  <2>1. staticReq' = [staticReq EXCEPT ![r] = q]
    BY <1>2, <1>7 DEF Me, Readers
  <2>2. /\ q \in Readers /\ q.pc = pc /\ q.todo = m.todo /\ q.at = m.at /\ q.ticks = m.ticks
        /\ q.ver = v
    BY <1>1, <1>3 DEF Readers
  <2> HIDE DEF q
  <2>3. Informed(fs, changes, gone, q, f)
    BY <1>7, <2>2 DEF Informed
  <2>4. ReaderKept(fs, changes, gone, obj, q, f)
    BY <2>2, <2>3 DEF ReaderKept
  <2>5. RequestKept(fs, changes, gone, obj, q)
    BY <1>1, <2>2, <2>4, FilesTypes, RequestAt
  <2> QED
    BY <2>1, <2>2, <2>5
<1> QED
  BY <1>4, <1>5, <1>6, <1>7, Zenon DEF Found

LEMMA StatHitKept ==
  ASSUME AnswersInv, NEW r \in StaticRequests, StatHit(r)
  PROVE  AnswersInv'
<1> DEFINE f == File(r)
           v == info[f].ver
<1>1. /\ staticReq[r].pc = "stat" /\ info[f] # StaticNone /\ info[f].age <= TTL /\ Found(r, v)
      /\ UNCHANGED <<fs, changes, gone, info, cvars, copy>>
  BY DEF StatHit, Known
<1>2. f \in StaticPaths /\ staticReq[r].ticks \in Nat
  BY <1>1, Current
<1>3. info[f] \in Infos
  BY <1>1, <1>2, FilesTypes
<1>4. v \in Versions /\ info[f].age \in Nat
  BY <1>3, ServedLong DEF Infos
<1>5. Past(fs, changes, f, v) /\ gone[f][v] <= info[f].age + MaxSpan
  BY <1>1, <1>2 DEF AnswersInv, InfosKept, InfoKept
<1>6. gone[f][v] \in Nat
  BY <1>2, <1>4, FilesTypes, HistoryNat
<1> HIDE DEF v
<1>7. gone[f][v] <= TTL + MaxSpan + staticReq[r].ticks
  BY <1>1, <1>2, <1>4, <1>5, <1>6, ServedLong
<1>8. PICK q \in Readers : /\ staticReq' = [staticReq EXCEPT ![r] = q]
                           /\ RequestKept(fs, changes, gone, obj, q)
  BY <1>1, <1>4, <1>5, <1>7, FoundKept
<1> QED
  BY <1>1, <1>8, OwnStep

\* What the file has now.
LEMMA ContentNow ==
  ASSUME AnswersInv, NEW f \in StaticPaths, NEW t \in Nat
  PROVE  /\ fs[f] \in Versions /\ Past(fs, changes, f, fs[f]) /\ gone[f][fs[f]] <= t
         /\ Had(fs, changes, gone, f, fs[f])
<1>1. Past(fs, changes, f, fs[f]) /\ gone[f][fs[f]] = 0
  BY DEF AnswersInv, FilesNow
<1>2. fs[f] \in Versions
  BY FilesTypes DEF Trees
<1>3. Ordered(gone, f, fs[f])
  <2> SUFFICES ASSUME NEW v \in 1..fs[f] PROVE gone[f][fs[f]] <= gone[f][v]
    BY DEF Ordered
  <2>1. v \in Versions
    BY <1>2, ServedLong DEF Versions
  <2>2. gone[f][v] \in Nat
    BY <2>1, FilesTypes, HistoryNat
  <2> QED
    BY <1>1, <2>2
<1>4. gone[f][fs[f]] <= t
  BY <1>1
<1> QED
  BY <1>1, <1>2, <1>3, <1>4 DEF Had

\* What is left of ReaderKept for a request that has looked at its file.
LEMMA KeptStored ==
  ASSUME NEW F, NEW n, NEW G, NEW O, NEW q, NEW f, q.pc = "stored",
         Past(F, n, f, q.ver), G[f][q.ver] <= q.ticks
  PROVE  ReaderKept(F, n, G, O, q, f)
BY DEF ReaderKept

LEMMA StatMissKept ==
  ASSUME AnswersInv, NEW r \in StaticRequests, StatMiss(r)
  PROVE  AnswersInv'
<1> DEFINE m == staticReq[r]
           f == File(r)
           q == [m EXCEPT !.pc = "stored", !.ver = fs[f]]
<1>1. /\ m.pc = "stat" /\ staticReq' = [Me(r, "stored") EXCEPT ![r].ver = fs[f]]
      /\ info' = [info EXCEPT ![f] = StaticNone] /\ UNCHANGED <<fs, changes, gone, cvars, copy>>
  BY DEF StatMiss
<1>2. /\ m \in Readers /\ RequestKept(fs, changes, gone, obj, m) /\ f \in StaticPaths
      /\ f = m.todo[m.at] /\ m.ticks \in Nat
  BY <1>1, Current
<1>3. "stored" \in StaticPCs /\ fs[f] \in Versions
  BY <1>2, FilesTypes DEF StaticPCs, Trees
<1>4. staticReq' = [staticReq EXCEPT ![r] = q]
  BY <1>1, FilesTypes DEF Me, Readers
<1>5. /\ q \in Readers /\ q.pc = "stored" /\ q.todo = m.todo /\ q.at = m.at /\ q.ticks = m.ticks
      /\ q.ver = fs[f]
  BY <1>2, <1>3 DEF Readers
<1> HIDE DEF q
<1>7. ReaderKept(fs, changes, gone, obj, q, f)
  <2>1. Past(fs, changes, f, fs[f]) /\ gone[f][fs[f]] <= m.ticks
    BY <1>2, ContentNow
  <2>2. Past(fs, changes, f, q.ver) /\ gone[f][q.ver] <= q.ticks
    BY <1>5, <2>1, Zenon
  <2> QED
    BY <1>5, <2>2, KeptStored
<1>8. RequestKept(fs, changes, gone, obj, q)
  BY <1>1, <1>2, <1>5, <1>7, FilesTypes, RequestAt
<1>9. info' \in [StaticPaths -> Infos \cup {StaticNone}]
  BY <1>1, FilesTypes
<1>10. InfosKept(fs, changes, gone, info')
  BY <1>1, FilesTypes DEF AnswersInv, InfosKept, InfoKept
<1>11. CopiesKept(fs, changes, gone, copy') /\ copy' \in [StaticRequests -> Copies] /\ obj' = obj
  BY <1>1, FilesTypes DEF AnswersInv, cvars
<1> QED
  BY <1>1, <1>4, <1>5, <1>8, <1>9, <1>10, <1>11, RequestStep

LEMMA StatSetKept ==
  ASSUME AnswersInv, NEW r \in StaticRequests, StatSet(r)
  PROVE  AnswersInv'
<1> DEFINE m == staticReq[r]
           f == File(r)
<1>1. /\ m.pc = "stored" /\ Found(r, m.ver)
      /\ info' = [info EXCEPT ![f] = [ver |-> m.ver, age |-> 0]]
      /\ UNCHANGED <<fs, changes, gone, cvars, copy>>
  BY DEF StatSet
<1>2. /\ f \in StaticPaths /\ m.ticks \in Nat /\ m.ticks <= MaxSpan /\ m.ver \in Versions
      /\ ReaderKept(fs, changes, gone, obj, m, f)
  BY <1>1, Current
<1>3. Past(fs, changes, f, m.ver) /\ gone[f][m.ver] <= m.ticks
  BY <1>1, <1>2 DEF ReaderKept
<1>4. gone[f][m.ver] \in Nat
  BY <1>2, FilesTypes, HistoryNat
<1>5. gone[f][m.ver] <= TTL + MaxSpan + m.ticks
  BY <1>2, <1>3, <1>4, ServedLong
<1>6. PICK q \in Readers : /\ staticReq' = [staticReq EXCEPT ![r] = q]
                           /\ RequestKept(fs, changes, gone, obj, q)
  BY <1>1, <1>2, <1>3, <1>5, FoundKept
<1> DEFINE i == [ver |-> m.ver, age |-> 0]
<1>7. i \in Infos /\ i.ver = m.ver /\ i.age = 0
  BY <1>2, ServedLong DEF Infos
<1>8. info' = [info EXCEPT ![f] = i]
  BY <1>1
<1> HIDE DEF i
<1>9. info' \in [StaticPaths -> Infos \cup {StaticNone}]
  BY <1>7, <1>8, FilesTypes
<1>10. InfoKept(fs, changes, gone, f, i)
  BY <1>2, <1>3, <1>4, <1>7, ServedLong DEF InfoKept
<1>11. InfosKept(fs, changes, gone, info')
  BY <1>8, <1>10, FilesTypes DEF AnswersInv, InfosKept
<1>12. CopiesKept(fs, changes, gone, copy') /\ copy' \in [StaticRequests -> Copies] /\ obj' = obj
  BY <1>1, FilesTypes DEF AnswersInv, cvars
<1> QED
  BY <1>1, <1>6, <1>9, <1>11, <1>12, RequestStep

\* An answer that changes nothing but the request.
LEMMA AnswerStep ==
  ASSUME AnswersInv, NEW r \in StaticRequests, staticReq[r].pc # "idle",
         UNCHANGED <<fs, changes, gone, info, cvars, copy>>,
         NEW out \in {"200", "304", "404", "500"}, NEW data \in Versions, NEW etag \in Versions,
         staticReq' = StaticAnswer(staticReq, r, out, data, etag),
         AnswerOK(fs, changes, gone, staticReq[r].torn, File(r), out, data, etag)
  PROVE  AnswersInv'
<1> DEFINE m == staticReq[r]
           q == Answered(m, out, data, etag)
<1>1. m \in Readers /\ RequestKept(fs, changes, gone, obj, m) /\ File(r) = m.todo[m.at]
  BY Current
<1>2. staticReq' = [staticReq EXCEPT ![r] = q]
  BY FilesTypes, AnswerForm
<1>3. out \in StaticPCs
  BY DEF StaticPCs
<1>4. /\ q \in Readers /\ q.pc = out /\ q.todo = m.todo /\ q.at = m.at /\ q.ticks = m.ticks
      /\ (q.torn <=> m.torn) /\ q.data = data /\ q.etag = etag
  BY <1>1, <1>3, AnsweredFields
<1> HIDE DEF q
<1>5. AnswerOK(fs, changes, gone, q.torn, m.todo[m.at], q.pc, q.data, q.etag)
  BY <1>1, <1>4, Zenon DEF AnswerOK
<1>6. RequestKept(fs, changes, gone, obj, q)
  BY <1>1, <1>4, <1>5, FilesTypes, AnswerKept
<1> QED
  BY <1>2, <1>4, <1>6, OwnStep

LEMMA Latest ==
  ASSUME NEW G \in Histories, NEW f \in StaticPaths, NEW d \in Versions, NEW v \in Versions,
         Ordered(G, f, d), v # 0, v <= d, NEW t \in Nat, G[f][v] <= t
  PROVE  G[f][d] <= t
<1>1. v \in 1..d
  BY ServedLong DEF Versions
<1>2. G[f][d] <= G[f][v] /\ G[f][d] \in Nat /\ G[f][v] \in Nat
  BY <1>1, HistoryNat DEF Ordered
<1> QED
  BY <1>2

\* A 304 for its ETag says that the client's copy is what the file has under it.
LEMMA ClientCopy ==
  ASSUME AnswersInv, NEW r \in StaticRequests, staticReq[r].pc # "idle",
         NEW v \in Versions, SameTag(r, v), NEW t \in Nat, gone[File(r)][v] <= t
  PROVE  /\ Had(fs, changes, gone, File(r), Client(r).body)
         /\ gone[File(r)][Client(r).body] <= t
<1>1. Client(r).etag # 0 /\ Client(r).etag = v
  BY DEF SameTag
<1>2. File(r) = First /\ Client(r) = copy[r]
  BY <1>1 DEF Client, NoCopy
<1>3. copy[r].body \in Versions /\ copy[r].etag \in Versions /\ First \in StaticPaths
  BY FilesTypes, StaticAssumption DEF Copies
<1>4. Had(fs, changes, gone, First, copy[r].body) /\ copy[r].body >= copy[r].etag
  BY DEF AnswersInv, CopiesKept, CopyKept
<1>5. Ordered(gone, First, copy[r].body)
  BY <1>4 DEF Had
<1>6. copy[r].etag <= copy[r].body /\ copy[r].etag # 0 /\ gone[First][copy[r].etag] <= t
  BY <1>1, <1>2, <1>3, <1>4 DEF Versions
<1>7. gone[First][copy[r].body] <= t
  BY <1>3, <1>5, <1>6, FilesTypes, Latest
<1> QED
  BY <1>2, <1>4, <1>7

\* What a 304 says, for the ETag v or for the date, is right.
LEMMA Confirmed ==
  ASSUME AnswersInv, NEW r \in StaticRequests, staticReq[r].pc # "idle",
         Informed(fs, changes, gone, staticReq[r], File(r)),
         NEW v \in Versions, ~staticReq[r].torn => gone[File(r)][v] <= Bound
  PROVE  \E data, etag \in Versions :
           /\ Status304(staticReq, r, v) = StaticAnswer(staticReq, r, "304", data, etag)
           /\ AnswerOK(fs, changes, gone, staticReq[r].torn, File(r), "304", data, etag)
<1> DEFINE m == staticReq[r]
           f == File(r)
           c == Client(r)
<1>1. m.ver \in Versions /\ f \in StaticPaths /\ m.ticks \in Nat /\ m.ticks <= MaxSpan
  BY Current
<1>2. CASE SameTag(r, v)
  <2>1. Status304(staticReq, r, v) = StaticAnswer(staticReq, r, "304", c.body, c.etag)
    BY <1>2 DEF Status304
  <2>2. c.body \in Versions /\ c.etag \in Versions /\ c.body >= c.etag
    <3>1. copy[r] \in Copies /\ copy[r].body >= copy[r].etag
      BY FilesTypes DEF AnswersInv, CopiesKept, CopyKept
    <3> QED
      BY <3>1, ServedLong DEF Client, Copies, NoCopy, Versions
  <2>3. ASSUME ~m.torn
        PROVE  Had(fs, changes, gone, f, c.body) /\ gone[f][c.body] <= Bound
    BY <1>2, <2>3, ServedLong, ClientCopy
  <2>4. AnswerOK(fs, changes, gone, m.torn, f, "304", c.body, c.etag)
    BY <2>2, <2>3 DEF AnswerOK, Had
  <2> QED
    BY <2>1, <2>2, <2>4
<1>3. CASE ~SameTag(r, v)
  <2>1. Status304(staticReq, r, v) = StaticAnswer(staticReq, r, "304", m.ver, 0)
    BY <1>3 DEF Status304
  <2>2. gone[f][m.ver] \in Nat /\ gone[f][m.ver] <= TTL + MaxSpan + m.ticks
    BY <1>1, FilesTypes, HistoryNat DEF Informed
  <2>3. gone[f][m.ver] <= Bound
    BY <1>1, <2>2, TimesAdd
  <2>4. 0 \in Versions /\ m.ver >= 0
    BY <1>1, ServedLong DEF Versions
  <2>5. AnswerOK(fs, changes, gone, m.torn, f, "304", m.ver, 0)
    BY <2>3, <2>4 DEF AnswerOK, Informed
  <2> QED
    BY <1>1, <2>1, <2>4, <2>5
<1> QED
  BY <1>2, <1>3

LEMMA ServeKept ==
  ASSUME AnswersInv, NEW r \in StaticRequests, StaticServe(r)
  PROVE  AnswersInv'
<1> DEFINE m == staticReq[r]
           f == File(r)
<1>1. /\ m.pc = "serve" /\ UNCHANGED <<fs, changes, gone, info, cvars, copy>>
      /\ staticReq' = IF NotModified(r, m.ver) THEN Status304(staticReq, r, m.ver)
                      ELSE Me(r, IF m.mode = "std" THEN "read" ELSE "get")
  BY DEF StaticServe
<1>2. /\ m \in Readers /\ RequestKept(fs, changes, gone, obj, m) /\ f = m.todo[m.at]
      /\ f \in StaticPaths /\ m.ticks \in Nat /\ m.ticks <= MaxSpan /\ m.ver \in Versions
      /\ ReaderKept(fs, changes, gone, obj, m, f)
  BY <1>1, Current
<1>3. Informed(fs, changes, gone, m, f)
  BY <1>1, <1>2 DEF ReaderKept
<1>4. CASE NotModified(r, m.ver)
  <2>1. gone[f][m.ver] <= Bound
    <3>1. gone[f][m.ver] <= TTL + MaxSpan + m.ticks
      BY <1>3 DEF Informed
    <3>2. gone[f][m.ver] \in Nat
      BY <1>2, FilesTypes, HistoryNat
    <3> QED
      BY <1>2, <3>1, <3>2, TimesAdd
  <2>2. PICK data, etag \in Versions :
          /\ Status304(staticReq, r, m.ver) = StaticAnswer(staticReq, r, "304", data, etag)
          /\ AnswerOK(fs, changes, gone, m.torn, f, "304", data, etag)
    BY <1>1, <1>2, <1>3, <2>1, Confirmed
  <2>3. staticReq' = StaticAnswer(staticReq, r, "304", data, etag)
    BY <1>1, <1>4, <2>2, Zenon
  <2> QED
    BY <1>1, <2>2, <2>3, AnswerStep
<1>5. ASSUME NEW pc \in {"read", "get"}, staticReq' = Me(r, pc) PROVE AnswersInv'
  <2>1. pc \in StaticPCs
    BY DEF StaticPCs
  <2>2. staticReq' = [staticReq EXCEPT ![r] = At(m, pc)] /\ At(m, pc) \in Readers
    BY <1>5, <2>1, FilesTypes, MeForm
  <2>3. /\ At(m, pc).pc = pc /\ At(m, pc).todo = m.todo /\ At(m, pc).at = m.at
        /\ At(m, pc).ticks = m.ticks /\ At(m, pc).ver = m.ver
    BY <1>2, <2>1, AtFields
  <2>4. ReaderKept(fs, changes, gone, obj, At(m, pc), f)
    BY <1>3, <2>3 DEF ReaderKept, Informed
  <2>5. RequestKept(fs, changes, gone, obj, At(m, pc))
    BY <1>1, <1>2, <2>2, <2>3, <2>4, FilesTypes, RequestAt
  <2> QED
    BY <1>1, <2>2, <2>5, OwnStep
<1> QED
  BY <1>1, <1>4, <1>5, Zenon

LEMMA GetHitKept ==
  ASSUME AnswersInv, NEW r \in StaticRequests, GetHit(r)
  PROVE  AnswersInv'
<1> DEFINE m == staticReq[r]
           f == File(r)
<1>1. m.pc = "get" /\ UNCHANGED <<fs, changes, gone, info, cvars, copy>>
  BY DEF GetHit
<1>2. PICK o \in Entry(f) :
        staticReq' = [Me(r, "check") EXCEPT ![r].held = o, ![r].torn = FALSE]
  BY DEF GetHit
<1>3. o \in Objs /\ obj[o].path = f
  BY DEF Entry
<1>4. /\ m \in Readers /\ RequestKept(fs, changes, gone, obj, m) /\ f = m.todo[m.at]
      /\ ReaderKept(fs, changes, gone, obj, m, f)
  BY <1>1, Current
<1> DEFINE q == [m EXCEPT !.pc = "check", !.held = o, !.torn = FALSE]
<1>5. staticReq' = [staticReq EXCEPT ![r] = q]
  BY <1>2, FilesTypes DEF Me, Readers
<1>6. "check" \in StaticPCs
  BY DEF StaticPCs
<1>7. /\ q \in Readers /\ q.pc = "check" /\ q.todo = m.todo /\ q.at = m.at /\ q.ticks = m.ticks
      /\ q.ver = m.ver /\ q.held = o
  BY <1>3, <1>4, <1>6 DEF Readers
<1>8. ~q.torn
  BY <1>4 DEF Readers
<1> HIDE DEF q
<1>9. Informed(fs, changes, gone, q, f)
  BY <1>1, <1>4, <1>7 DEF ReaderKept, Informed
<1>10. ReaderKept(fs, changes, gone, obj, q, f)
  BY <1>3, <1>7, <1>8, <1>9 DEF ReaderKept
<1>11. RequestKept(fs, changes, gone, obj, q)
  BY <1>1, <1>4, <1>7, <1>10, FilesTypes, RequestAt
<1> QED
  BY <1>1, <1>5, <1>7, <1>11, OwnStep

LEMMA SendKept ==
  ASSUME AnswersInv, NEW r \in StaticRequests, StaticSend(r)
  PROVE  AnswersInv'
<1> DEFINE m == staticReq[r]
           f == File(r)
           e == obj[m.held]
           b == m.torn \/ e.path # f
           q == [Answered(m, "200", e.data, e.ver) EXCEPT !.torn = b]
<1>1. /\ m.pc = "send" /\ UNCHANGED <<fs, changes, gone, info, cvars, copy>>
      /\ staticReq' = [StaticAnswer(staticReq, r, "200", e.data, e.ver) EXCEPT
                         ![r].torn = @ \/ e.path # f]
  BY DEF StaticSend
<1>2. /\ m \in Readers /\ RequestKept(fs, changes, gone, obj, m) /\ f = m.todo[m.at]
      /\ f \in StaticPaths /\ m.ticks \in Nat /\ m.ticks <= MaxSpan
      /\ ReaderKept(fs, changes, gone, obj, m, f)
  BY <1>1, Current
<1>3. m.held \in Objs
  BY <1>1, <1>2 DEF ReaderKept
<1>4. e \in CacheEntries /\ EntryKept(fs, changes, gone, e)
  BY <1>3, FilesTypes DEF Heaps, AnswersInv, EntriesKept
<1>5. e.data \in Versions /\ e.ver \in Versions /\ e.data >= e.ver
  BY <1>4 DEF CacheEntries, EntryKept
<1>6. "200" \in StaticPCs
  BY DEF StaticPCs
<1>7. staticReq' = [staticReq EXCEPT ![r] = q]
  <2> DEFINE a == Answered(m, "200", e.data, e.ver)
  <2>a. ASSUME NEW d, NEW v
        PROVE  StaticAnswer(staticReq, r, "200", d, v)
                 = [staticReq EXCEPT ![r] = Answered(m, "200", d, v)]
    BY FilesTypes, AnswerForm
  <2>1. StaticAnswer(staticReq, r, "200", e.data, e.ver) = [staticReq EXCEPT ![r] = a]
    BY <2>a, Zenon
  <2>2. a \in Readers
    BY <1>2, <1>5, <1>6, AnsweredFields
  <2>3. a.torn = m.torn
    BY <1>2 DEF Answered, Readers
  <2> HIDE DEF a
  <2>4. staticReq' = [staticReq EXCEPT ![r] = [a EXCEPT !.torn = @ \/ e.path # f]]
    BY <1>1, <2>1, FilesTypes
  <2>5. [a EXCEPT !.torn = @ \/ e.path # f] = [a EXCEPT !.torn = b]
    BY <2>3, Zenon
  <2> QED
    BY <2>4, <2>5 DEF a
<1>8. /\ q \in Readers /\ q.pc = "200" /\ q.todo = m.todo /\ q.at = m.at /\ q.ticks = m.ticks
      /\ q.data = e.data /\ q.etag = e.ver /\ q.torn = b
  <2> DEFINE a == Answered(m, "200", e.data, e.ver)
  <2>1. /\ a \in Readers /\ a.pc = "200" /\ a.todo = m.todo /\ a.at = m.at /\ a.ticks = m.ticks
        /\ a.data = e.data /\ a.etag = e.ver
    <3> HIDE DEF m, e, f
    <3> QED
      BY <1>2, <1>5, <1>6, AnsweredFields
  <2>2. b \in BOOLEAN
    BY <1>2, Zenon DEF Readers
  <2> HIDE DEF a, b
  <2>3. LET z == [a EXCEPT !.torn = b] IN
        /\ z \in Readers /\ z.pc = "200" /\ z.todo = m.todo /\ z.at = m.at /\ z.ticks = m.ticks
        /\ z.data = e.data /\ z.etag = e.ver /\ z.torn = b
    BY <2>1, <2>2 DEF Readers
  <2> QED
    BY <2>3 DEF a
<1> HIDE DEF q
<1>9. ASSUME ~q.torn
      PROVE  Had(fs, changes, gone, f, e.data) /\ gone[f][e.data] <= Bound
  <2>1. ~m.torn /\ e.path = f
    BY <1>8, <1>9, Zenon
  <2>2. Had(fs, changes, gone, f, e.data)
    BY <1>2, <1>4, <2>1, StaticAssumption DEF EntryKept
  <2>3. gone[f][e.data] <= Served + 2 * MaxSpan + m.ticks
    BY <1>1, <1>2, <2>1 DEF ReaderKept
  <2>4. gone[f][e.data] \in Nat
    BY <1>2, <1>5, FilesTypes, HistoryNat
  <2> QED
    BY <1>2, <2>2, <2>3, <2>4, TimesAdd
<1>10. AnswerOK(fs, changes, gone, q.torn, f, q.pc, q.data, q.etag)
  BY <1>5, <1>8, <1>9 DEF AnswerOK, Had
<1>11. RequestKept(fs, changes, gone, obj, q)
  BY <1>1, <1>2, <1>8, <1>10, FilesTypes, AnswerKept
<1> QED
  BY <1>1, <1>7, <1>8, <1>11, OwnStep

LEMMA ReadKept ==
  ASSUME AnswersInv, NEW r \in StaticRequests, Read(r)
  PROVE  AnswersInv'
<1> DEFINE m == staticReq[r]
           f == File(r)
           q == [m EXCEPT !.pc = "set", !.data = fs[f]]
<1>1. m.pc = "read" /\ UNCHANGED <<fs, changes, gone, info, cvars, copy>>
  BY DEF Read
<1>2. /\ m \in Readers /\ RequestKept(fs, changes, gone, obj, m) /\ f = m.todo[m.at]
      /\ f \in StaticPaths /\ m.ticks \in Nat /\ m.ver \in Versions
      /\ ReaderKept(fs, changes, gone, obj, m, f)
  BY <1>1, Current
<1>3. CASE fs[f] = 0
  <2>1. 0 \in Versions /\ AnswerOK(fs, changes, gone, m.torn, f, "500", 0, 0)
    BY ServedLong DEF Versions, AnswerOK
  <2>2. staticReq' = StaticAnswer(staticReq, r, "500", 0, 0)
    BY <1>3 DEF Read
  <2> QED
    BY <1>1, <2>1, <2>2, AnswerStep
<1>4. CASE fs[f] # 0
  <2>1. "set" \in StaticPCs /\ fs[f] \in Versions
    BY <1>2, FilesTypes DEF StaticPCs, Trees
  <2>2. staticReq' = [staticReq EXCEPT ![r] = q]
    BY <1>4, FilesTypes DEF Read, Me, Readers
  <2>3. /\ q \in Readers /\ q.pc = "set" /\ q.todo = m.todo /\ q.at = m.at /\ q.ticks = m.ticks
        /\ q.ver = m.ver /\ q.data = fs[f]
    BY <1>2, <2>1 DEF Readers
  <2> HIDE DEF q
  <2>4. /\ Past(fs, changes, f, fs[f]) /\ Had(fs, changes, gone, f, fs[f])
        /\ gone[f][fs[f]] <= m.ticks
    BY <1>2, ContentNow
  <2>5. Informed(fs, changes, gone, m, f)
    BY <1>1, <1>2 DEF ReaderKept
  <2>7. fs[f] >= m.ver
    BY <1>2, <1>4, <2>1, <2>5 DEF Informed, Past, Versions
  <2>8. Informed(fs, changes, gone, q, f)
    BY <2>3, <2>5 DEF Informed
  <2>a. Had(fs, changes, gone, f, q.data) /\ q.data >= q.ver /\ gone[f][q.data] <= q.ticks
    BY <2>3, <2>4, <2>7, Zenon
  <2>9. ReaderKept(fs, changes, gone, obj, q, f)
    BY <2>3, <2>8, <2>a DEF ReaderKept
  <2>10. RequestKept(fs, changes, gone, obj, q)
    BY <1>1, <1>2, <2>3, <2>9, FilesTypes, RequestAt
  <2> QED
    BY <1>1, <2>2, <2>3, <2>10, OwnStep
<1> QED
  BY <1>3, <1>4

\* What is sent after the file has been read.
LEMMA AnswerStored ==
  ASSUME AnswersInv, NEW r \in StaticRequests, staticReq[r].pc = "set"
  PROVE  /\ AnswerOK(fs, changes, gone, staticReq[r].torn, File(r), "200",
                     staticReq[r].data, staticReq[r].ver)
         /\ staticReq[r].data \in Versions /\ staticReq[r].ver \in Versions
<1> DEFINE m == staticReq[r]
           f == File(r)
<1>1. /\ f \in StaticPaths /\ m.ticks \in Nat /\ m.ticks <= MaxSpan
      /\ m.data \in Versions /\ m.ver \in Versions
      /\ ReaderKept(fs, changes, gone, obj, m, f)
  BY Current
<1>2. m.data >= m.ver /\ Had(fs, changes, gone, f, m.data) /\ gone[f][m.data] <= m.ticks
  BY <1>1 DEF ReaderKept
<1>3. gone[f][m.data] \in Nat
  BY <1>1, FilesTypes, HistoryNat
<1>4. gone[f][m.data] <= Bound
  BY <1>1, <1>2, <1>3, ServedLong
<1> QED
  BY <1>1, <1>2, <1>4 DEF AnswerOK, Had

LEMMA LargeKept ==
  ASSUME AnswersInv, NEW r \in StaticRequests, SendLarge(r)
  PROVE  AnswersInv'
<1> DEFINE m == staticReq[r]
           f == File(r)
<1>1. /\ m.pc = "set" /\ UNCHANGED <<fs, changes, gone, info, cvars, copy>>
      /\ staticReq' = StaticAnswer(staticReq, r, "200", m.data, m.ver)
  BY DEF SendLarge
<1>2. AnswerOK(fs, changes, gone, m.torn, f, "200", m.data, m.ver) /\ m.data \in Versions
      /\ m.ver \in Versions
  BY <1>1, AnswerStored
<1> QED
  BY <1>1, <1>2, AnswerStep

LEMMA LeaveKept ==
  ASSUME AnswersInv, NEW r \in StaticRequests, StaticLeave(r)
  PROVE  AnswersInv'
<1> DEFINE m == staticReq[r]
           f == File(r)
           c == [body |-> m.data, etag |-> m.etag, since |-> m.ver]
<1>1. /\ m.pc \in {"200", "304", "404", "500"} /\ staticReq' = [staticReq EXCEPT ![r] = Idle]
      /\ UNCHANGED <<fs, changes, gone, info, cvars>>
  BY DEF StaticLeave
<1>2. m \in Readers /\ ReaderKept(fs, changes, gone, obj, m, f)
  BY <1>1, Current
<1>3. Idle \in Readers
  <2>1. <<>> \in Seq(StaticPaths)
    OBVIOUS
  <2> QED
    BY <2>1, ServedLong DEF Idle, Readers, Versions, StaticPCs
<1>4. RequestKept(fs, changes, gone, obj, Idle)
  BY DEF RequestKept, TodoKept, Idle
<1>5. /\ info' \in [StaticPaths -> Infos \cup {StaticNone}] /\ InfosKept(fs, changes, gone, info')
      /\ obj' = obj
  BY <1>1, FilesTypes DEF AnswersInv, cvars
<1>6. CASE copy' = copy
  <2>1. copy' \in [StaticRequests -> Copies] /\ CopiesKept(fs, changes, gone, copy')
    BY <1>6, FilesTypes DEF AnswersInv
  <2> QED
    BY <1>1, <1>3, <1>4, <1>5, <2>1, RequestStep
<1>7. CASE /\ f = First /\ ~m.torn /\ m.pc \in {"200", "304"} /\ m.etag # 0
           /\ copy' = [copy EXCEPT ![r] = c]
  <2>1. m.data \in Versions /\ m.etag \in Versions /\ m.ver \in Versions
    BY <1>2 DEF Readers
  <2>2. c \in Copies /\ c.body = m.data /\ c.etag = m.etag
    BY <2>1 DEF Copies
  <2>3. Had(fs, changes, gone, First, m.data) /\ m.data >= m.etag
    BY <1>2, <1>7 DEF ReaderKept
  <2> HIDE DEF c
  <2>4. CopyKept(fs, changes, gone, c)
    BY <2>2, <2>3 DEF CopyKept
  <2>5. copy' \in [StaticRequests -> Copies]
    BY <1>7, <2>2, FilesTypes
  <2>6. CopiesKept(fs, changes, gone, copy')
    BY <1>7, <2>4, FilesTypes DEF AnswersInv, CopiesKept
  <2> QED
    BY <1>1, <1>3, <1>4, <1>5, <2>5, <2>6, RequestStep
<1> QED
  BY <1>6, <1>7 DEF StaticLeave

-----------------------------------------------------------------------------
(* The steps of a request that use the cache *)

LEMMA RemovedObjs ==
  ASSUME NEW c, NEW S
  PROVE  Removed(c, S).obj = [o \in Objs |-> IF o \in S THEN Zeroed ELSE c.obj[o]]
BY DEF Removed

LEMMA EvictedObjs ==
  ASSUME NEW c
  PROVE  \E S : Evicted(c).obj = [o \in Objs |-> IF o \in S THEN Zeroed ELSE c.obj[o]]
<1>1. \E S : Evicted(c) = Removed(c, S)
  BY Zenon DEF Evicted
<1> QED
  BY <1>1, RemovedObjs

LEMMA StoredObjs ==
  ASSUME NEW f, NEW data, NEW ver, NEW o \in Objs, obj \in Heaps
  PROVE  \E S : Stored(f, data, ver, o).obj
                  = [x \in Objs |-> IF x \in S THEN Zeroed
                                    ELSE IF x = o THEN [path |-> f, data |-> data, ver |-> ver,
                                                        age |-> 0]
                                    ELSE obj[x]]
<1> DEFINE e == [path |-> f, data |-> data, ver |-> ver, age |-> 0]
           c == [Cache EXCEPT !.obj[o] = e, !.size = @ - SizeOf(obj[o]) + SizeOf(e)]
           d == MovedToFront(c, o)
<1>1. Stored(f, data, ver, o) = Evicted(d)
  BY DEF Stored
<1>2. d.obj = [obj EXCEPT ![o] = e]
  BY DEF MovedToFront, Cache
<1> HIDE DEF d, e
<1>3. PICK S : Evicted(d).obj = [x \in Objs |-> IF x \in S THEN Zeroed ELSE d.obj[x]]
  BY EvictedObjs
<1>4. \A x \in Objs : d.obj[x] = IF x = o THEN e ELSE obj[x]
  BY <1>2 DEF Heaps
<1>5. Evicted(d).obj = [x \in Objs |-> IF x \in S THEN Zeroed ELSE IF x = o THEN e ELSE obj[x]]
  BY <1>3, <1>4
<1> QED
  BY <1>1, <1>5 DEF e

LEMMA RefreshedObjs ==
  ASSUME NEW f, obj \in Heaps
  PROVE  \/ Refreshed(f).obj = obj
         \/ \E o \in Entry(f) : Refreshed(f).obj = [obj EXCEPT ![o].age = 0]
<1>1. CASE Entry(f) = {}
  BY <1>1 DEF Refreshed, Cache
<1>2. CASE Entry(f) # {}
  <2> DEFINE o == CHOOSE o \in Entry(f) : TRUE
  <2>1. o \in Entry(f)
    BY <1>2
  <2>2. Refreshed(f) = MovedToFront([Cache EXCEPT !.obj[o].age = 0], o)
    BY <1>2 DEF Refreshed
  <2> HIDE DEF o
  <2>3. Refreshed(f).obj = [obj EXCEPT ![o].age = 0]
    BY <2>2 DEF MovedToFront, Cache
  <2> QED
    BY <2>1, <2>3
<1> QED
  BY <1>1, <1>2

LEMMA ZeroedEntry ==
  ASSUME NEW F, NEW n, NEW G
  PROVE  Zeroed \in CacheEntries /\ Zeroed.path = StaticNone /\ EntryKept(F, n, G, Zeroed)
BY ServedLong DEF Zeroed, CacheEntries, Versions, EntryKept

\* Removing entries.
LEMMA RemovedKept ==
  ASSUME AnswersInv, NEW S, NEW P, P = Removed(Cache, S).obj
  PROVE  /\ P \in Heaps /\ Moves(gone, obj, P) /\ EntriesKept(fs, changes, gone, P)
         /\ OneEntry(P)
<1>1. P = [o \in Objs |-> IF o \in S THEN Zeroed ELSE obj[o]]
  BY RemovedObjs DEF Cache
<1>2. P \in Heaps
  BY <1>1, FilesTypes, ZeroedEntry DEF Heaps
<1>3. Moves(gone, obj, P)
  BY <1>1, ZeroedEntry DEF Moves, Same
<1>4. EntriesKept(fs, changes, gone, P)
  BY <1>1, ZeroedEntry DEF AnswersInv, EntriesKept
<1>5. OneEntry(P)
  BY <1>1, ZeroedEntry DEF AnswersInv, OneEntry
<1> QED
  BY <1>2, <1>3, <1>4, <1>5

\* Becomes, when the request becomes m before the objects are looked at.
LEMMA BecomesStep ==
  ASSUME AnswersInv, NEW r \in StaticRequests, UNCHANGED <<fs, changes, gone, info, copy>>,
         NEW c, NEW m \in Readers, Becomes(c, [staticReq EXCEPT ![r] = m]),
         c.obj \in Heaps, Moves(gone, obj, c.obj), EntriesKept(fs, changes, gone, c.obj),
         OneEntry(c.obj), RequestKept(fs, changes, gone, c.obj, Torn(m, c.obj))
  PROVE  AnswersInv'
<1>1. obj' = c.obj
  BY DEF Becomes
<1>2. staticReq' = [q \in StaticRequests |-> Torn([staticReq EXCEPT ![r] = m][q], obj')]
  BY <1>1 DEF Becomes
<1>3. staticReq' = [q \in StaticRequests |-> IF q = r THEN Torn(m, obj')
                                             ELSE Torn(staticReq[q], obj')]
  BY <1>2, FilesTypes
<1>4. Torn(m, obj') \in Readers
  BY TornFields
<1> QED
  BY <1>1, <1>3, <1>4, CacheStep

\* A request that goes on to answer itself, or to read the file.
LEMMA GoesOn ==
  ASSUME AnswersInv, NEW r \in StaticRequests, staticReq[r].pc \in {"get", "check"},
         NEW P \in Heaps, NEW q \in Readers, q.pc \in {"serve", "read"},
         q.todo = staticReq[r].todo, q.at = staticReq[r].at, q.ver = staticReq[r].ver,
         q.ticks = staticReq[r].ticks
  PROVE  RequestKept(fs, changes, gone, P, q)
<1> DEFINE m == staticReq[r]
<1>1. /\ m \in Readers /\ m.pc # "idle" /\ RequestKept(fs, changes, gone, obj, m)
      /\ File(r) = m.todo[m.at] /\ ReaderKept(fs, changes, gone, obj, m, File(r))
  BY Current
<1>2. Informed(fs, changes, gone, m, File(r))
  BY <1>1 DEF ReaderKept
<1>3. Informed(fs, changes, gone, q, File(r))
  BY <1>2 DEF Informed
<1>4. ReaderKept(fs, changes, gone, P, q, m.todo[m.at])
  BY <1>1, <1>3 DEF ReaderKept
<1> QED
  BY <1>1, <1>4, FilesTypes, RequestAt

LEMMA GetMissKept ==
  ASSUME AnswersInv, NEW r \in StaticRequests, GetMiss(r)
  PROVE  AnswersInv'
<1> DEFINE m == staticReq[r]
<1>1. m.pc = "get" /\ UNCHANGED <<fs, changes, gone, info, copy>>
  BY DEF GetMiss
<1>2. PICK S : Becomes(Removed(Cache, S), Me(r, Missed(r)))
  BY DEF GetMiss
<1> DEFINE c == Removed(Cache, S)
           pc == Missed(r)
           q == Torn(At(m, pc), c.obj)
<1>3. pc \in {"serve", "read"} /\ pc \in StaticPCs
  BY DEF Missed, StaticPCs
<1> HIDE DEF pc
<1>4. m \in Readers
  BY FilesTypes
<1>5. Me(r, pc) = [staticReq EXCEPT ![r] = At(m, pc)] /\ At(m, pc) \in Readers
  BY <1>3, FilesTypes, MeForm
<1>6. /\ c.obj \in Heaps /\ Moves(gone, obj, c.obj) /\ EntriesKept(fs, changes, gone, c.obj)
      /\ OneEntry(c.obj)
  BY RemovedKept
<1>7. /\ At(m, pc).pc = pc /\ At(m, pc).todo = m.todo /\ At(m, pc).at = m.at
      /\ At(m, pc).ver = m.ver /\ At(m, pc).ticks = m.ticks
  BY <1>3, <1>4, AtFields
<1>8. /\ q \in Readers /\ q.pc = pc /\ q.todo = m.todo /\ q.at = m.at /\ q.ver = m.ver
      /\ q.ticks = m.ticks
  BY <1>5, <1>7, TornFields
<1>9. RequestKept(fs, changes, gone, c.obj, q)
  BY <1>1, <1>3, <1>6, <1>8, GoesOn
<1>10. Becomes(c, [staticReq EXCEPT ![r] = At(m, pc)])
  BY <1>2, <1>5 DEF pc
<1> HIDE DEF c
<1> QED
  BY <1>1, <1>5, <1>6, <1>9, <1>10, BecomesStep

\* A fresh file time: the entry of the file was confirmed, or replaced, while
\* this request was under way.
LEMMA RefreshKept ==
  ASSUME AnswersInv, NEW r \in StaticRequests, staticReq[r].pc = "check",
         obj[staticReq[r].held].ver = staticReq[r].ver, NEW o \in Entry(File(r)), NEW P,
         P = [obj EXCEPT ![o].age = 0]
  PROVE  /\ P \in Heaps /\ Moves(gone, obj, P) /\ EntriesKept(fs, changes, gone, P)
         /\ OneEntry(P) /\ \A x \in Objs : Same(obj[x], P[x])
<1> DEFINE m == staticReq[r]
           f == File(r)
           e == [obj[o] EXCEPT !.age = 0]
<1>1. /\ f \in StaticPaths /\ m.ticks \in Nat /\ m.ticks <= MaxSpan /\ m.ver \in Versions
      /\ ReaderKept(fs, changes, gone, obj, m, f)
  BY Current
<1>2. o \in Objs /\ obj[o].path = f
  BY DEF Entry
<1>3. obj[o] \in CacheEntries /\ EntryKept(fs, changes, gone, obj[o]) /\ f # StaticNone
  BY <1>1, <1>2, FilesTypes, StaticAssumption DEF Heaps, AnswersInv, EntriesKept
<1>4. /\ e \in CacheEntries /\ e.path = f /\ e.data = obj[o].data /\ e.ver = obj[o].ver
      /\ e.age = 0 /\ obj[o].data \in Versions /\ obj[o].ver \in Versions
  BY <1>2, <1>3, ServedLong DEF CacheEntries
<1>5. P = [obj EXCEPT ![o] = e]
  OBVIOUS
<1> HIDE DEF e
<1>6. \A x \in Objs : P[x] = IF x = o THEN e ELSE obj[x]
  BY <1>2, <1>5, FilesTypes DEF Heaps
<1>7. P \in Heaps
  BY <1>4, <1>5, FilesTypes DEF Heaps
<1>8. \A x \in Objs : Same(obj[x], P[x])
  BY <1>2, <1>4, <1>6 DEF Same
<1>9. OneEntry(P)
  BY <1>8 DEF AnswersInv, OneEntry, Same
<1>10. Informed(fs, changes, gone, m, f) /\ m.held \in Objs
  BY <1>1 DEF ReaderKept
<1>11. gone[f][e.data] \in Nat /\ gone[f][e.ver] \in Nat
  BY <1>1, <1>4, FilesTypes, HistoryNat
<1>12. Had(fs, changes, gone, f, e.data) /\ e.data >= e.ver
  BY <1>2, <1>3, <1>4 DEF EntryKept
<1>13. /\ gone[f][e.data] <= TTL + 2 * MaxSpan
       /\ gone[f][e.ver] <= TTL + 3 * MaxSpan
  <2>1. CASE m.torn
    <3>1. Replaced(gone, obj, m, f)
      BY <1>1, <2>1 DEF ReaderKept
    <3>2. /\ gone[f][e.data] <= MaxSpan + m.ticks
          /\ gone[f][e.ver] <= TTL + 2 * MaxSpan + m.ticks
      BY <1>2, <1>4, <3>1 DEF Replaced
    <3> QED
      BY <1>1, <1>11, <3>2, ServedLong
  <2>2. CASE ~m.torn
    <3>1. obj[m.held].path = f
      BY <1>1, <2>2 DEF ReaderKept
    <3>2. m.held = o
      BY <1>2, <1>3, <1>10, <3>1 DEF AnswersInv, OneEntry
    <3>3. e.ver = m.ver /\ e.ver # 0 /\ gone[f][e.ver] <= TTL + MaxSpan + m.ticks
      BY <1>4, <1>10, <3>2 DEF Informed
    <3>4. e.ver <= e.data /\ Ordered(gone, f, e.data)
      BY <1>4, <1>12 DEF Had, Versions
    <3>5. TTL + MaxSpan + m.ticks \in Nat
      BY <1>1, ServedLong
    <3>6. gone[f][e.data] <= TTL + MaxSpan + m.ticks
      BY <1>1, <1>4, <3>3, <3>4, <3>5, FilesTypes, Latest
    <3> QED
      BY <1>1, <1>11, <3>3, <3>6, ServedLong
  <2> QED
    BY <2>1, <2>2
<1>14. EntryKept(fs, changes, gone, e)
  BY <1>4, <1>11, <1>12, <1>13, ServedLong DEF EntryKept
<1>15. EntriesKept(fs, changes, gone, P)
  BY <1>6, <1>14 DEF AnswersInv, EntriesKept
<1>16. Moves(gone, obj, P)
  BY <1>8 DEF Moves
<1> QED
  BY <1>7, <1>8, <1>9, <1>15, <1>16

\* An entry that is fresh enough, or has the file's time.
LEMMA EntryRecent ==
  ASSUME AnswersInv, NEW r \in StaticRequests, staticReq[r].pc = "check", ~staticReq[r].torn,
         NEW e, e = obj[staticReq[r].held], e.age < TTL \/ e.ver = staticReq[r].ver
  PROVE  /\ e.data \in Versions /\ e.ver \in Versions
         /\ gone[File(r)][e.data] <= Served + 2 * MaxSpan + staticReq[r].ticks
         /\ gone[File(r)][e.ver] <= Bound
<1> DEFINE m == staticReq[r]
           f == File(r)
<1>1. /\ f \in StaticPaths /\ m.ticks \in Nat /\ m.ticks <= MaxSpan /\ m.ver \in Versions
      /\ ReaderKept(fs, changes, gone, obj, m, f)
  BY Current
<1>2. m.held \in Objs /\ e.path = f /\ Informed(fs, changes, gone, m, f)
  BY <1>1 DEF ReaderKept
<1>3. e \in CacheEntries /\ EntryKept(fs, changes, gone, e) /\ f # StaticNone
  BY <1>1, <1>2, FilesTypes, StaticAssumption DEF Heaps, AnswersInv, EntriesKept
<1>4. e.data \in Versions /\ e.ver \in Versions /\ e.age \in Nat
  BY <1>3, ServedLong DEF CacheEntries
<1>5. gone[f][e.data] \in Nat /\ gone[f][e.ver] \in Nat
  BY <1>1, <1>4, FilesTypes, HistoryNat
<1>6. Had(fs, changes, gone, f, e.data) /\ e.data >= e.ver
  BY <1>2, <1>3 DEF EntryKept
<1>7. CASE e.age < TTL
  <2>1. /\ gone[f][e.data] <= e.age + TTL + 2 * MaxSpan
        /\ gone[f][e.ver] <= e.age + TTL + 3 * MaxSpan
    BY <1>2, <1>3, <1>7 DEF EntryKept
  <2> QED
    BY <1>1, <1>4, <1>5, <1>7, <2>1, FreshTimes
<1>8. CASE e.ver = m.ver
  <2>1. e.ver # 0 /\ gone[f][e.ver] <= TTL + MaxSpan + m.ticks
    BY <1>2, <1>8 DEF Informed
  <2>2. e.ver <= e.data /\ Ordered(gone, f, e.data)
    BY <1>4, <1>6 DEF Had, Versions
  <2>3. TTL + MaxSpan + m.ticks \in Nat
    BY <1>1, ServedLong
  <2>4. gone[f][e.data] <= TTL + MaxSpan + m.ticks
    <3> DEFINE t == TTL + MaxSpan + m.ticks
               d == e.data
               v == e.ver
    <3>1. /\ d \in Versions /\ v \in Versions /\ Ordered(gone, f, d) /\ v # 0 /\ v <= d
          /\ t \in Nat /\ gone[f][v] <= t /\ f \in StaticPaths /\ gone \in Histories
      BY <1>1, <1>4, <2>1, <2>2, <2>3, FilesTypes
    <3> HIDE DEF t, d, v, f
    <3>2. gone[f][d] <= t
      BY <3>1, Latest
    <3> QED
      BY <3>2 DEF t, d
  <2> QED
    BY <1>1, <1>4, <1>5, <2>1, <2>4, TimesAdd
<1> QED
  BY <1>7, <1>8

LEMMA CacheSame ==
  ASSUME AnswersInv
  PROVE  /\ Cache.obj = obj /\ obj \in Heaps /\ Moves(gone, obj, obj)
         /\ EntriesKept(fs, changes, gone, obj) /\ OneEntry(obj)
BY FilesTypes DEF Cache, Moves, Same, AnswersInv

\* tryServeFromFileCache answers 304.
LEMMA ConfirmKept ==
  ASSUME AnswersInv, NEW r \in StaticRequests, staticReq[r].pc = "check",
         UNCHANGED <<fs, changes, gone, info, copy>>,
         NEW e, e = obj[staticReq[r].held], e.age < TTL \/ e.ver = staticReq[r].ver,
         Becomes(Cache, Status304(staticReq, r, e.ver))
  PROVE  AnswersInv'
<1> DEFINE m == staticReq[r]
           f == File(r)
<1>1. /\ m \in Readers /\ RequestKept(fs, changes, gone, obj, m) /\ f = m.todo[m.at]
      /\ ReaderKept(fs, changes, gone, obj, m, f)
  BY Current
<1>2. m.held \in Objs /\ Informed(fs, changes, gone, m, f)
  BY <1>1 DEF ReaderKept
<1>3. e.ver \in Versions
  BY <1>2, FilesTypes DEF Heaps, CacheEntries
<1>4. PICK data, etag \in Versions :
        /\ Status304(staticReq, r, e.ver) = StaticAnswer(staticReq, r, "304", data, etag)
        /\ AnswerOK(fs, changes, gone, m.torn, f, "304", data, etag)
  <2>1. ~m.torn => gone[f][e.ver] <= Bound
    BY EntryRecent
  <2> QED
    BY <1>2, <1>3, <2>1, Confirmed
<1> DEFINE a == Answered(m, "304", data, etag)
           q == Torn(a, obj)
<1>5. Status304(staticReq, r, e.ver) = [staticReq EXCEPT ![r] = a]
  <2>1. StaticAnswer(staticReq, r, "304", data, etag) = [staticReq EXCEPT ![r] = a]
    BY FilesTypes, AnswerForm
  <2> QED
    BY <1>4, <2>1
<1>6. /\ a \in Readers /\ a.pc = "304" /\ a.todo = m.todo /\ a.at = m.at /\ a.ticks = m.ticks
      /\ (a.torn <=> m.torn) /\ a.data = data /\ a.etag = etag /\ a.held = StaticNone
  <2>1. m \in Readers /\ "304" \in StaticPCs
    BY <1>1 DEF StaticPCs
  <2> HIDE DEF m
  <2> QED
    BY ONLY <2>1, AnsweredFields
<1> HIDE DEF a
<1>7. /\ q \in Readers /\ q.pc = "304" /\ q.todo = m.todo /\ q.at = m.at /\ q.ticks = m.ticks
      /\ (q.torn <=> m.torn) /\ q.data = data /\ q.etag = etag
  BY <1>6, TornFields
<1> HIDE DEF q
<1>8. AnswerOK(fs, changes, gone, q.torn, m.todo[m.at], q.pc, q.data, q.etag)
  BY <1>1, <1>4, <1>7, Zenon DEF AnswerOK
<1>9. RequestKept(fs, changes, gone, obj, q)
  BY <1>1, <1>7, <1>8, FilesTypes, AnswerKept
<1>10. Becomes(Cache, [staticReq EXCEPT ![r] = a])
  BY <1>5, Zenon
<1>11. /\ Cache.obj \in Heaps /\ Moves(gone, obj, Cache.obj)
       /\ EntriesKept(fs, changes, gone, Cache.obj) /\ OneEntry(Cache.obj)
       /\ RequestKept(fs, changes, gone, Cache.obj, Torn(a, Cache.obj))
  BY <1>9, CacheSame, Zenon DEF q
<1>12. a \in Readers
  BY <1>6
<1> QED
  BY <1>10, <1>11, <1>12, BecomesStep, Zenon

\* It sends the entry, which keeps its content.
LEMMA SendsEntry ==
  ASSUME AnswersInv, NEW r \in StaticRequests, staticReq[r].pc = "check",
         UNCHANGED <<fs, changes, gone, info, copy>>,
         obj[staticReq[r].held].age < TTL \/ obj[staticReq[r].held].ver = staticReq[r].ver,
         NEW c, Becomes(c, Me(r, "send")), c.obj \in Heaps, Moves(gone, obj, c.obj),
         EntriesKept(fs, changes, gone, c.obj), OneEntry(c.obj),
         \A x \in Objs : Same(obj[x], c.obj[x])
  PROVE  AnswersInv'
<1> DEFINE m == staticReq[r]
           f == File(r)
           a == At(m, "send")
           P == c.obj
           q == Torn(a, P)
<1>1. /\ m \in Readers /\ RequestKept(fs, changes, gone, obj, m) /\ f = m.todo[m.at]
      /\ ReaderKept(fs, changes, gone, obj, m, f)
  BY Current
<1>2. "send" \in StaticPCs
  BY DEF StaticPCs
<1>3. Me(r, "send") = [staticReq EXCEPT ![r] = a] /\ a \in Readers
  BY <1>2, FilesTypes, MeForm
<1>4. /\ a.pc = "send" /\ a.todo = m.todo /\ a.at = m.at /\ a.ticks = m.ticks /\ a.ver = m.ver
      /\ (a.torn <=> m.torn) /\ a.held = m.held
  BY <1>1, <1>2, AtFields
<1> HIDE DEF a
<1>5. /\ q \in Readers /\ q.pc = "send" /\ q.todo = m.todo /\ q.at = m.at /\ q.ticks = m.ticks
      /\ q.ver = m.ver /\ q.held = m.held /\ (m.torn => q.torn)
  BY <1>3, <1>4, TornFields
<1> HIDE DEF q
<1>6. m.held \in Objs /\ Informed(fs, changes, gone, m, f)
  BY <1>1 DEF ReaderKept
<1>7. ASSUME ~q.torn
      PROVE  /\ P[q.held].path = f
             /\ gone[f][P[q.held].data] <= Served + 2 * MaxSpan + q.ticks
  <2>1. ~m.torn /\ obj[m.held].path = f
    BY <1>1, <1>5, <1>7 DEF ReaderKept
  <2>2. gone[f][obj[m.held].data] <= Served + 2 * MaxSpan + m.ticks
    BY <2>1, EntryRecent
  <2>3. P[m.held].path = obj[m.held].path /\ P[m.held].data = obj[m.held].data
    BY <1>6 DEF Same
  <2> QED
    BY <1>5, <2>1, <2>2, <2>3
<1>8. Informed(fs, changes, gone, q, f)
  BY <1>5, <1>6 DEF Informed
<1>9. ReaderKept(fs, changes, gone, P, q, f)
  BY <1>5, <1>6, <1>7, <1>8 DEF ReaderKept
<1>10. RequestKept(fs, changes, gone, P, q)
  BY <1>1, <1>5, <1>9, FilesTypes, RequestAt
<1> QED
  BY <1>3, <1>10, BecomesStep DEF q

\* It removes the entry and goes on.
LEMMA DropsEntry ==
  ASSUME AnswersInv, NEW r \in StaticRequests, staticReq[r].pc = "check",
         UNCHANGED <<fs, changes, gone, info, copy>>,
         Becomes(Removed(Cache, Entry(File(r))),
                 [Me(r, Missed(r)) EXCEPT ![r].held = StaticNone, ![r].torn = FALSE])
  PROVE  AnswersInv'
<1> DEFINE m == staticReq[r]
           c == Removed(Cache, Entry(File(r)))
           pc == Missed(r)
           a == [m EXCEPT !.pc = pc, !.held = StaticNone, !.torn = FALSE]
           q == Torn(a, c.obj)
<1>1. m \in Readers
  BY FilesTypes
<1>2. pc \in {"serve", "read"} /\ pc \in StaticPCs
  BY DEF Missed, StaticPCs
<1>3. Becomes(c, [Me(r, pc) EXCEPT ![r].held = StaticNone, ![r].torn = FALSE])
  OBVIOUS
<1> HIDE DEF pc, c
<1>4. [Me(r, pc) EXCEPT ![r].held = StaticNone, ![r].torn = FALSE] = [staticReq EXCEPT ![r] = a]
  BY FilesTypes DEF Me, Readers
<1>5. /\ a \in Readers /\ a.pc = pc /\ a.todo = m.todo /\ a.at = m.at /\ a.ver = m.ver
      /\ a.ticks = m.ticks
  BY <1>1, <1>2 DEF Readers
<1> HIDE DEF a
<1>6. /\ q \in Readers /\ q.pc = pc /\ q.todo = m.todo /\ q.at = m.at /\ q.ver = m.ver
      /\ q.ticks = m.ticks
  BY <1>5, TornFields
<1>7. /\ c.obj \in Heaps /\ Moves(gone, obj, c.obj) /\ EntriesKept(fs, changes, gone, c.obj)
      /\ OneEntry(c.obj)
  BY RemovedKept DEF c
<1>8. RequestKept(fs, changes, gone, c.obj, q)
  BY <1>2, <1>6, <1>7, GoesOn
<1> QED
  BY <1>3, <1>4, <1>5, <1>7, <1>8, BecomesStep

LEMMA ValidateKept ==
  ASSUME AnswersInv, NEW r \in StaticRequests, StaticValidate(r)
  PROVE  AnswersInv'
<1> DEFINE m == staticReq[r]
           e == obj[m.held]
           f == File(r)
           std == m.mode = "std"
           fresh == std /\ e.age < TTL
           same == e.ver = m.ver
<1>1. m.pc = "check" /\ UNCHANGED <<fs, changes, gone, info, copy>>
  BY DEF StaticValidate
<1>2. CASE (fresh \/ same) /\ Becomes(Cache, Status304(staticReq, r, e.ver))
  BY <1>1, <1>2, ConfirmKept
<1>3. CASE /\ fresh \/ same
           /\ Becomes(IF std /\ ~fresh THEN Refreshed(f) ELSE Cache, Me(r, "send"))
  <2>1. ASSUME Becomes(Cache, Me(r, "send")) PROVE AnswersInv'
    <3>1. \A x \in Objs : Same(obj[x], Cache.obj[x])
      BY CacheSame DEF Same
    <3> QED
      BY <1>1, <1>3, <2>1, <3>1, CacheSame, SendsEntry
  <2>2. ASSUME same, Becomes(Refreshed(f), Me(r, "send")) PROVE AnswersInv'
    <3> DEFINE Good(P) == /\ P \in Heaps /\ Moves(gone, obj, P)
                          /\ EntriesKept(fs, changes, gone, P) /\ OneEntry(P)
                          /\ \A x \in Objs : Same(obj[x], P[x])
    <3>1. Good(Refreshed(f).obj)
      <4>1. CASE Refreshed(f).obj = obj
        BY <4>1, CacheSame DEF Same
      <4>2. ASSUME NEW o \in Entry(f), Refreshed(f).obj = [obj EXCEPT ![o].age = 0]
            PROVE  Good(Refreshed(f).obj)
        BY <1>1, <2>2, <4>2, RefreshKept
      <4> QED
        BY <4>1, <4>2, FilesTypes, RefreshedObjs
    <3> QED
      BY <1>1, <2>2, <3>1, SendsEntry
  <2> QED
    BY <1>3, <2>1, <2>2
<1>4. CASE Becomes(Removed(Cache, Entry(f)),
                   [Me(r, Missed(r)) EXCEPT ![r].held = StaticNone, ![r].torn = FALSE])
  BY <1>1, <1>4, DropsEntry
<1> QED
  BY <1>2, <1>3, <1>4 DEF StaticValidate

LEMMA StoreKept ==
  ASSUME AnswersInv, NEW r \in StaticRequests, Store(r)
  PROVE  AnswersInv'
<1> DEFINE m == staticReq[r]
           f == File(r)
<1>1. m.pc = "set" /\ UNCHANGED <<fs, changes, gone, info, copy>>
  BY DEF Store
<1>2. PICK o \in Target(f) : Becomes(Stored(f, m.data, m.ver, o),
                                     StaticAnswer(staticReq, r, "200", m.data, m.ver))
  BY DEF Store
<1>3. /\ m \in Readers /\ RequestKept(fs, changes, gone, obj, m) /\ f = m.todo[m.at]
      /\ f \in StaticPaths /\ m.ticks \in Nat /\ m.ticks <= MaxSpan
      /\ m.data \in Versions /\ m.ver \in Versions
      /\ ReaderKept(fs, changes, gone, obj, m, f)
  BY <1>1, Current
<1>4. /\ m.data >= m.ver /\ Had(fs, changes, gone, f, m.data) /\ gone[f][m.data] <= m.ticks
      /\ Informed(fs, changes, gone, m, f)
  BY <1>1, <1>3 DEF ReaderKept
<1>5. o \in Objs /\ \A x \in Objs : obj[x].path = f => x = o
  <2>1. CASE Entry(f) # {}
    BY <1>3, <2>1, StaticAssumption DEF Target, Entry, AnswersInv, OneEntry
  <2>2. CASE Entry(f) = {}
    BY <2>2 DEF Target, Entry
  <2> QED
    BY <2>1, <2>2
<1> DEFINE e == [path |-> f, data |-> m.data, ver |-> m.ver, age |-> 0]
           c == Stored(f, m.data, m.ver, o)
           P == c.obj
<1>6. PICK S : P = [x \in Objs |-> IF x \in S THEN Zeroed ELSE IF x = o THEN e ELSE obj[x]]
  BY <1>5, FilesTypes, StoredObjs
<1>7. /\ e \in CacheEntries /\ e.path = f /\ e.data = m.data /\ e.ver = m.ver /\ e.age = 0
  BY <1>3, ServedLong DEF CacheEntries
<1> HIDE DEF e
<1>8. P \in Heaps
  BY <1>6, <1>7, FilesTypes, ZeroedEntry DEF Heaps
<1>9. gone[f][m.data] \in Nat /\ gone[f][m.ver] \in Nat
  BY <1>3, FilesTypes, HistoryNat
<1>10. gone[f][m.ver] <= TTL + MaxSpan + m.ticks
  BY <1>4 DEF Informed
<1>b. /\ gone[f][m.data] <= MaxSpan /\ gone[f][m.data] <= TTL + 2 * MaxSpan
      /\ gone[f][m.ver] <= TTL + 2 * MaxSpan /\ gone[f][m.ver] <= TTL + 3 * MaxSpan
  BY <1>3, <1>4, <1>9, <1>10, TimesAdd
<1>11. EntryKept(fs, changes, gone, e)
  <2>1. e.age + TTL + 2 * MaxSpan = TTL + 2 * MaxSpan /\ e.age + TTL + 3 * MaxSpan = TTL + 3 * MaxSpan
    BY <1>7, ServedLong
  <2> QED
    BY <1>4, <1>7, <1>b, <2>1 DEF EntryKept
<1>12. Newest(gone, e)
  BY <1>7, <1>b, Zenon DEF Newest
<1>13. \A x \in Objs : P[x] = Zeroed \/ (x = o /\ P[x] = e) \/ (x # o /\ P[x] = obj[x])
  BY <1>6
<1> DEFINE a == Answered(m, "200", m.data, m.ver)
           q == Torn(a, P)
<1>14. "200" \in StaticPCs
  BY DEF StaticPCs
<1>15. StaticAnswer(staticReq, r, "200", m.data, m.ver) = [staticReq EXCEPT ![r] = a]
  <2>1. ASSUME NEW d, NEW v
        PROVE  StaticAnswer(staticReq, r, "200", d, v)
                 = [staticReq EXCEPT ![r] = Answered(m, "200", d, v)]
    BY FilesTypes, AnswerForm
  <2> QED
    BY <2>1, Zenon
<1>16. Becomes(c, [staticReq EXCEPT ![r] = a])
  BY <1>2, <1>15
<1>17. /\ a \in Readers /\ a.pc = "200" /\ a.todo = m.todo /\ a.at = m.at /\ a.ticks = m.ticks
       /\ (a.torn <=> m.torn) /\ a.data = m.data /\ a.etag = m.ver /\ a.held = StaticNone
  <2>1. m \in Readers /\ m.data \in Versions /\ m.ver \in Versions
    BY <1>3
  <2> HIDE DEF m
  <2> QED
    BY ONLY <1>14, <2>1, AnsweredFields
<1> HIDE DEF a, c
<1>18. Moves(gone, obj, P) /\ EntriesKept(fs, changes, gone, P) /\ OneEntry(P)
  <2>1. Moves(gone, obj, P)
    BY <1>12, <1>13, ZeroedEntry DEF Moves, Same
  <2>2. EntriesKept(fs, changes, gone, P)
    BY <1>11, <1>13, ZeroedEntry DEF AnswersInv, EntriesKept
  <2>3. OneEntry(P)
    BY <1>5, <1>7, <1>13, ZeroedEntry DEF AnswersInv, OneEntry
  <2> QED
    BY <2>1, <2>2, <2>3
<1>19. /\ q \in Readers /\ q.pc = "200" /\ q.todo = m.todo /\ q.at = m.at /\ q.ticks = m.ticks
       /\ (q.torn <=> m.torn) /\ q.data = m.data /\ q.etag = m.ver
  BY <1>17, TornFields
<1> HIDE DEF q
<1>20. AnswerOK(fs, changes, gone, m.torn, f, "200", m.data, m.ver)
  BY <1>1, AnswerStored
<1>21. AnswerOK(fs, changes, gone, q.torn, m.todo[m.at], q.pc, q.data, q.etag)
  BY <1>3, <1>19, <1>20, Zenon DEF AnswerOK
<1>22. RequestKept(fs, changes, gone, P, q)
  BY <1>1, <1>3, <1>8, <1>19, <1>21, FilesTypes, AnswerKept
<1> QED
  BY <1>1, <1>8, <1>16, <1>17, <1>18, <1>22, BecomesStep DEF q

-----------------------------------------------------------------------------
(* The theorem *)

LEMMA AnswersNext == ASSUME AnswersInv, [StaticNext]_staticVars PROVE AnswersInv'
<1>1. ASSUME NEW r \in StaticRequests, Step(r) PROVE AnswersInv'
  BY <1>1, HandleKept, StatHitKept, StatMissKept, StatSetKept, ServeKept, GetMissKept, GetHitKept,
     ValidateKept, SendKept, ReadKept, StoreKept, LargeKept, LeaveKept DEF Step
<1>2. ASSUME NEW f \in StaticPaths, Write(f) \/ Delete(f) PROVE AnswersInv'
  BY <1>2, WriteKept, DeleteKept
<1>3. CASE StaticTick
  BY <1>3, TickKept
<1>4. CASE UNCHANGED staticVars
  <2>1. /\ fs' = fs /\ changes' = changes /\ gone' = gone /\ info' = info /\ obj' = obj
        /\ staticReq' = staticReq /\ copy' = copy
    BY <1>4 DEF staticVars, cvars
  <2> QED
    BY <2>1, Zenon DEF AnswersInv, FilesTyped
<1> QED
  BY <1>1, <1>2, <1>3, <1>4 DEF StaticNext

LEMMA AnswersImplied == ASSUME AnswersInv PROVE AnswersSound
<1>1. ASSUME NEW o \in Objs PROVE obj[o].data >= obj[o].ver
  BY DEF AnswersInv, EntriesKept, EntryKept
<1>2. ASSUME NEW r \in StaticRequests, staticReq[r].pc # "idle"
      PROVE  /\ staticReq[r].pc = "200" => staticReq[r].data >= staticReq[r].etag
             /\ staticReq[r].pc \in {"200", "304"} /\ ~staticReq[r].torn
                  => Recent(File(r), staticReq[r].data)
             /\ staticReq[r].pc = "404" => Recent(File(r), 0)
             /\ \A i \in 1..(staticReq[r].at - 1) : Recent(staticReq[r].todo[i], 0)
  <2> DEFINE m == staticReq[r]
  <2>1. ReaderKept(fs, changes, gone, obj, m, File(r)) /\ TodoKept(gone, m)
    BY <1>2, Current DEF RequestKept
  <2>2. /\ m.todo \in Seq(StaticPaths) /\ m.at \in 1..Len(m.todo)
        /\ m.ticks \in Nat /\ m.ticks <= MaxSpan
    BY <1>2, Current
  <2>3. ASSUME NEW i \in 1..(m.at - 1) PROVE Recent(m.todo[i], 0)
    <3>1. gone[m.todo[i]][0] <= TTL + MaxSpan + m.ticks
      BY <1>2, <2>1, Zenon DEF TodoKept
    <3>2. m.todo[i] \in StaticPaths
      BY <2>2
    <3>3. gone[m.todo[i]][0] \in Nat
      BY <3>2, FilesTypes, ServedLong DEF Histories, Versions, Times
    <3>4. gone[m.todo[i]][0] <= Bound
      <4>1. \A a, t \in Nat : t <= MaxSpan /\ a <= TTL + MaxSpan + t => a <= Bound
        BY ServedLong
      <4> QED
        BY <2>2, <3>1, <3>3, <4>1, Zenon
    <3> QED
      BY <3>4 DEF Recent
  <2>4. /\ m.pc = "200" => m.data >= m.etag
        /\ m.pc \in {"200", "304"} /\ ~m.torn => Recent(File(r), m.data)
        /\ m.pc = "404" => Recent(File(r), 0)
    BY <2>1, Zenon DEF ReaderKept, Recent
  <2> QED
    BY <2>3, <2>4
<1>3. ContentNotOlder
  BY <1>1, <1>2 DEF ContentNotOlder
<1>4. AnswersRecent
  BY <1>2 DEF AnswersRecent
<1> QED
  BY <1>3, <1>4 DEF AnswersSound

\* Whatever the files, the clients, the sizes and the TTL of the two caches and
\* the length of a request, an answer of the static file handler (static.go)
\* says of a file what was right at most Bound ticks before, and never announces
\* a newer version than it carries, whatever a client asks with: a 304 for the
\* date alone says so of the date.
THEOREM StaticAnswersSound == StaticSpec => []AnswersSound
<1>1. StaticInit => AnswersInv
  BY AnswersStart
<1>2. AnswersInv /\ [StaticNext]_staticVars => AnswersInv'
  BY AnswersNext
<1>3. AnswersInv => AnswersSound
  BY AnswersImplied
<1> QED
  BY <1>1, <1>2, <1>3, PTL DEF StaticSpec

-----------------------------------------------------------------------------
(* The accounts of the content cache. *)

\* A list without some of its elements.
LEMMA UnlistedList ==
  ASSUME NEW B, NEW s \in Seq(B), Distinct(s), NEW T
  PROVE  /\ Unlisted(s, T) \in Seq(B) /\ Len(Unlisted(s, T)) <= Len(s)
         /\ Distinct(Unlisted(s, T)) /\ Range(Unlisted(s, T)) = Range(s) \ T
<1> DEFINE kept == {i \in 1..Len(s) : s[i] \notin T}
           upto(i) == {j \in kept : j <= i}
           number == Cardinality(kept)
           pos(k) == CHOOSE i \in kept : Cardinality(upto(i)) = k
           t == [k \in 1..number |-> s[pos(k)]]
<1>1. Unlisted(s, T) = t
  BY Zenon DEF Unlisted
<1>2. IsFiniteSet(kept) /\ number \in Nat /\ number <= Len(s) /\ kept \in SUBSET (1..Len(s))
  <2>1. kept \in SUBSET (1..Len(s)) /\ Len(s) \in Nat
    OBVIOUS
  <2> HIDE DEF kept
  <2>2. IsFiniteSet(1..Len(s)) /\ Cardinality(1..Len(s)) = Len(s)
    BY <2>1, IntervalSize
  <2>3. IsFiniteSet(kept) /\ Cardinality(kept) <= Len(s)
    BY <2>1, <2>2, FS_Subset
  <2>4. Cardinality(kept) \in Nat
    BY <2>3, FS_CardinalityType
  <2> QED
    BY <2>1, <2>3, <2>4
<1>3. ASSUME NEW i \in kept
      PROVE  IsFiniteSet(upto(i)) /\ Cardinality(upto(i)) \in 1..number
  <2>1. upto(i) \in SUBSET kept /\ i \in upto(i)
    BY <1>2
  <2> HIDE DEF upto, kept
  <2>2. IsFiniteSet(upto(i)) /\ Cardinality(upto(i)) \in Nat /\ Cardinality(upto(i)) <= number
    BY <1>2, <2>1, FS_Subset, FS_CardinalityType
  <2>3. Cardinality(upto(i)) # 0
    BY <2>1, <2>2, FS_EmptySet
  <2> QED
    BY <1>2, <2>2, <2>3
<1>4. ASSUME NEW k \in 1..number PROVE pos(k) \in kept /\ Cardinality(upto(pos(k))) = k
  <2>1. \E i \in kept : Cardinality(upto(i)) = k
    <3>1. Len(s) \in Nat /\ k \in 1..Cardinality(kept)
      OBVIOUS
    <3> HIDE DEF kept
    <3> QED
      BY <1>2, <3>1, RankTaken
  <2> HIDE DEF upto, kept
  <2> QED
    BY <2>1
<1>5. ASSUME NEW i \in kept, NEW j \in kept, Cardinality(upto(i)) = Cardinality(upto(j))
      PROVE  ~(i < j)
  <2> SUFFICES ASSUME i < j PROVE FALSE
    OBVIOUS
  <2>1. upto(i) \in SUBSET upto(j) /\ j \in upto(j) /\ j \notin upto(i)
    <3>1. \A u \in kept : u \in Nat
      BY <1>2
    <3> HIDE DEF kept
    <3> QED
      BY <3>1
  <2>2. IsFiniteSet(upto(j))
    BY <1>3
  <2> HIDE DEF upto, kept
  <2> QED
    BY <1>5, <2>1, <2>2, FS_Subset
<1>6. ASSUME NEW i \in kept PROVE \E k \in 1..number : pos(k) = i
  <2> DEFINE k == Cardinality(upto(i))
  <2>1. k \in 1..number
    BY <1>3
  <2>2. pos(k) \in kept /\ Cardinality(upto(pos(k))) = k
    BY <1>4, <2>1
  <2> HIDE DEF pos, upto
  <2>3. ~(pos(k) < i) /\ ~(i < pos(k))
    <3> HIDE DEF kept
    <3> QED
      BY <1>5, <2>2
  <2>4. i \in Nat /\ pos(k) \in Nat
    BY <1>2, <2>2
  <2>5. pos(k) = i
    <3> HIDE DEF kept, k
    <3> QED
      BY <2>3, <2>4
  <2> QED
    BY <2>1, <2>5
<1>7. \A k \in 1..number : t[k] = s[pos(k)]
  OBVIOUS
<1>8. ASSUME NEW k \in 1..number PROVE pos(k) \in 1..Len(s) /\ t[k] \in B
  <2>1. pos(k) \in 1..Len(s)
    BY <1>2, <1>4
  <2> HIDE DEF pos, number, t
  <2> QED
    BY <1>7, <2>1
<1>9. t \in Seq(B) /\ Len(t) = number
  <2> HIDE DEF pos, number
  <2>1. t = [k \in 1..number |-> s[pos(k)]]
    OBVIOUS
  <2>2. \A k \in 1..number : s[pos(k)] \in B
    BY <1>7, <1>8
  <2> HIDE DEF t
  <2> QED
    BY <1>2, <2>1, <2>2
<1> HIDE DEF t, number
<1>10. Distinct(t)
  <2> SUFFICES ASSUME NEW a \in 1..number, NEW b \in 1..number, t[a] = t[b] PROVE a = b
    BY <1>9 DEF Distinct
  <2>1. pos(a) = pos(b)
    <3>1. s[pos(a)] = s[pos(b)] /\ pos(a) \in 1..Len(s) /\ pos(b) \in 1..Len(s)
      BY <1>7, <1>8
    <3> HIDE DEF pos
    <3> QED
      BY <3>1 DEF Distinct
  <2>2. Cardinality(upto(pos(a))) = a /\ Cardinality(upto(pos(b))) = b
    BY <1>4
  <2> HIDE DEF pos, upto
  <2> QED
    BY <2>1, <2>2
<1>11. Range(t) = Range(s) \ T
  <2>1. \A x : x \in Range(t) <=> \E k \in 1..number : t[k] = x
    BY <1>9, RangeOf
  <2>2. \A x : x \in Range(s) <=> \E i \in 1..Len(s) : s[i] = x
    BY RangeOf
  <2>3. ASSUME NEW k \in 1..number PROVE t[k] \in Range(s) \ T
    <3>1. pos(k) \in kept /\ t[k] = s[pos(k)]
      BY <1>4, <1>7
    <3> HIDE DEF pos
    <3> QED
      BY <2>2, <3>1
  <2>4. ASSUME NEW i \in 1..Len(s), s[i] \notin T PROVE \E k \in 1..number : t[k] = s[i]
    <3>1. i \in kept
      BY <2>4
    <3>2. PICK k \in 1..number : pos(k) = i
      BY <1>6, <3>1
    <3> HIDE DEF pos
    <3> QED
      BY <1>7, <3>2
  <2> HIDE DEF kept
  <2> QED
    BY <2>1, <2>2, <2>3, <2>4
<1> QED
  BY <1>1, <1>2, <1>9, <1>10, <1>11

-----------------------------------------------------------------------------
(* The accounts of the cache: the objects O, the list L and the size z *)

SizesOf(O) == [o \in Objs |-> SizeOf(O[o])]

LEMMA SizesNat ==
  /\ \A e \in CacheEntries : SizeOf(e) \in Nat
  /\ \A O \in Heaps : SizesOf(O) \in [Objs -> Nat]
  /\ \A O \in Heaps, o \in Objs : SizesOf(O)[o] = SizeOf(O[o]) /\ O[o] \in CacheEntries
<1>1. ASSUME NEW e \in CacheEntries PROVE SizeOf(e) \in Nat
  <2>1. CASE e.path = StaticNone
    BY <2>1 DEF SizeOf
  <2>2. CASE e.path # StaticNone
    <3>1. e.path \in StaticPaths /\ e.ver \in 0..(MaxChanges + 1)
      BY <2>2 DEF CacheEntries, Versions
    <3>2. Size[e.path][e.ver] \in Nat
      BY <3>1, StaticAssumption
    <3> QED
      BY <2>2, <3>2 DEF SizeOf
  <2> QED
    BY <2>1, <2>2
<1>2. ASSUME NEW O \in Heaps, NEW o \in Objs
      PROVE  SizesOf(O)[o] = SizeOf(O[o]) /\ O[o] \in CacheEntries
  BY DEF SizesOf, Heaps
<1>3. ASSUME NEW O \in Heaps PROVE SizesOf(O) \in [Objs -> Nat]
  <2>1. \A o \in Objs : SizeOf(O[o]) \in Nat
    BY <1>1, <1>2
  <2> QED
    BY <2>1 DEF SizesOf
<1> QED
  BY <1>1, <1>2, <1>3

\* Totals add up.
LEMMA TotalParts ==
  ASSUME NEW O \in Heaps, NEW S \in SUBSET Objs, IsFiniteSet(S), NEW T \in SUBSET Objs
  PROVE  /\ Total(O, S) \in Nat /\ Total(O, {}) = 0
         /\ Total(O, S) = Total(O, S \ T) + Total(O, S \cap T)
         /\ Total(O, S \ T) \in Nat /\ Total(O, S \cap T) \in Nat
         /\ \A x \in Objs : Total(O, {x}) = SizeOf(O[x])
<1> DEFINE w == SizesOf(O)
<1>1. w \in [Objs -> Nat] /\ \A x \in Objs : w[x] = SizeOf(O[x])
  BY SizesNat
<1>2. \A U : Total(O, U) = FoldFunctionOnSet(+, 0, w, U)
  BY DEF Total, SizesOf
<1> HIDE DEF w
<1>3. \A U \in SUBSET Objs : IsFiniteSet(U) => Total(O, U) = Cardinality(Units(w, U))
  BY <1>1, <1>2, SumIsCount
<1> DEFINE A == S \ T
           B == S \cap T
<1>4. /\ A \in SUBSET Objs /\ B \in SUBSET Objs /\ IsFiniteSet(A) /\ IsFiniteSet(B)
      /\ A \cap B = {} /\ A \cup B = S /\ A \in SUBSET S /\ B \in SUBSET S
  <2>1. A \in SUBSET S /\ B \in SUBSET S
    OBVIOUS
  <2> QED
    BY <2>1, FS_Subset
<1> HIDE DEF A, B
<1>5. /\ Cardinality(Units(w, A \cup B)) = Cardinality(Units(w, A)) + Cardinality(Units(w, B))
      /\ Cardinality(Units(w, A)) \in Nat /\ Cardinality(Units(w, B)) \in Nat
  BY <1>1, <1>4, UnitsJoined
<1>6. /\ Total(O, S) = Total(O, A) + Total(O, B) /\ Total(O, A) \in Nat /\ Total(O, B) \in Nat
  BY <1>3, <1>4, <1>5
<1>7. ASSUME NEW x \in Objs PROVE Total(O, {x}) = SizeOf(O[x])
  <2>1. IsFiniteSet({x}) /\ {x} \in SUBSET Objs
    BY FS_Singleton
  <2>2. Cardinality(Units(w, {x})) = w[x]
    BY <1>1, UnitsStep
  <2> QED
    BY <1>1, <1>3, <2>1, <2>2
<1>8. Total(O, {}) = 0
  <2>1. Cardinality(Units(w, {})) = 0
    BY <1>1, UnitsStep
  <2> QED
    BY <1>3, <2>1, FS_EmptySet
<1> QED
  BY <1>6, <1>7, <1>8 DEF A, B

\* A total depends on the sizes of what is added up.
LEMMA TotalSame ==
  ASSUME NEW O \in Heaps, NEW P \in Heaps, NEW S \in SUBSET Objs, IsFiniteSet(S),
         \A o \in S : SizeOf(P[o]) = SizeOf(O[o])
  PROVE  Total(P, S) = Total(O, S)
<1> DEFINE v == SizesOf(O)
           w == SizesOf(P)
<1>1. /\ v \in [Objs -> Nat] /\ w \in [Objs -> Nat] /\ \A x \in S : v[x] = w[x]
  BY SizesNat
<1>2. Total(O, S) = FoldFunctionOnSet(+, 0, v, S) /\ Total(P, S) = FoldFunctionOnSet(+, 0, w, S)
  BY DEF Total, SizesOf
<1> HIDE DEF v, w
<1>3. Units(v, S) = Units(w, S)
  <2>1. \A x \in S : {x} \X (1..v[x]) = {x} \X (1..w[x])
    BY <1>1
  <2> QED
    BY <2>1, Zenon DEF Units
<1> QED
  BY <1>1, <1>2, <1>3, SumIsCount

ListOK(O, L) ==
  /\ O \in Heaps /\ L \in Seq(Objs) /\ Distinct(L) /\ OneEntry(O)
  /\ \A o \in Objs : O[o].path # StaticNone <=> o \in Range(L)

CacheOK(O, L, z) == ListOK(O, L) /\ z = Total(O, Range(L))

Limited(L, z) ==
  /\ MaxEntries > 0 => Len(L) <= MaxEntries
  /\ MaxSize > 0 => z <= MaxSize

Exact(c) == CacheOK(c.obj, c.lru, c.size)

LEMMA ListedFinite ==
  ASSUME NEW O, NEW L, ListOK(O, L)
  PROVE  /\ IsFiniteSet(Range(L)) /\ Range(L) \in SUBSET Objs /\ Cardinality(Range(L)) = Len(L)
         /\ Len(L) \in Nat
<1>1. L \in Seq(Objs) /\ Distinct(L)
  BY DEF ListOK
<1> QED
  BY <1>1, RangeOf, DistinctLength

\* Removing entries.
LEMMA RemovedExact ==
  ASSUME NEW c, Exact(c), NEW T \in SUBSET Range(c.lru)
  PROVE  LET d == Removed(c, T) IN
         /\ Exact(d) /\ d.size \in Nat /\ c.size \in Nat /\ d.size <= c.size
         /\ Range(d.lru) = Range(c.lru) \ T /\ Len(d.lru) <= Len(c.lru)
<1> DEFINE R == Range(c.lru)
           d == Removed(c, T)
<1>1. /\ ListOK(c.obj, c.lru) /\ c.size = Total(c.obj, R) /\ c.obj \in Heaps
      /\ c.lru \in Seq(Objs) /\ Distinct(c.lru)
  BY DEF Exact, CacheOK, ListOK
<1>2. IsFiniteSet(R) /\ R \in SUBSET Objs /\ T \in SUBSET Objs /\ R \cap T = T
  BY <1>1, ListedFinite
<1>3. /\ d.obj = [o \in Objs |-> IF o \in T THEN Zeroed ELSE c.obj[o]]
      /\ d.lru = Unlisted(c.lru, T) /\ d.size = c.size - Total(c.obj, T)
  BY Zenon DEF Removed
<1> HIDE DEF R, d
<1>4. /\ d.lru \in Seq(Objs) /\ Len(d.lru) <= Len(c.lru) /\ Distinct(d.lru)
      /\ Range(d.lru) = R \ T
  BY <1>1, <1>3, UnlistedList DEF R
<1>5. d.obj \in Heaps
  BY <1>1, <1>3, ZeroedEntry DEF Heaps
<1>6. /\ Total(c.obj, R) \in Nat /\ Total(c.obj, R) = Total(c.obj, R \ T) + Total(c.obj, T)
      /\ Total(c.obj, R \ T) \in Nat /\ Total(c.obj, T) \in Nat
  <2>1. /\ Total(c.obj, R) \in Nat
        /\ Total(c.obj, R) = Total(c.obj, R \ T) + Total(c.obj, R \cap T)
        /\ Total(c.obj, R \ T) \in Nat /\ Total(c.obj, R \cap T) \in Nat
    BY <1>1, <1>2, TotalParts
  <2> QED
    BY <1>2, <2>1
<1>7. Total(d.obj, R \ T) = Total(c.obj, R \ T)
  <2>1. IsFiniteSet(R \ T) /\ R \ T \in SUBSET Objs
    BY <1>2, FS_Subset
  <2>2. \A o \in R \ T : d.obj[o] = c.obj[o]
    BY <1>2, <1>3
  <2> QED
    BY <1>1, <1>5, <2>1, <2>2, TotalSame
<1>8. ListOK(d.obj, d.lru)
  <2>1. \A o \in Objs : d.obj[o] = IF o \in T THEN Zeroed ELSE c.obj[o]
    BY <1>3
  <2>2. Zeroed.path = StaticNone
    BY ZeroedEntry
  <2>3. OneEntry(d.obj)
    BY <1>1, <2>1, <2>2 DEF ListOK, OneEntry
  <2>4. \A o \in Objs : c.obj[o].path # StaticNone <=> o \in R
    BY <1>1 DEF ListOK, R
  <2>5. \A o \in Objs : d.obj[o].path # StaticNone <=> o \in Range(d.lru)
    BY <1>4, <2>1, <2>2, <2>4
  <2> QED
    BY <1>4, <1>5, <2>3, <2>5 DEF ListOK
<1>9. d.size = Total(d.obj, Range(d.lru)) /\ d.size \in Nat /\ d.size <= c.size /\ c.size \in Nat
  BY <1>1, <1>3, <1>4, <1>6, <1>7
<1> QED
  BY <1>4, <1>8, <1>9 DEF Exact, CacheOK, R, d

\* What fits is limited to a first part of the list, of which there is a longest.
LEMMA Longest ==
  ASSUME NEW n \in Nat, NEW A \in SUBSET (0..n), A # {}
  PROVE  \E k \in A : \A m \in A : m <= k
<1> DEFINE B == {a + 1 : a \in A}
<1>1. B \in SUBSET (1..(n + 1)) /\ B # {} /\ n + 1 \in Nat
  <2>1. \A a \in A : a + 1 \in 1..(n + 1)
    OBVIOUS
  <2>2. B # {}
    BY A # {}
  <2> QED
    BY <2>1, <2>2
<1>2. \A a \in A : a + 1 \in B
  OBVIOUS
<1>3. \A b \in B : b - 1 \in A /\ b \in Nat
  OBVIOUS
<1> HIDE DEF B
<1> DEFINE k == Max(B)
<1>4. k \in B /\ \A b \in B : b <= k
  BY <1>1, LastPosition
<1> HIDE DEF k
<1>5. k - 1 \in A /\ \A m \in A : m <= k - 1
  BY <1>2, <1>3, <1>4
<1> QED
  BY <1>5

\* The entries of the list after the first n.
Tails(L, n) == Range(SubSeq(L, n + 1, Len(L)))

LEMMA TailOf ==
  ASSUME NEW O, NEW L, ListOK(O, L), NEW n \in 0..Len(L)
  PROVE  /\ Tails(L, n) \in SUBSET Range(L) /\ Cardinality(Range(L) \ Tails(L, n)) <= n
         /\ Cardinality(Range(L) \ Tails(L, n)) \in Nat
         /\ n = 0 => Tails(L, n) = Range(L)
<1> DEFINE t == SubSeq(L, n + 1, Len(L))
           h == SubSeq(L, 1, n)
<1>1. L \in Seq(Objs) /\ Distinct(L) /\ Len(L) \in Nat
  BY DEF ListOK
<1>2. /\ t \in Seq(Objs) /\ Len(t) = Len(L) - n
      /\ \A i \in 1..Len(t) : t[i] = L[n + i]
  BY <1>1
<1>3. h \in Seq(Objs) /\ Len(h) = n /\ Distinct(h)
      /\ \A i \in 1..Len(L) : L[i] \in Range(h) <=> i <= n
  BY <1>1, PrefixOf
<1>4. Tails(L, n) = Range(t)
  BY DEF Tails
<1> HIDE DEF t, h
<1>5. /\ \A x : x \in Range(t) <=> \E i \in 1..Len(t) : t[i] = x
      /\ \A x : x \in Range(L) <=> \E i \in 1..Len(L) : L[i] = x
  BY <1>1, <1>2, RangeOf
<1>6. ASSUME NEW i \in 1..Len(t) PROVE t[i] \in Range(L)
  <2>1. n + i \in 1..Len(L) /\ t[i] = L[n + i]
    BY <1>1, <1>2
  <2> QED
    BY <1>5, <2>1
<1>7. ASSUME NEW i \in 1..Len(L), i > n PROVE L[i] \in Range(t)
  <2>1. i - n \in 1..Len(t) /\ t[i - n] = L[n + (i - n)] /\ n + (i - n) = i
    BY <1>1, <1>2, <1>7
  <2> QED
    BY <1>5, <2>1
<1>8. Range(L) \ Range(t) \in SUBSET Range(h)
  <2> SUFFICES ASSUME NEW i \in 1..Len(L), L[i] \notin Range(t) PROVE L[i] \in Range(h)
    BY <1>5
  <2>1. i <= n
    BY <1>1, <1>7
  <2> QED
    BY <1>3, <2>1
<1>9. IsFiniteSet(Range(h)) /\ Cardinality(Range(h)) = n
  BY <1>3, DistinctLength
<1>10. /\ Cardinality(Range(L) \ Range(t)) <= n /\ IsFiniteSet(Range(L) \ Range(t))
  BY <1>8, <1>9, FS_Subset
<1>11. Cardinality(Range(L) \ Range(t)) \in Nat
  BY <1>10, FS_CardinalityType
<1>12. Range(t) \in SUBSET Range(L)
  BY <1>5, <1>6
<1>13. ASSUME n = 0 PROVE Range(t) = Range(L)
  <2>1. \A i \in 1..Len(L) : i > n
    BY <1>1, <1>13
  <2>2. \A i \in 1..Len(L) : L[i] \in Range(t)
    BY <1>7, <2>1
  <2> QED
    BY <1>5, <1>12, <2>2
<1> QED
  BY <1>4, <1>10, <1>11, <1>12, <1>13

\* evictIfNeeded keeps the accounts and establishes the limits.
LEMMA EvictedExact ==
  ASSUME NEW c, Exact(c)
  PROVE  Exact(Evicted(c)) /\ Limited(Evicted(c).lru, Evicted(c).size)
<1> DEFINE Fits == {n \in 0..Len(c.lru) :
                      /\ MaxEntries > 0 => n <= MaxEntries
                      /\ MaxSize > 0 => Removed(c, Tails(c.lru, n)).size <= MaxSize}
           n == CHOOSE n \in Fits : \A m \in Fits : m <= n
           d == Removed(c, Tails(c.lru, n))
<1>1. Evicted(c) = d
  BY Zenon DEF Evicted, Tails
<1>2. /\ ListOK(c.obj, c.lru) /\ c.size = Total(c.obj, Range(c.lru)) /\ c.obj \in Heaps
      /\ Len(c.lru) \in Nat
  BY DEF Exact, CacheOK, ListOK
<1>3. MaxEntries \in Nat /\ MaxSize \in Nat
  BY StaticAssumption
<1>4. 0 \in Fits
  <2>1. Tails(c.lru, 0) = Range(c.lru)
    <3>1. 0 \in 0..Len(c.lru)
      BY <1>2
    <3> QED
      BY <1>2, <3>1, TailOf
  <2>2. Removed(c, Range(c.lru)).size = c.size - Total(c.obj, Range(c.lru))
    BY DEF Removed
  <2>3. Total(c.obj, Range(c.lru)) \in Nat
    BY <1>2, ListedFinite, TotalParts
  <2>4. Removed(c, Tails(c.lru, 0)).size = 0
    BY <1>2, <2>1, <2>2, <2>3
  <2> QED
    BY <1>2, <1>3, <2>4
<1>5. Fits \in SUBSET (0..Len(c.lru))
  OBVIOUS
<1>6. n \in Fits
  <2> HIDE DEF Fits
  <2> QED
    BY <1>2, <1>4, <1>5, Longest
<1>7. /\ n \in 0..Len(c.lru)
      /\ MaxEntries > 0 => n <= MaxEntries
      /\ MaxSize > 0 => d.size <= MaxSize
  <2> HIDE DEF n
  <2> QED
    BY <1>6
<1> HIDE DEF n, Fits
<1>a. n \in 0..Len(c.lru) /\ n \in Nat
  BY <1>7
<1>8. /\ Tails(c.lru, n) \in SUBSET Range(c.lru)
      /\ Cardinality(Range(c.lru) \ Tails(c.lru, n)) <= n
      /\ Cardinality(Range(c.lru) \ Tails(c.lru, n)) \in Nat
  BY ONLY <1>2, <1>a, TailOf
<1>9. Exact(d) /\ Range(d.lru) = Range(c.lru) \ Tails(c.lru, n)
  BY <1>8, RemovedExact
<1> HIDE DEF d
<1>10. Cardinality(Range(d.lru)) = Len(d.lru)
  BY <1>9, ListedFinite DEF Exact, CacheOK
<1>11. MaxEntries > 0 => Len(d.lru) <= MaxEntries
  <2> DEFINE k == Cardinality(Range(c.lru) \ Tails(c.lru, n))
  <2>1. Len(d.lru) = k /\ k \in Nat /\ k <= n
    BY <1>8, <1>9, <1>10
  <2> HIDE DEF k
  <2> QED
    BY <1>3, <1>7, <1>a, <2>1
<1> QED
  BY <1>1, <1>7, <1>9, <1>11 DEF Limited

\* An entry that is put into the object o, and o to the front.
PlacedIn(c, o, e, d) ==
  /\ e.path # StaticNone /\ \A x \in Objs : c.obj[x].path = e.path => x = o
  /\ d.obj = [c.obj EXCEPT ![o] = e] /\ d.lru = <<o>> \o Unlisted(c.lru, {o})
  /\ d.size = c.size - SizeOf(c.obj[o]) + SizeOf(e)

LEMMA PlacedExact ==
  ASSUME NEW c, Exact(c), NEW o \in Objs, NEW e \in CacheEntries, NEW d, PlacedIn(c, o, e, d)
  PROVE  Exact(d) /\ (o \in Range(c.lru) => Len(d.lru) = Len(c.lru))
<1> USE DEF PlacedIn
<1> DEFINE L == c.lru
           O == c.obj
           R == Range(L)
           U == Unlisted(L, {o})
<1>1. /\ ListOK(O, L) /\ c.size = Total(O, R) /\ O \in Heaps
      /\ L \in Seq(Objs) /\ Distinct(L)
  BY DEF Exact, CacheOK, ListOK
<1>2. IsFiniteSet(R) /\ R \in SUBSET Objs
  BY <1>1, ListedFinite
<1>3. U \in Seq(Objs) /\ Distinct(U) /\ Range(U) = R \ {o}
  BY <1>1, UnlistedList
<1> HIDE DEF U
<1>4. /\ d.lru \in Seq(Objs) /\ Distinct(d.lru) /\ Range(d.lru) = R \cup {o}
  <2>1. o \notin Range(U) /\ d.lru = <<o>> \o U
    BY <1>3 DEF U
  <2>2. /\ <<o>> \o U \in Seq(Objs) /\ Distinct(<<o>> \o U)
        /\ Range(<<o>> \o U) = Range(U) \cup {o}
    BY <1>3, <2>1, PushedFront
  <2> QED
    BY <1>3, <2>1, <2>2
<1>5. /\ d.obj \in Heaps /\ d.obj[o] = e
      /\ \A x \in Objs : x # o => d.obj[x] = O[x]
  BY <1>1 DEF Heaps
<1>6. ListOK(d.obj, d.lru)
  <2>1. \A x \in Objs : O[x].path # StaticNone <=> x \in R
    BY <1>1 DEF ListOK
  <2>2. \A x \in Objs : d.obj[x].path # StaticNone <=> x \in Range(d.lru)
    BY <1>4, <1>5, <2>1
  <2>3. OneEntry(d.obj)
    BY <1>1, <1>5 DEF ListOK, OneEntry
  <2> QED
    BY <1>4, <1>5, <2>2, <2>3 DEF ListOK
<1> HIDE DEF L, O, R
<1>7. d.size = Total(d.obj, R \cup {o})
  <2> DEFINE rest == R \ {o}
  <2>1. /\ IsFiniteSet(R \cup {o}) /\ R \cup {o} \in SUBSET Objs /\ rest \in SUBSET Objs
        /\ IsFiniteSet(rest) /\ IsFiniteSet({o}) /\ {o} \in SUBSET Objs
    BY <1>2, FS_AddElement, FS_RemoveElement, FS_Singleton
  <2>2. /\ Total(O, rest) \in Nat /\ SizeOf(O[o]) \in Nat /\ SizeOf(e) \in Nat
    <3>1. Total(O, rest) \in Nat
      BY <1>1, <2>1, TotalParts
    <3> QED
      BY <1>1, <3>1, SizesNat
  <2>3. Total(d.obj, rest) = Total(O, rest)
    <3>1. \A x \in rest : SizeOf(d.obj[x]) = SizeOf(O[x])
      BY <1>2, <1>5
    <3>2. O \in Heaps /\ d.obj \in Heaps
      BY <1>1, <1>5
    <3> HIDE DEF rest
    <3> QED
      BY ONLY <2>1, <3>1, <3>2, TotalSame
  <2>4. Total(d.obj, R \cup {o}) = Total(O, rest) + SizeOf(e)
    <3>1. (R \cup {o}) \ {o} = rest /\ (R \cup {o}) \cap {o} = {o}
      OBVIOUS
    <3>2. Total(d.obj, R \cup {o})
            = Total(d.obj, (R \cup {o}) \ {o}) + Total(d.obj, (R \cup {o}) \cap {o})
      BY ONLY <1>5, <2>1, TotalParts
    <3>3. Total(d.obj, {o}) = SizeOf(e)
      BY <1>5, <2>1, TotalParts
    <3> QED
      BY <2>3, <3>1, <3>2, <3>3
  <2>5. Total(O, R) = Total(O, rest) + SizeOf(O[o])
    <3>1. Total(O, R) = Total(O, R \ {o}) + Total(O, R \cap {o})
      BY ONLY <1>1, <1>2, <2>1, TotalParts
    <3>2. CASE o \in R
      <4>1. R \cap {o} = {o}
        BY <3>2
      <4>2. Total(O, {o}) = SizeOf(O[o])
        BY <1>1, <2>1, TotalParts
      <4> QED
        BY <3>1, <4>1, <4>2
    <3>3. CASE o \notin R
      <4>1. R \cap {o} = {}
        BY <3>3
      <4>2. Total(O, {}) = 0
        BY <1>1, <2>1, TotalParts
      <4>3. SizeOf(O[o]) = 0
        BY <1>1, <3>3 DEF ListOK, SizeOf, R
      <4> QED
        BY <3>1, <4>1, <4>2, <4>3
    <3> QED
      BY <3>2, <3>3
  <2>6. d.size = c.size - SizeOf(O[o]) + SizeOf(e) /\ c.size = Total(O, R)
    BY <1>1 DEF O
  <2> HIDE DEF rest
  <2> QED
    BY <2>2, <2>4, <2>5, <2>6
<1>8. Exact(d)
  BY <1>4, <1>6, <1>7 DEF Exact, CacheOK
<1>9. ASSUME o \in R PROVE Len(d.lru) = Len(L)
  <2>1. Range(d.lru) = R
    BY <1>4, <1>9
  <2> QED
    BY <1>1, <1>6, <2>1, ListedFinite DEF R
<1> QED
  BY <1>8, <1>9 DEF L, R

\* Set: an object of the file, or a free one when there is none.
LEMMA StoredExact ==
  ASSUME Exact(Cache), NEW f \in StaticPaths, NEW data \in Versions, NEW ver \in Versions,
         NEW o \in Target(f)
  PROVE  LET d == Stored(f, data, ver, o) IN Exact(d) /\ Limited(d.lru, d.size)
<1> DEFINE e == [path |-> f, data |-> data, ver |-> ver, age |-> 0]
           c == [Cache EXCEPT !.obj[o] = e, !.size = @ - SizeOf(obj[o]) + SizeOf(e)]
           d == MovedToFront(c, o)
<1>1. Stored(f, data, ver, o) = Evicted(d)
  BY DEF Stored
<1>2. /\ Cache.obj = obj /\ Cache.lru = lru /\ Cache.size = size
      /\ obj \in Heaps /\ OneEntry(obj)
  BY DEF Cache, Exact, CacheOK, ListOK
<1>3. e \in CacheEntries /\ e.path = f /\ e.path # StaticNone
  BY ServedLong, StaticAssumption DEF CacheEntries
<1>4. /\ d.obj = [obj EXCEPT ![o] = e] /\ d.lru = <<o>> \o Unlisted(lru, {o})
      /\ d.size = size - SizeOf(obj[o]) + SizeOf(e)
  <2>1. d.obj = [obj EXCEPT ![o] = e]
    BY DEF MovedToFront, Cache
  <2>2. d.lru = <<o>> \o Unlisted(lru, {o})
    BY DEF MovedToFront, Cache
  <2>3. d.size = size - SizeOf(obj[o]) + SizeOf(e)
    <3> HIDE DEF e
    <3> QED
      BY DEF MovedToFront, Cache
  <2> QED
    BY <2>1, <2>2, <2>3
<1> HIDE DEF c, d, e
<1>5. o \in Objs /\ \A x \in Objs : obj[x].path = e.path => x = o
  BY <1>2, <1>3 DEF Target, Entry, OneEntry
<1>6. Exact(d)
  <2>1. /\ d.obj = [Cache.obj EXCEPT ![o] = e] /\ d.lru = <<o>> \o Unlisted(Cache.lru, {o})
        /\ d.size = Cache.size - SizeOf(Cache.obj[o]) + SizeOf(e)
        /\ \A x \in Objs : Cache.obj[x].path = e.path => x = o
    BY <1>2, <1>4, <1>5, Zenon
  <2>2. o \in Objs /\ e \in CacheEntries /\ e.path # StaticNone
    BY <1>3, <1>5
  <2>3. Exact(d) /\ (o \in Range(Cache.lru) => Len(d.lru) = Len(Cache.lru))
    <3>1. PlacedIn(Cache, o, e, d)
      BY ONLY <2>1, <2>2 DEF PlacedIn
    <3> QED
      BY ONLY Exact(Cache), <2>2, <3>1, PlacedExact
  <2> QED
    BY <2>3
<1> QED
  BY <1>1, <1>6, EvictedExact

\* RefreshCachedAt
LEMMA RefreshedExact ==
  ASSUME Exact(Cache), Limited(lru, size), NEW f \in StaticPaths
  PROVE  LET d == Refreshed(f) IN Exact(d) /\ Limited(d.lru, d.size)
<1>1. /\ Cache.obj = obj /\ Cache.lru = lru /\ Cache.size = size
      /\ obj \in Heaps /\ OneEntry(obj) /\ ListOK(obj, lru) /\ size = Total(obj, Range(lru))
  BY DEF Cache, Exact, CacheOK, ListOK
<1>2. CASE Entry(f) = {}
  BY <1>1, <1>2 DEF Refreshed
<1>3. CASE Entry(f) # {}
  <2> DEFINE o == CHOOSE o \in Entry(f) : TRUE
             e == [obj[o] EXCEPT !.age = 0]
             c == [Cache EXCEPT !.obj[o].age = 0]
             d == MovedToFront(c, o)
  <2>1. o \in Entry(f)
    BY <1>3
  <2>2. Refreshed(f) = d
    BY <1>3, Zenon DEF Refreshed
  <2> HIDE DEF o
  <2>3. o \in Objs /\ obj[o].path = f /\ obj[o] \in CacheEntries /\ f # StaticNone
    BY <1>1, <2>1, StaticAssumption DEF Entry, Heaps
  <2>4. e \in CacheEntries /\ e.path = f /\ e.ver = obj[o].ver /\ e.path # StaticNone
    BY <2>3, ServedLong DEF CacheEntries
  <2>5. SizeOf(e) = SizeOf(obj[o]) /\ SizeOf(e) \in Nat
    <3>1. SizeOf(e) = SizeOf(obj[o])
      <4> HIDE DEF e
      <4> QED
        BY <2>3, <2>4 DEF SizeOf
    <3>2. SizeOf(e) \in Nat
      <4> HIDE DEF e
      <4> QED
        BY <2>4, SizesNat
    <3> QED
      BY <3>1, <3>2
  <2>6. /\ d.obj = [obj EXCEPT ![o] = e] /\ d.lru = <<o>> \o Unlisted(lru, {o})
        /\ d.size = size
    <3>1. /\ c.obj = [obj EXCEPT ![o] = e] /\ c.lru = lru /\ c.size = size
          /\ c = [obj |-> c.obj, lru |-> c.lru, size |-> c.size]
      BY <1>1 DEF Cache, Heaps
    <3> HIDE DEF c, e
    <3>2. d.obj = c.obj /\ d.lru = <<o>> \o Unlisted(c.lru, {o}) /\ d.size = c.size
      BY <3>1 DEF MovedToFront
    <3> QED
      BY <3>1, <3>2
  <2> HIDE DEF c, d, e
  <2>7. \A x \in Objs : obj[x].path = e.path => x = o
    BY <1>1, <2>3, <2>4 DEF OneEntry
  <2>8. size \in Nat
    BY <1>1, ListedFinite, TotalParts
  <2>9. d.size = size - SizeOf(obj[o]) + SizeOf(e)
    BY <2>5, <2>6, <2>8
  <2>10. o \in Range(lru)
    BY <1>1, <2>3 DEF ListOK
  <2>11. Exact(d) /\ Len(d.lru) = Len(lru)
    <3>1. /\ d.obj = [Cache.obj EXCEPT ![o] = e] /\ d.lru = <<o>> \o Unlisted(Cache.lru, {o})
          /\ d.size = Cache.size - SizeOf(Cache.obj[o]) + SizeOf(e)
          /\ \A x \in Objs : Cache.obj[x].path = e.path => x = o
      BY <1>1, <2>6, <2>7, <2>9, Zenon
    <3>2. Exact(d) /\ (o \in Range(Cache.lru) => Len(d.lru) = Len(Cache.lru))
      <4>1. PlacedIn(Cache, o, e, d)
        BY ONLY <2>4, <3>1, Zenon DEF PlacedIn
      <4> QED
        BY ONLY Exact(Cache), <2>3, <2>4, <4>1, PlacedExact
    <3> QED
      BY <1>1, <2>10, <3>2
  <2> QED
    BY <2>2, <2>6, <2>11 DEF Limited
<1> QED
  BY <1>2, <1>3

-----------------------------------------------------------------------------
(* The invariant of the accounts *)

\* A request under way is at one of its files and, while it looks at an entry,
\* holds an object.
Placed(m) ==
  /\ m.pc = "idle" => m.at = 1
  /\ m.pc # "idle" => m.at \in 1..Len(m.todo)
  /\ m.pc \in {"check", "send"} => m.held \in Objs

CacheTyped ==
  /\ fs \in Trees /\ changes \in 0..MaxChanges /\ gone \in Histories
  /\ info \in [StaticPaths -> Infos \cup {StaticNone}]
  /\ staticReq \in [StaticRequests -> Readers] /\ copy \in [StaticRequests -> Copies]
  /\ \A r \in StaticRequests : Placed(staticReq[r])

CacheInv == CacheTyped /\ CacheOK(obj, lru, size) /\ Limited(lru, size)

LEMMA CacheNow ==
  ASSUME CacheInv
  PROVE  /\ Exact(Cache) /\ Limited(Cache.lru, Cache.size) /\ Limited(lru, size)
         /\ Cache.obj = obj /\ Cache.lru = lru /\ Cache.size = size
         /\ obj \in Heaps /\ ListOK(obj, lru) /\ size = Total(obj, Range(lru)) /\ size \in Nat
<1>1. /\ Cache.obj = obj /\ Cache.lru = lru /\ Cache.size = size
  BY DEF Cache
<1>2. /\ obj \in Heaps /\ ListOK(obj, lru) /\ size = Total(obj, Range(lru))
      /\ Limited(lru, size) /\ CacheOK(obj, lru, size)
  BY DEF CacheInv, CacheOK, ListOK
<1>3. size \in Nat
  BY <1>2, ListedFinite, TotalParts
<1> QED
  BY <1>1, <1>2, <1>3 DEF Exact

LEMMA CacheStart == ASSUME StaticInit PROVE CacheInv
<1>1. Idle \in Readers /\ Placed(Idle)
  <2>1. <<>> \in Seq(StaticPaths)
    OBVIOUS
  <2> QED
    BY <2>1, ServedLong DEF Idle, Readers, Versions, StaticPCs, Placed
<1>2. CacheTyped
  <2>1. fs \in Trees /\ changes \in 0..MaxChanges
    BY ServedLong DEF StaticInit, Versions, Trees
  <2>2. gone \in Histories
    BY ServedLong DEF StaticInit, Histories, Times
  <2>3. info \in [StaticPaths -> Infos \cup {StaticNone}]
    BY DEF StaticInit
  <2>4. staticReq \in [StaticRequests -> Readers] /\ \A r \in StaticRequests : Placed(staticReq[r])
    BY <1>1 DEF StaticInit
  <2>5. copy \in [StaticRequests -> Copies]
    BY ServedLong DEF StaticInit, NoCopy, Copies, Versions
  <2> QED
    BY <2>1, <2>2, <2>3, <2>4, <2>5 DEF CacheTyped
<1>3. Zeroed \in CacheEntries /\ Zeroed.path = StaticNone
  BY ZeroedEntry
<1>4. obj \in Heaps /\ (\A o \in Objs : obj[o].path = StaticNone) /\ lru = <<>> /\ size = 0
  BY <1>3 DEF StaticInit, Heaps
<1>5. ListOK(obj, lru)
  BY <1>4, EmptyList DEF ListOK, OneEntry
<1>6. size = Total(obj, Range(lru))
  <2>1. Range(lru) = {}
    BY <1>4, EmptyList
  <2>2. Total(obj, {}) = 0
    BY <1>4, FS_EmptySet, TotalParts
  <2> QED
    BY <1>4, <2>1, <2>2
<1>7. Limited(lru, size)
  BY <1>4, StaticAssumption DEF Limited
<1> QED
  BY <1>2, <1>5, <1>6, <1>7 DEF CacheInv, CacheOK

\* The sizes stay when entries age.
LEMMA AgedExact ==
  ASSUME NEW O, NEW P \in Heaps, NEW L, NEW z, CacheOK(O, L, z),
         \A o \in Objs : P[o].path = O[o].path /\ P[o].ver = O[o].ver
  PROVE  CacheOK(P, L, z)
<1>1. ListOK(O, L) /\ O \in Heaps /\ z = Total(O, Range(L))
  BY DEF CacheOK, ListOK
<1>2. ListOK(P, L)
  BY <1>1 DEF ListOK, OneEntry
<1>3. IsFiniteSet(Range(L)) /\ Range(L) \in SUBSET Objs
  BY <1>1, ListedFinite
<1>4. \A o \in Range(L) : SizeOf(P[o]) = SizeOf(O[o])
  BY <1>3 DEF SizeOf
<1>5. Total(P, Range(L)) = Total(O, Range(L))
  BY <1>1, <1>3, <1>4, TotalSame
<1> QED
  BY <1>1, <1>2, <1>5 DEF CacheOK

\* Steps that leave the cache alone.
LEMMA ApartExact ==
  ASSUME CacheInv, UNCHANGED <<fs, changes, gone, cvars>>, NEW r \in StaticRequests,
         NEW q \in Readers, staticReq' = [staticReq EXCEPT ![r] = q], Placed(q),
         info' \in [StaticPaths -> Infos \cup {StaticNone}],
         copy' \in [StaticRequests -> Copies]
  PROVE  CacheInv'
<1>1. /\ staticReq' \in [StaticRequests -> Readers]
      /\ \A x \in StaticRequests : Placed(staticReq'[x])
  BY DEF CacheInv, CacheTyped
<1>2. obj' = obj /\ lru' = lru /\ size' = size
  BY DEF cvars
<1>3. CacheTyped'
  BY <1>1 DEF CacheInv, CacheTyped
<1>4. CacheOK(obj', lru', size') /\ Limited(lru', size')
  BY <1>2 DEF CacheInv
<1> QED
  BY <1>3, <1>4 DEF CacheInv

\* Steps that use it.
LEMMA BecomesExact ==
  ASSUME CacheInv, UNCHANGED <<fs, changes, gone, info, copy>>, NEW r \in StaticRequests,
         NEW q \in Readers, Placed(q), NEW c, Becomes(c, [staticReq EXCEPT ![r] = q]),
         Exact(c), Limited(c.lru, c.size)
  PROVE  CacheInv'
<1>1. obj' = c.obj /\ lru' = c.lru /\ size' = c.size
  BY DEF Becomes
<1> DEFINE R == [staticReq EXCEPT ![r] = q]
<1>2. R \in [StaticRequests -> Readers] /\ \A x \in StaticRequests : Placed(R[x])
  BY DEF CacheInv, CacheTyped
<1>3. staticReq' = [x \in StaticRequests |-> Torn(R[x], c.obj)]
  BY DEF Becomes
<1> HIDE DEF R
<1>4. ASSUME NEW x \in StaticRequests PROVE staticReq'[x] \in Readers /\ Placed(staticReq'[x])
  <2>1. R[x] \in Readers /\ Placed(R[x]) /\ staticReq'[x] = Torn(R[x], c.obj)
    BY <1>2, <1>3
  <2>2. /\ Torn(R[x], c.obj) \in Readers /\ Torn(R[x], c.obj).pc = R[x].pc
        /\ Torn(R[x], c.obj).at = R[x].at /\ Torn(R[x], c.obj).todo = R[x].todo
        /\ Torn(R[x], c.obj).held = R[x].held
    BY <2>1, TornFields
  <2> QED
    BY <2>1, <2>2 DEF Placed
<1>5. staticReq' \in [StaticRequests -> Readers]
  BY <1>3, <1>4
<1>6. CacheTyped'
  BY <1>4, <1>5 DEF CacheInv, CacheTyped
<1>7. CacheOK(obj', lru', size') /\ Limited(lru', size')
  BY <1>1 DEF Exact
<1> QED
  BY <1>6, <1>7 DEF CacheInv

\* What a step of the request r finds.
LEMMA CurrentTyped ==
  ASSUME CacheInv, NEW r \in StaticRequests
  PROVE  /\ staticReq[r] \in Readers /\ staticReq \in [StaticRequests -> Readers]
         /\ Placed(staticReq[r]) /\ staticReq[r].ver \in Versions /\ staticReq[r].data \in Versions
         /\ staticReq[r].pc # "idle" =>
              File(r) \in StaticPaths /\ staticReq[r].at \in 1..Len(staticReq[r].todo)
         /\ staticReq[r].todo \in Seq(StaticPaths)
         /\ Client(r).body \in Versions /\ Client(r).etag \in Versions
         /\ info \in [StaticPaths -> Infos \cup {StaticNone}]
         /\ copy \in [StaticRequests -> Copies]
<1> DEFINE m == staticReq[r]
<1>1. /\ m \in Readers /\ staticReq \in [StaticRequests -> Readers] /\ Placed(m)
      /\ info \in [StaticPaths -> Infos \cup {StaticNone}]
      /\ copy \in [StaticRequests -> Copies]
  BY DEF CacheInv, CacheTyped
<1>2. m.ver \in Versions /\ m.data \in Versions /\ m.todo \in Seq(StaticPaths)
  BY <1>1 DEF Readers
<1>3. ASSUME m.pc # "idle" PROVE m.at \in 1..Len(m.todo) /\ File(r) \in StaticPaths
  <2>1. m.at \in 1..Len(m.todo)
    BY <1>1, <1>3 DEF Placed
  <2> QED
    BY <1>2, <2>1 DEF File
<1>4. Client(r).body \in Versions /\ Client(r).etag \in Versions
  BY <1>1, ServedLong DEF Client, Copies, NoCopy, Versions
<1> QED
  BY <1>1, <1>2, <1>3, <1>4

LEMMA PCsKnown ==
  /\ {"idle", "stat", "stored", "serve", "get", "check", "send", "read", "set"} \subseteq StaticPCs
  /\ {"200", "304", "404", "500"} \subseteq StaticPCs
  /\ 0 \in Versions /\ \A r : Missed(r) \in {"serve", "read"}
BY ServedLong DEF StaticPCs, Versions, Missed

\* A request that stays at its file.
LEMMA StaysPlaced ==
  ASSUME NEW m \in Readers, m.pc # "idle", Placed(m), NEW q, q.at = m.at, q.todo = m.todo,
         q.pc \notin {"idle", "check", "send"}
  PROVE  Placed(q)
BY DEF Placed

LEMMA AnsweredPlaced ==
  ASSUME CacheInv, NEW r \in StaticRequests, staticReq[r].pc # "idle",
         NEW out \in {"200", "304", "404", "500"}, NEW data \in Versions, NEW etag \in Versions
  PROVE  \E q \in Readers :
           /\ StaticAnswer(staticReq, r, out, data, etag) = [staticReq EXCEPT ![r] = q]
           /\ Placed(q)
<1> DEFINE m == staticReq[r]
           q == Answered(m, out, data, etag)
<1>1. m \in Readers /\ Placed(m) /\ staticReq \in [StaticRequests -> Readers]
  BY CurrentTyped
<1>2. out \in StaticPCs
  BY PCsKnown
<1>3. StaticAnswer(staticReq, r, out, data, etag) = [staticReq EXCEPT ![r] = q]
  BY <1>1, AnswerForm
<1>4. q \in Readers /\ q.pc = out /\ q.todo = m.todo /\ q.at = m.at
  BY <1>1, <1>2, AnsweredFields
<1> HIDE DEF q
<1>5. Placed(q)
  BY <1>1, <1>4, StaysPlaced
<1> QED
  BY <1>3, <1>4, <1>5

LEMMA MePlaced ==
  ASSUME CacheInv, NEW r \in StaticRequests, staticReq[r].pc # "idle", NEW pc \in StaticPCs,
         pc # "idle", pc \in {"check", "send"} => staticReq[r].held \in Objs
  PROVE  \E q \in Readers : Me(r, pc) = [staticReq EXCEPT ![r] = q] /\ Placed(q)
<1> DEFINE m == staticReq[r]
           q == At(m, pc)
<1>1. m \in Readers /\ Placed(m) /\ staticReq \in [StaticRequests -> Readers]
  BY CurrentTyped
<1>2. Me(r, pc) = [staticReq EXCEPT ![r] = q]
  BY <1>1, MeForm
<1>3. q \in Readers /\ q.pc = pc /\ q.todo = m.todo /\ q.at = m.at /\ q.held = m.held
  BY <1>1, AtFields
<1> HIDE DEF q
<1>4. Placed(q)
  BY <1>1, <1>3 DEF Placed
<1> QED
  BY <1>2, <1>3, <1>4

\* An action that changes the request alone.
LEMMA AloneExact ==
  ASSUME CacheInv, NEW r \in StaticRequests, UNCHANGED <<fs, changes, gone, info, cvars, copy>>,
         \E q \in Readers : staticReq' = [staticReq EXCEPT ![r] = q] /\ Placed(q)
  PROVE  CacheInv'
<1>1. PICK q \in Readers : staticReq' = [staticReq EXCEPT ![r] = q] /\ Placed(q)
  OBVIOUS
<1>2. /\ info' \in [StaticPaths -> Infos \cup {StaticNone}]
      /\ copy' \in [StaticRequests -> Copies]
  BY CurrentTyped
<1> QED
  BY <1>1, <1>2, ApartExact

LEMMA HandleExact == ASSUME CacheInv, NEW r \in StaticRequests, StaticHandle(r) PROVE CacheInv'
<1> DEFINE m == staticReq[r]
<1>1. PICK todo \in {<<f>> : f \in StaticPaths} \cup {<<First, Fallback>>}, mode \in {"std", "try"},
           cond \in Validators \cup {{}} :
        staticReq' = [staticReq EXCEPT ![r].pc = "stat", ![r].mode = mode, ![r].cond = cond,
                                       ![r].todo = todo]
  BY DEF StaticHandle
<1>2. todo \in Seq(StaticPaths) /\ Len(todo) >= 1 /\ Len(todo) \in Nat
  <2>1. CASE todo = <<First, Fallback>>
    BY <2>1, StaticAssumption
  <2>2. CASE todo \in {<<f>> : f \in StaticPaths}
    <3>1. PICK f \in StaticPaths : todo = <<f>>
      BY <2>2
    <3> QED
      BY <3>1
  <2> QED
    BY <2>1, <2>2
<1>3. m \in Readers /\ m.at = 1 /\ staticReq \in [StaticRequests -> Readers]
  BY CurrentTyped DEF StaticHandle, Placed
<1> DEFINE q == [m EXCEPT !.pc = "stat", !.mode = mode, !.cond = cond, !.todo = todo]
<1>4. staticReq' = [staticReq EXCEPT ![r] = q]
  BY <1>1, <1>3 DEF Readers
<1>5. "stat" \in StaticPCs
  BY PCsKnown
<1>6. q \in Readers /\ q.pc = "stat" /\ q.todo = todo /\ q.at = 1
  BY <1>2, <1>3, <1>5 DEF Readers
<1> HIDE DEF q
<1>7. Placed(q)
  BY <1>2, <1>6 DEF Placed
<1> QED
  BY <1>4, <1>6, <1>7, AloneExact DEF StaticHandle

LEMMA FoundPlaced ==
  ASSUME CacheInv, NEW r \in StaticRequests, staticReq[r].pc # "idle", NEW v \in Versions,
         Found(r, v)
  PROVE  \E q \in Readers : staticReq' = [staticReq EXCEPT ![r] = q] /\ Placed(q)
<1> DEFINE m == staticReq[r]
           last == m.at = Len(m.todo)
<1>1. /\ m \in Readers /\ m.pc # "idle" /\ m.at \in 1..Len(m.todo) /\ m.todo \in Seq(StaticPaths)
      /\ Placed(m) /\ staticReq \in [StaticRequests -> Readers]
  BY CurrentTyped
<1>2. /\ "stat" \in StaticPCs /\ "get" \in StaticPCs /\ "serve" \in StaticPCs /\ 0 \in Versions
  BY PCsKnown
<1>3. CASE v = 0 /\ ~last /\ staticReq' = [Me(r, "stat") EXCEPT ![r].at = @ + 1]
  <2> DEFINE n == m.at + 1
             q == [m EXCEPT !.pc = "stat", !.at = n]
  <2>1. staticReq' = [staticReq EXCEPT ![r] = q]
    BY <1>1, <1>3 DEF Me, Readers
  <2>2. n \in 1..Len(m.todo) /\ n \in Nat
    BY <1>1, <1>3
  <2> HIDE DEF n
  <2>3. q \in Readers /\ q.pc = "stat" /\ q.todo = m.todo /\ q.at = n
    BY <1>1, <1>2, <2>2 DEF Readers
  <2> HIDE DEF q
  <2>4. Placed(q)
    BY <2>2, <2>3 DEF Placed
  <2> QED
    BY <2>1, <2>3, <2>4
<1>4. CASE staticReq' = StaticAnswer(staticReq, r, "404", 0, 0)
  BY <1>2, <1>4, AnsweredPlaced
<1>5. ASSUME NEW mode \in {"direct", "std"},
             staticReq' = [Me(r, "stat") EXCEPT ![r].mode = mode]
      PROVE \E q \in Readers : staticReq' = [staticReq EXCEPT ![r] = q] /\ Placed(q)
  <2> DEFINE q == [m EXCEPT !.pc = "stat", !.mode = mode]
  <2>1. staticReq' = [staticReq EXCEPT ![r] = q]
    BY <1>1, <1>5 DEF Me, Readers
  <2>2. q \in Readers /\ q.pc = "stat" /\ q.todo = m.todo /\ q.at = m.at
    BY <1>1, <1>2 DEF Readers
  <2> HIDE DEF q
  <2>3. Placed(q)
    BY <1>1, <2>2, StaysPlaced
  <2> QED
    BY <2>1, <2>2, <2>3
<1>6. ASSUME NEW pc \in {"get", "serve"}, staticReq' = [Me(r, pc) EXCEPT ![r].ver = v]
      PROVE \E q \in Readers : staticReq' = [staticReq EXCEPT ![r] = q] /\ Placed(q)
  <2> DEFINE q == [m EXCEPT !.pc = pc, !.ver = v]
  <2>1. staticReq' = [staticReq EXCEPT ![r] = q]
    BY <1>1, <1>6 DEF Me, Readers
  <2>2. q \in Readers /\ q.pc = pc /\ q.todo = m.todo /\ q.at = m.at
    BY <1>1, <1>2 DEF Readers
  <2> HIDE DEF q
  <2>3. Placed(q)
    BY <1>1, <2>2, StaysPlaced
  <2> QED
    BY <2>1, <2>2, <2>3
<1> QED
  BY <1>3, <1>4, <1>5, <1>6, Zenon DEF Found

LEMMA StatHitExact == ASSUME CacheInv, NEW r \in StaticRequests, StatHit(r) PROVE CacheInv'
<1> DEFINE v == info[File(r)].ver
<1>1. /\ staticReq[r].pc = "stat" /\ info[File(r)] # StaticNone /\ Found(r, v)
      /\ UNCHANGED <<fs, changes, gone, info, cvars, copy>>
  BY DEF StatHit, Known
<1>2. v \in Versions
  <2>1. File(r) \in StaticPaths /\ info \in [StaticPaths -> Infos \cup {StaticNone}]
    BY <1>1, CurrentTyped
  <2>2. info[File(r)] \in Infos
    BY <1>1, <2>1
  <2> QED
    BY <2>2 DEF Infos
<1> HIDE DEF v
<1> QED
  BY <1>1, <1>2, FoundPlaced, AloneExact

LEMMA StatMissExact == ASSUME CacheInv, NEW r \in StaticRequests, StatMiss(r) PROVE CacheInv'
<1> DEFINE m == staticReq[r]
           f == File(r)
           q == [m EXCEPT !.pc = "stored", !.ver = fs[f]]
<1>1. /\ m.pc = "stat" /\ staticReq' = [Me(r, "stored") EXCEPT ![r].ver = fs[f]]
      /\ info' = [info EXCEPT ![f] = StaticNone] /\ UNCHANGED <<fs, changes, gone, cvars, copy>>
  BY DEF StatMiss
<1>2. /\ m \in Readers /\ Placed(m) /\ f \in StaticPaths
      /\ staticReq \in [StaticRequests -> Readers]
      /\ info \in [StaticPaths -> Infos \cup {StaticNone}] /\ copy \in [StaticRequests -> Copies]
  BY <1>1, CurrentTyped
<1>3. "stored" \in StaticPCs /\ fs[f] \in Versions
  BY <1>2, PCsKnown DEF CacheInv, CacheTyped, Trees
<1>4. staticReq' = [staticReq EXCEPT ![r] = q]
  BY <1>1, <1>2 DEF Me, Readers
<1>5. q \in Readers /\ q.pc = "stored" /\ q.todo = m.todo /\ q.at = m.at
  BY <1>2, <1>3 DEF Readers
<1> HIDE DEF q
<1>6. Placed(q)
  BY <1>1, <1>2, <1>5, StaysPlaced
<1>7. info' \in [StaticPaths -> Infos \cup {StaticNone}]
  BY <1>1, <1>2
<1> QED
  BY <1>1, <1>2, <1>4, <1>5, <1>6, <1>7, ApartExact

LEMMA StatSetExact == ASSUME CacheInv, NEW r \in StaticRequests, StatSet(r) PROVE CacheInv'
<1> DEFINE m == staticReq[r]
           i == [ver |-> m.ver, age |-> 0]
<1>1. /\ m.pc = "stored" /\ Found(r, m.ver) /\ info' = [info EXCEPT ![File(r)] = i]
      /\ UNCHANGED <<fs, changes, gone, cvars, copy>>
  BY DEF StatSet
<1>2. /\ m.ver \in Versions /\ info \in [StaticPaths -> Infos \cup {StaticNone}]
      /\ copy \in [StaticRequests -> Copies]
  BY CurrentTyped
<1>3. i \in Infos
  BY <1>2, ServedLong DEF Infos
<1> HIDE DEF i
<1>4. info' \in [StaticPaths -> Infos \cup {StaticNone}]
  BY <1>1, <1>2, <1>3
<1>5. PICK q \in Readers : staticReq' = [staticReq EXCEPT ![r] = q] /\ Placed(q)
  BY <1>1, <1>2, FoundPlaced
<1> QED
  BY <1>1, <1>2, <1>4, <1>5, ApartExact

LEMMA Says304 ==
  ASSUME CacheInv, NEW r \in StaticRequests, staticReq[r].pc # "idle", NEW v
  PROVE  \E data, etag \in Versions :
           Status304(staticReq, r, v) = StaticAnswer(staticReq, r, "304", data, etag)
BY CurrentTyped, PCsKnown DEF Status304, Readers

LEMMA ServeExact == ASSUME CacheInv, NEW r \in StaticRequests, StaticServe(r) PROVE CacheInv'
<1>1. /\ staticReq[r].pc = "serve" /\ UNCHANGED <<fs, changes, gone, info, cvars, copy>>
      /\ \/ \E data, etag \in Versions :
              staticReq' = StaticAnswer(staticReq, r, "304", data, etag)
         \/ \E pc \in {"read", "get"} : staticReq' = Me(r, pc)
  BY Says304 DEF StaticServe
<1>2. staticReq[r].pc # "idle"
  BY <1>1
<1>3. ASSUME NEW data \in Versions, NEW etag \in Versions,
             staticReq' = StaticAnswer(staticReq, r, "304", data, etag)
      PROVE  CacheInv'
  BY <1>1, <1>2, <1>3, AnsweredPlaced, AloneExact
<1>4. ASSUME NEW pc \in {"read", "get"}, staticReq' = Me(r, pc) PROVE CacheInv'
  <2>1. pc \in StaticPCs /\ pc \notin {"idle", "check", "send"}
    BY PCsKnown
  <2> QED
    BY <1>1, <1>4, <2>1, MePlaced, AloneExact
<1> QED
  BY <1>1, <1>3, <1>4

\* The objects of a file are in the list.
LEMMA EntryListed ==
  ASSUME CacheInv, NEW f \in StaticPaths
  PROVE  Entry(f) \in SUBSET Range(Cache.lru)
<1>1. ListOK(obj, lru) /\ Cache.lru = lru
  BY CacheNow
<1> QED
  BY <1>1, StaticAssumption DEF Entry, ListOK

\* Removing them keeps the accounts and the limits.
LEMMA DroppedExact ==
  ASSUME CacheInv, NEW S \in SUBSET Range(Cache.lru)
  PROVE  LET d == Removed(Cache, S) IN Exact(d) /\ Limited(d.lru, d.size)
<1> DEFINE d == Removed(Cache, S)
<1>1. Exact(Cache) /\ Limited(Cache.lru, Cache.size)
  BY CacheNow
<1>2. /\ Exact(d) /\ d.size \in Nat /\ Cache.size \in Nat /\ d.size <= Cache.size
      /\ Len(d.lru) <= Len(Cache.lru)
  BY <1>1, RemovedExact
<1> HIDE DEF d
<1>3. Len(d.lru) \in Nat /\ Len(Cache.lru) \in Nat /\ MaxEntries \in Nat /\ MaxSize \in Nat
  BY <1>1, <1>2, ListedFinite, StaticAssumption DEF Exact, CacheOK
<1>4. Limited(d.lru, d.size)
  BY <1>1, <1>2, <1>3 DEF Limited
<1> QED
  BY <1>2, <1>4 DEF d

LEMMA GetMissExact == ASSUME CacheInv, NEW r \in StaticRequests, GetMiss(r) PROVE CacheInv'
<1>1. staticReq[r].pc = "get" /\ UNCHANGED <<fs, changes, gone, info, copy>>
  BY DEF GetMiss
<1>2. PICK S \in SUBSET Entry(File(r)) : Becomes(Removed(Cache, S), Me(r, Missed(r)))
  BY DEF GetMiss
<1> DEFINE c == Removed(Cache, S)
           pc == Missed(r)
<1>3. Exact(c) /\ Limited(c.lru, c.size)
  <2>1. File(r) \in StaticPaths
    BY <1>1, CurrentTyped
  <2>2. S \in SUBSET Range(Cache.lru)
    BY <2>1, EntryListed
  <2> QED
    BY <2>2, DroppedExact
<1>4. pc \in StaticPCs /\ pc \notin {"idle", "check", "send"}
  BY PCsKnown
<1>5. Becomes(c, Me(r, pc))
  BY <1>2
<1> HIDE DEF c, pc
<1>6. PICK q \in Readers : Me(r, pc) = [staticReq EXCEPT ![r] = q] /\ Placed(q)
  BY <1>1, <1>4, MePlaced
<1> QED
  BY <1>1, <1>3, <1>5, <1>6, BecomesExact

LEMMA GetHitExact == ASSUME CacheInv, NEW r \in StaticRequests, GetHit(r) PROVE CacheInv'
<1> DEFINE m == staticReq[r]
<1>1. m.pc = "get" /\ UNCHANGED <<fs, changes, gone, info, cvars, copy>>
  BY DEF GetHit
<1>2. PICK o \in Entry(File(r)) :
        staticReq' = [Me(r, "check") EXCEPT ![r].held = o, ![r].torn = FALSE]
  BY DEF GetHit
<1>3. o \in Objs
  BY DEF Entry
<1>4. m \in Readers /\ Placed(m) /\ staticReq \in [StaticRequests -> Readers]
  BY CurrentTyped
<1> DEFINE q == [m EXCEPT !.pc = "check", !.held = o, !.torn = FALSE]
<1>5. staticReq' = [staticReq EXCEPT ![r] = q]
  BY <1>2, <1>4 DEF Me, Readers
<1>6. "check" \in StaticPCs
  BY PCsKnown
<1>7. q \in Readers /\ q.pc = "check" /\ q.todo = m.todo /\ q.at = m.at /\ q.held = o
  BY <1>3, <1>4, <1>6 DEF Readers
<1> HIDE DEF q
<1>8. Placed(q)
  BY <1>1, <1>3, <1>4, <1>7 DEF Placed
<1> QED
  BY <1>1, <1>5, <1>7, <1>8, AloneExact

LEMMA ValidateExact ==
  ASSUME CacheInv, NEW r \in StaticRequests, StaticValidate(r)
  PROVE  CacheInv'
<1> DEFINE m == staticReq[r]
           f == File(r)
<1>1. m.pc = "check" /\ UNCHANGED <<fs, changes, gone, info, copy>>
  BY DEF StaticValidate
<1>2. /\ m \in Readers /\ Placed(m) /\ f \in StaticPaths
      /\ staticReq \in [StaticRequests -> Readers]
  BY <1>1, CurrentTyped
<1>3. ASSUME NEW v, Becomes(Cache, Status304(staticReq, r, v)) PROVE CacheInv'
  <2>0. PICK data, etag \in Versions :
          Status304(staticReq, r, v) = StaticAnswer(staticReq, r, "304", data, etag)
    BY <1>1, Says304
  <2>1. PICK q \in Readers : Status304(staticReq, r, v) = [staticReq EXCEPT ![r] = q] /\ Placed(q)
    BY <1>1, <1>2, <2>0, AnsweredPlaced
  <2> QED
    BY <1>1, <1>3, <2>1, CacheNow, BecomesExact
<1>4. ASSUME NEW c \in {Cache, Refreshed(f)}, Becomes(c, Me(r, "send")) PROVE CacheInv'
  <2>1. m.held \in Objs
    BY <1>1, <1>2 DEF Placed
  <2>2. PICK q \in Readers : Me(r, "send") = [staticReq EXCEPT ![r] = q] /\ Placed(q)
    BY <1>1, <2>1, MePlaced, PCsKnown
  <2>3. Exact(c) /\ Limited(c.lru, c.size)
    BY <1>2, CacheNow, RefreshedExact
  <2> QED
    BY <1>1, <1>4, <2>2, <2>3, BecomesExact
<1>5. CASE Becomes(Removed(Cache, Entry(f)),
                   [Me(r, Missed(r)) EXCEPT ![r].held = StaticNone, ![r].torn = FALSE])
  <2> DEFINE c == Removed(Cache, Entry(f))
             pc == Missed(r)
             q == [m EXCEPT !.pc = pc, !.held = StaticNone, !.torn = FALSE]
  <2>1. pc \in StaticPCs /\ pc \notin {"idle", "check", "send"}
    BY PCsKnown
  <2>2. Exact(c) /\ Limited(c.lru, c.size)
    BY <1>2, EntryListed, DroppedExact
  <2>3. Becomes(c, [Me(r, pc) EXCEPT ![r].held = StaticNone, ![r].torn = FALSE])
    BY <1>5
  <2> HIDE DEF c, pc
  <2>4. [Me(r, pc) EXCEPT ![r].held = StaticNone, ![r].torn = FALSE] = [staticReq EXCEPT ![r] = q]
    BY <1>2 DEF Me, Readers
  <2>5. q \in Readers /\ q.pc = pc /\ q.todo = m.todo /\ q.at = m.at
    BY <1>2, <2>1 DEF Readers
  <2> HIDE DEF q
  <2>6. Placed(q)
    BY <1>1, <1>2, <2>1, <2>5, StaysPlaced
  <2> QED
    BY <1>1, <2>2, <2>3, <2>4, <2>5, <2>6, BecomesExact
<1> QED
  BY <1>3, <1>4, <1>5, Zenon DEF StaticValidate

LEMMA SendExact == ASSUME CacheInv, NEW r \in StaticRequests, StaticSend(r) PROVE CacheInv'
<1> DEFINE m == staticReq[r]
           e == obj[m.held]
           b == m.torn \/ e.path # File(r)
           a == Answered(m, "200", e.data, e.ver)
           q == [a EXCEPT !.torn = b]
<1>1. /\ m.pc = "send" /\ UNCHANGED <<fs, changes, gone, info, cvars, copy>>
      /\ staticReq' = [StaticAnswer(staticReq, r, "200", e.data, e.ver) EXCEPT
                         ![r].torn = @ \/ e.path # File(r)]
  BY DEF StaticSend
<1>2. m \in Readers /\ Placed(m) /\ staticReq \in [StaticRequests -> Readers]
  BY CurrentTyped
<1>3. e.data \in Versions /\ e.ver \in Versions
  <2>1. m.held \in Objs /\ obj \in Heaps
    BY <1>1, <1>2, CacheNow DEF Placed
  <2> QED
    BY <2>1 DEF Heaps, CacheEntries
<1>4. "200" \in StaticPCs
  BY PCsKnown
<1>5. /\ a \in Readers /\ a.pc = "200" /\ a.todo = m.todo /\ a.at = m.at
      /\ a.torn = m.torn
  <2>1. \A d, v \in Versions :
          /\ Answered(m, "200", d, v) \in Readers /\ Answered(m, "200", d, v).pc = "200"
          /\ Answered(m, "200", d, v).todo = m.todo /\ Answered(m, "200", d, v).at = m.at
    BY <1>2, <1>4, AnsweredFields
  <2>2. \A d, v : Answered(m, "200", d, v).torn = m.torn
    BY <1>2 DEF Answered, Readers
  <2> QED
    BY <1>3, <2>1, <2>2, Zenon
<1>6. StaticAnswer(staticReq, r, "200", e.data, e.ver) = [staticReq EXCEPT ![r] = a]
  <2>1. ASSUME NEW d, NEW v
        PROVE  StaticAnswer(staticReq, r, "200", d, v)
                 = [staticReq EXCEPT ![r] = Answered(m, "200", d, v)]
    BY <1>2, AnswerForm
  <2> QED
    BY <2>1, Zenon
<1>7. b \in BOOLEAN
  BY <1>2, Zenon DEF Readers
<1> HIDE DEF a
<1>8. staticReq' = [staticReq EXCEPT ![r] = q]
  <2>1. staticReq' = [staticReq EXCEPT ![r] = [a EXCEPT !.torn = @ \/ e.path # File(r)]]
    BY <1>1, <1>2, <1>6
  <2>2. [a EXCEPT !.torn = @ \/ e.path # File(r)] = q
    BY <1>5, Zenon
  <2> QED
    BY <2>1, <2>2
<1> HIDE DEF b
<1>9. q \in Readers /\ q.pc = "200" /\ q.todo = m.todo /\ q.at = m.at
  BY <1>5, <1>7 DEF Readers
<1> HIDE DEF q
<1>10. Placed(q)
  BY <1>1, <1>2, <1>9, StaysPlaced
<1> QED
  BY <1>1, <1>8, <1>9, <1>10, AloneExact

LEMMA ReadExact == ASSUME CacheInv, NEW r \in StaticRequests, Read(r) PROVE CacheInv'
<1> DEFINE m == staticReq[r]
           f == File(r)
           q == [m EXCEPT !.pc = "set", !.data = fs[f]]
<1>1. m.pc = "read" /\ UNCHANGED <<fs, changes, gone, info, cvars, copy>>
  BY DEF Read
<1>2. /\ m \in Readers /\ Placed(m) /\ f \in StaticPaths
      /\ staticReq \in [StaticRequests -> Readers]
  BY <1>1, CurrentTyped
<1>3. CASE staticReq' = StaticAnswer(staticReq, r, "500", 0, 0)
  BY <1>1, <1>3, PCsKnown, AnsweredPlaced, AloneExact
<1>4. CASE staticReq' = [Me(r, "set") EXCEPT ![r].data = fs[f]]
  <2>1. "set" \in StaticPCs /\ fs[f] \in Versions
    BY <1>2, PCsKnown DEF CacheInv, CacheTyped, Trees
  <2>2. staticReq' = [staticReq EXCEPT ![r] = q]
    BY <1>2, <1>4 DEF Me, Readers
  <2>3. q \in Readers /\ q.pc = "set" /\ q.todo = m.todo /\ q.at = m.at
    BY <1>2, <2>1 DEF Readers
  <2> HIDE DEF q
  <2>4. Placed(q)
    BY <1>1, <1>2, <2>3, StaysPlaced
  <2> QED
    BY <1>1, <2>2, <2>3, <2>4, AloneExact
<1> QED
  BY <1>3, <1>4, Zenon DEF Read

LEMMA StoreExact == ASSUME CacheInv, NEW r \in StaticRequests, Store(r) PROVE CacheInv'
<1> DEFINE m == staticReq[r]
           f == File(r)
<1>1. m.pc = "set" /\ UNCHANGED <<fs, changes, gone, info, copy>>
  BY DEF Store
<1>2. PICK o \in Target(f) : Becomes(Stored(f, m.data, m.ver, o),
                                     StaticAnswer(staticReq, r, "200", m.data, m.ver))
  BY DEF Store
<1>3. f \in StaticPaths /\ m.data \in Versions /\ m.ver \in Versions
  BY <1>1, CurrentTyped
<1> DEFINE c == Stored(f, m.data, m.ver, o)
<1>4. Exact(c) /\ Limited(c.lru, c.size)
  BY <1>3, CacheNow, StoredExact
<1>5. PICK q \in Readers :
        StaticAnswer(staticReq, r, "200", m.data, m.ver) = [staticReq EXCEPT ![r] = q] /\ Placed(q)
  BY <1>1, <1>3, AnsweredPlaced
<1>6. Becomes(c, [staticReq EXCEPT ![r] = q])
  BY <1>2, <1>5
<1> HIDE DEF c
<1> QED
  BY <1>1, <1>4, <1>5, <1>6, BecomesExact

LEMMA LargeExact == ASSUME CacheInv, NEW r \in StaticRequests, SendLarge(r) PROVE CacheInv'
<1> DEFINE m == staticReq[r]
<1>1. /\ m.pc = "set" /\ UNCHANGED <<fs, changes, gone, info, cvars, copy>>
      /\ staticReq' = StaticAnswer(staticReq, r, "200", m.data, m.ver)
  BY DEF SendLarge
<1>2. m.data \in Versions /\ m.ver \in Versions
  BY CurrentTyped
<1> QED
  BY <1>1, <1>2, AnsweredPlaced, AloneExact

LEMMA LeaveExact == ASSUME CacheInv, NEW r \in StaticRequests, StaticLeave(r) PROVE CacheInv'
<1> DEFINE m == staticReq[r]
           b == [body |-> m.data, etag |-> m.etag, since |-> m.ver]
<1>1. /\ staticReq' = [staticReq EXCEPT ![r] = Idle] /\ UNCHANGED <<fs, changes, gone, info, cvars>>
      /\ copy' = copy \/ copy' = [copy EXCEPT ![r] = b]
  BY Zenon DEF StaticLeave
<1>2. Idle \in Readers /\ Placed(Idle)
  <2>1. <<>> \in Seq(StaticPaths)
    OBVIOUS
  <2> QED
    BY <2>1, ServedLong DEF Idle, Readers, Versions, StaticPCs, Placed
<1>3. /\ m \in Readers /\ info \in [StaticPaths -> Infos \cup {StaticNone}]
      /\ copy \in [StaticRequests -> Copies]
  BY CurrentTyped
<1>4. b \in Copies
  <2>1. m.data \in Versions /\ m.etag \in Versions /\ m.ver \in Versions /\ 0 \in Versions
    BY <1>3, PCsKnown DEF Readers
  <2> QED
    BY <2>1 DEF Copies
<1> HIDE DEF b
<1>5. copy' \in [StaticRequests -> Copies]
  BY <1>1, <1>3, <1>4
<1> QED
  BY <1>1, <1>2, <1>3, <1>5, ApartExact

\* A change of a file.
LEMMA ChangeExact ==
  ASSUME CacheInv, NEW f \in StaticPaths, Write(f) \/ Delete(f)
  PROVE  CacheInv'
<1>1. /\ fs \in Trees /\ changes \in 0..MaxChanges /\ gone \in Histories
  BY DEF CacheInv, CacheTyped
<1>2. /\ changes < MaxChanges /\ changes' = changes + 1
      /\ UNCHANGED <<info, cvars, staticReq, copy>>
  BY DEF Write, Delete
<1>3. PICK v \in {0, changes + 2} : fs' = [fs EXCEPT ![f] = v] /\ gone' = [gone EXCEPT ![f][v] = 0]
  <2>1. changes' + 1 = changes + 2
    BY <1>1, <1>2, ServedLong
  <2> QED
    BY <2>1 DEF Write, Delete
<1>4. v \in Versions /\ changes' \in 0..MaxChanges /\ 0 \in Times
  BY <1>1, <1>2, ServedLong DEF Versions, Times
<1>5. fs' \in Trees
  BY <1>1, <1>3, <1>4 DEF Trees
<1>6. gone' \in Histories
  BY <1>1, <1>3, <1>4 DEF Histories
<1>7. obj' = obj /\ lru' = lru /\ size' = size
  BY <1>2 DEF cvars
<1>8. CacheTyped'
  BY <1>2, <1>4, <1>5, <1>6 DEF CacheInv, CacheTyped
<1> QED
  BY <1>7, <1>8 DEF CacheInv

\* Time passes: entries age, and their sizes stay.
LEMMA TickExact == ASSUME CacheInv, StaticTick PROVE CacheInv'
<1>1. /\ fs \in Trees /\ changes \in 0..MaxChanges /\ gone \in Histories
      /\ info \in [StaticPaths -> Infos \cup {StaticNone}]
      /\ staticReq \in [StaticRequests -> Readers] /\ copy \in [StaticRequests -> Copies]
      /\ \A r \in StaticRequests : Placed(staticReq[r])
  BY DEF CacheInv, CacheTyped
<1>2. obj \in Heaps /\ CacheOK(obj, lru, size) /\ Limited(lru, size)
  BY CacheNow DEF CacheInv
<1>3. UNCHANGED <<fs, changes, lru, size, copy>>
  BY DEF StaticTick
<1>4. gone' \in Histories
  <2>1. ASSUME NEW f \in StaticPaths, NEW v \in Versions
        PROVE  (IF v = fs[f] THEN 0 ELSE Older(gone[f][v], Bound + 1)) \in Times
    <3>1. gone[f][v] \in Nat /\ Bound \in Nat
      BY <1>1, HistoryNat, ServedLong
    <3> DEFINE a == gone[f][v]
    <3> HIDE DEF a
    <3>2. Older(a, Bound + 1) \in 0..(Bound + 1)
      BY ONLY <3>1, OlderBelow DEF a
    <3>3. 0 \in Times
      BY <3>1 DEF Times
    <3> QED
      BY <3>2, <3>3 DEF Times, a
  <2> QED
    BY <2>1 DEF StaticTick, Histories
<1>5. info' \in [StaticPaths -> Infos \cup {StaticNone}]
  <2>1. ASSUME NEW i \in Infos PROVE [i EXCEPT !.age = Older(@, TTL + 1)] \in Infos
    <3>1. i.age \in Nat /\ TTL \in Nat
      BY ServedLong DEF Infos
    <3>2. Older(i.age, TTL + 1) \in 0..(TTL + 1)
      BY <3>1, OlderBelow
    <3> QED
      BY <3>2 DEF Infos
  <2> QED
    BY <1>1, <2>1 DEF StaticTick
<1>6. /\ obj' \in Heaps
      /\ \A o \in Objs : obj'[o].path = obj[o].path /\ obj'[o].ver = obj[o].ver
  <2>1. ASSUME NEW e \in CacheEntries
        PROVE  LET d == [e EXCEPT !.age = Older(@, TTL)] IN
               d \in CacheEntries /\ d.path = e.path /\ d.ver = e.ver
    <3>1. e.age \in Nat /\ TTL \in Nat
      BY ServedLong DEF CacheEntries
    <3>2. Older(e.age, TTL) \in 0..TTL
      BY <3>1, OlderBelow
    <3> QED
      BY <3>2 DEF CacheEntries
  <2>2. ASSUME NEW o \in Objs
        PROVE  /\ obj'[o] \in CacheEntries /\ obj'[o].path = obj[o].path
               /\ obj'[o].ver = obj[o].ver
    <3>1. obj[o] \in CacheEntries
      BY <1>2 DEF Heaps
    <3>2. obj'[o] = [obj[o] EXCEPT !.age = Older(@, TTL)] \/ obj'[o] = obj[o]
      BY DEF StaticTick
    <3> QED
      BY <2>1, <3>1, <3>2
  <2> QED
    BY <2>2 DEF StaticTick, Heaps
<1>7. ASSUME NEW r \in StaticRequests PROVE staticReq'[r] \in Readers /\ Placed(staticReq'[r])
  <2> DEFINE m == staticReq[r]
             q == [m EXCEPT !.ticks = @ + 1]
  <2>1. m \in Readers /\ Placed(m)
    BY <1>1
  <2>2. CASE staticReq'[r] = m
    BY <2>1, <2>2
  <2>3. CASE staticReq'[r] = q /\ m.ticks < MaxSpan
    <3>1. m.ticks + 1 \in 0..MaxSpan
      <4>1. MaxSpan \in Nat /\ m.ticks \in 0..MaxSpan /\ m.ticks < MaxSpan
        BY <2>1, <2>3, ServedLong DEF Readers
      <4> HIDE DEF m
      <4> QED
        BY ONLY <4>1
    <3>2. /\ q \in Readers /\ q.pc = m.pc /\ q.at = m.at /\ q.todo = m.todo /\ q.held = m.held
      BY <2>1, <3>1 DEF Readers
    <3> HIDE DEF q
    <3> QED
      BY <2>1, <2>3, <3>2 DEF Placed
  <2> QED
    BY <2>2, <2>3 DEF StaticTick
<1>8. staticReq' \in [StaticRequests -> Readers]
  BY <1>7 DEF StaticTick
<1>9. CacheTyped'
  BY <1>1, <1>3, <1>4, <1>5, <1>7, <1>8 DEF CacheTyped
<1>10. CacheOK(obj', lru', size') /\ Limited(lru', size')
  BY <1>2, <1>3, <1>6, AgedExact
<1> QED
  BY <1>9, <1>10 DEF CacheInv

LEMMA CacheNext == ASSUME CacheInv, [StaticNext]_staticVars PROVE CacheInv'
<1>1. ASSUME NEW r \in StaticRequests, Step(r) PROVE CacheInv'
  BY <1>1, HandleExact, StatHitExact, StatMissExact, StatSetExact, ServeExact, GetMissExact,
     GetHitExact, ValidateExact, SendExact, ReadExact, StoreExact, LargeExact, LeaveExact DEF Step
<1>2. ASSUME NEW f \in StaticPaths, Write(f) \/ Delete(f) PROVE CacheInv'
  BY <1>2, ChangeExact
<1>3. CASE StaticTick
  BY <1>3, TickExact
<1>4. CASE UNCHANGED staticVars
  <2>1. /\ fs' = fs /\ changes' = changes /\ gone' = gone /\ info' = info /\ obj' = obj
        /\ lru' = lru /\ size' = size /\ staticReq' = staticReq /\ copy' = copy
    BY <1>4 DEF staticVars, cvars
  <2> QED
    BY <2>1, Zenon DEF CacheInv, CacheTyped
<1> QED
  BY <1>1, <1>2, <1>3, <1>4 DEF StaticNext

LEMMA CacheImplied == ASSUME CacheInv PROVE CacheExact
<1>1. /\ obj \in Heaps /\ lru \in Seq(Objs) /\ Distinct(lru) /\ OneEntry(obj) /\ size \in Nat
      /\ size = Total(obj, Range(lru)) /\ Limited(lru, size)
      /\ \A o \in Objs : obj[o].path # StaticNone <=> o \in Range(lru)
  BY CacheNow DEF ListOK
<1>2. StaticTypeOK
  <2>1. \A r \in StaticRequests : staticReq[r].held \in Objs \cup {StaticNone}
    BY DEF CacheInv, CacheTyped, Readers
  <2> QED
    BY <1>1, <2>1 DEF CacheInv, CacheTyped, StaticTypeOK, Trees, Histories, Times, Infos, Heaps,
                      CacheEntries
<1>3. IsInjective(lru)
  BY <1>1, DistinctIsInjective
<1>4. ASSUME NEW f \in StaticPaths PROVE Cardinality(Entry(f)) <= 1
  <2>1. CASE Entry(f) = {}
    BY <2>1, FS_EmptySet
  <2>2. CASE Entry(f) # {}
    <3>1. PICK o \in Entry(f) : TRUE
      BY <2>2
    <3>2. Entry(f) = {o}
      BY <1>1, <3>1, StaticAssumption DEF Entry, OneEntry
    <3> QED
      BY <3>2, FS_Singleton
  <2> QED
    BY <2>1, <2>2
<1>5. /\ \A o \in Objs : (obj[o].path # StaticNone) = (o \in Entries)
      /\ size = Total(obj, Entries)
  BY <1>1 DEF Entries
<1>6. /\ MaxEntries > 0 => Len(lru) <= MaxEntries
      /\ MaxSize > 0 => size <= MaxSize
  BY <1>1 DEF Limited
<1> QED
  BY <1>2, <1>3, <1>4, <1>5, <1>6 DEF CacheExact

\* file_cache.go:261-292: whatever order stores, updates, refreshes, evictions and
\* removals come in, the list, the map and the pool agree, currentSize is the sum
\* of the sizes of what is cached, and both limits hold whenever the lock is free,
\* for any limits, files and number of clients.
THEOREM StaticCacheExact == StaticSpec => []CacheExact
<1>1. StaticInit => CacheInv
  BY CacheStart
<1>2. CacheInv /\ [StaticNext]_staticVars => CacheInv'
  BY CacheNext
<1>3. CacheInv => CacheExact
  BY CacheImplied
<1> QED
  BY <1>1, <1>2, <1>3, PTL DEF StaticSpec
=============================================================================
