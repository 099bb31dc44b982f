----------------------------- MODULE SharedDict -----------------------------
(***************************************************************************)
(* ngx.shared.DICT: lua/shared_dict.go and its methods for scripts in      *)
(* lua/api_shared_dict.go.  Every method is one critical section, except   *)
(* replace, which reads and writes in two.                                 *)
(***************************************************************************)
EXTENDS Integers, FiniteSets, SequencesExt

CONSTANTS
    DictKeys, DictCallers,
    MaxItems,
    MaxNumber    \* bound: what incr counts to

ASSUME DictAssumption == MaxItems \in Nat \ {0} /\ MaxNumber \in Nat

\* A value: a number, or another text, or the empty string.
Text == MaxNumber + 1
Empty == MaxNumber + 2
DictValues == -1..Empty

VARIABLES
    data,        \* key -> [value, exp]; exp is "none", "running" or "past"
    lruList,     \* keys, the most recently used first
    replacing    \* per caller: the key replace has found, or none

dictVars == <<data, lruList, replacing>>

DictInit ==
    /\ data = << >> /\ lruList = <<>>
    /\ replacing = [c \in DictCallers |-> {}]

Stored == DOMAIN data
Past(d, k) == d[k].exp = "past"

-----------------------------------------------------------------------------
(* The map and the list, as a pair, after ... *)

\* ... deleteEntry
Without(d, k) == [m |-> Restrict(d.m, DOMAIN d.m \ {k}), l |-> RemoveFirst(d.l, k)]

\* ... MoveToFront, or PushFront for a new key
MovedToFront(d, k) == [d EXCEPT !.l = <<k>> \o RemoveFirst(d.l, k)]

\* ... evictExpired: from the back of the list to the first entry that lives
EvictedExpired(d) ==
    LET live == {i \in DOMAIN d.l : ~Past(d.m, d.l[i])}
        kept == SubSeq(d.l, 1, IF live = {} THEN 0 ELSE Max(live))
    IN [m |-> Restrict(d.m, Range(kept)), l |-> kept]

Full(d) == Cardinality(DOMAIN d.m) >= MaxItems

\* Mutant of MadeRoom: the last entry goes even after expired ones have gone.
MadeMoreRoom(d) ==
    IF ~Full(d) THEN d
    ELSE LET e == EvictedExpired(d) IN IF e.l = <<>> THEN e ELSE Without(e, Last(e.l))

\* ... what Set, Add and Incr do before they add a key
MadeRoom(d) ==
    IF ~Full(d) THEN d
    ELSE LET e == EvictedExpired(d) IN IF Full(e) THEN Without(e, Last(e.l)) ELSE e

DictPut(d, k, v, exp) ==
    LET r == IF k \in DOMAIN d.m THEN d ELSE MadeRoom(d)
        m == [j \in DOMAIN r.m \cup {k} |->
                 IF j = k THEN [value |-> v, exp |-> exp] ELSE r.m[j]]
    IN MovedToFront([r EXCEPT !.m = m], k)

Now == [m |-> data, l |-> lruList]
Becomes(d) == data' = d.m /\ lruList' = d.l

-----------------------------------------------------------------------------
(* The methods *)

DictGet(k) ==
    /\ k \in Stored
    /\ Becomes(IF Past(data, k) THEN Without(Now, k) ELSE MovedToFront(Now, k))
    /\ UNCHANGED replacing

\* set, and an assignment to the dictionary, which has no expiry
DictSet(k, v, exp) == Becomes(DictPut(Now, k, v, exp)) /\ UNCHANGED replacing

\* An expired entry that is still stored counts as one that exists.
DictAdd(k, v, exp) ==
    k \notin Stored /\ Becomes(DictPut(Now, k, v, exp)) /\ UNCHANGED replacing

\* replace reads ...
DictReplaceFinds(c, k) ==
    /\ replacing[c] = {} /\ k \in Stored /\ ~Past(data, k) /\ data[k].value # Empty
    /\ Becomes(MovedToFront(Now, k)) /\ replacing' = [replacing EXCEPT ![c] = {k}]

\* ... and writes; the key may be gone by then, and is stored again.
DictReplace(c, v, exp) ==
    \E k \in replacing[c] :
        Becomes(DictPut(Now, k, v, exp)) /\ replacing' = [replacing EXCEPT ![c] = {}]

\* Digits only: a text and a negative number are no numbers, the empty string
\* is 0.  A new key is stored even when the increment makes it negative, and
\* an entry that has expired is counted on.
IsNumber(v) == v \in 0..MaxNumber \/ v = Empty
NumberOf(v) == IF v = Empty THEN 0 ELSE v

DictIncr(k, n) ==
    LET old == IF k \in Stored THEN data[k] ELSE [value |-> 0, exp |-> "none"]
    IN /\ IsNumber(old.value) /\ NumberOf(old.value) + n \in -1..MaxNumber
       /\ Becomes(DictPut(Now, k, NumberOf(old.value) + n, old.exp))
       /\ UNCHANGED replacing

DictDelete(k) == k \in Stored /\ Becomes(Without(Now, k)) /\ UNCHANGED replacing

FlushAll == Becomes([m |-> << >>, l |-> <<>>]) /\ UNCHANGED replacing

FlushExpired == Becomes(EvictedExpired(Now)) /\ UNCHANGED replacing

\* Time passes for an entry.
DictExpire(k) ==
    /\ k \in Stored /\ data[k].exp = "running"
    /\ data' = [data EXCEPT ![k].exp = "past"] /\ UNCHANGED <<lruList, replacing>>

DictNext ==
    \/ \E k \in DictKeys : DictGet(k) \/ DictDelete(k) \/ DictExpire(k)
    \/ \E k \in DictKeys, v \in {1, Text, Empty}, exp \in {"none", "running"} :
          DictSet(k, v, exp) \/ DictAdd(k, v, exp)
    \/ \E c \in DictCallers, k \in DictKeys : DictReplaceFinds(c, k)
    \/ \E c \in DictCallers, v \in {1, Text}, exp \in {"none", "running"} :
          DictReplace(c, v, exp)
    \/ \E k \in DictKeys, n \in {-1, 1} : DictIncr(k, n)
    \/ FlushAll \/ FlushExpired

DictSpec == DictInit /\ [][DictNext]_dictVars

-----------------------------------------------------------------------------
\* The map and the list hold the same keys, each once, so that what is evicted
\* is what is stored (shared_dict.go:319-397).
DictExact ==
    /\ IsInjective(lruList) /\ Range(lruList) = Stored
    /\ \A k \in Stored : data[k].value \in DictValues
    /\ Len(lruList) <= MaxItems

Visible == {k \in Stored : ~Past(data, k)}

Abstract ==
    INSTANCE BoundedMap WITH
        MapKeys <- DictKeys, Capacity <- MaxItems, taken <- Stored,
        map <- [k \in Visible |-> data[k].value]

\* The dictionary implements a bounded map: a write never changes another key,
\* drops entries only when every place is taken, and then either expired ones or
\* one that could still be read, however calls, evictions and expiry follow each
\* other.
ImplementsMap == Abstract!MapSpec
=============================================================================
