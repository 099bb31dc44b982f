----------------------------- MODULE BoundedMap -----------------------------
(***************************************************************************)
(* What a shared dictionary promises to the scripts that use it: a map     *)
(* with at most Capacity places.  A write changes one key, and costs       *)
(* another key its value only when every place is taken and no expired     *)
(* one was given up for it.                                                *)
(***************************************************************************)
EXTENDS Integers, FiniteSets, Functions

CONSTANTS MapKeys, Capacity

VARIABLES
    map,    \* the values that can be read
    taken   \* the keys that take a place: those of map and expired ones

\* The keys of S keep their value.
Keeps(S) == S \subseteq DOMAIN map /\ Restrict(map', S) = Restrict(map, S)

MapInit == map = << >> /\ taken = {}

Write(k) ==
    /\ taken' = (taken \cap taken') \cup {k}
    /\ Cardinality(taken') <= Capacity
    /\ k \in taken \/ Cardinality(taken) < Capacity => taken \subseteq taken'
    /\ DOMAIN map' \cup {k} = (DOMAIN map \cap taken') \cup {k}
    /\ DOMAIN map \subseteq taken' \/ Cardinality(taken \ taken') = 1
    /\ Keeps(DOMAIN map' \ {k})

\* A value expires, or keys are deleted.
Forget ==
    /\ taken' \subseteq taken /\ DOMAIN map' \subseteq taken'
    /\ Keeps(DOMAIN map')

MapNext == Forget \/ \E k \in MapKeys : Write(k)

MapSpec == MapInit /\ [][MapNext]_<<map, taken>>
=============================================================================
