----------------------------- MODULE LuaProofs -----------------------------
(***************************************************************************)
(* Proofs about what a Lua script uses: the states, places and timers of   *)
(* the engine, the shared dictionaries, which implement a bounded map, the *)
(* cache of compiled scripts and the operations of a cosocket.             *)
(***************************************************************************)
EXTENDS MCLua, CountingTheorems

-----------------------------------------------------------------------------
(* The engine: states and places *)

\* The requests that NewCoroutine let in and that have not given up their state.
Admitted == {r \in Requests : pc[r] \in {"counted", "running", "at"}}
Present == {r \in Requests : pc[r] # "idle"}

\* What the pool and the counters rest on: only a running script has a state,
\* and the limit holds from NewCoroutine on.
StatesInv ==
  /\ pc \in [Requests -> {"idle", "counted", "running", "at", "refused"}]
  /\ co \in [Requests -> States \cup {None}]
  /\ activeCount \in Nat /\ pool \in Seq(States) /\ current \in Int
  /\ \A r \in Requests : co[r] # None <=> pc[r] \in {"running", "at"}
  /\ \A r, q \in Holding : co[r] = co[q] => r = q
  /\ Distinct(pool) /\ Range(pool) \cap Lent = {}
  /\ stage \notin {"closed", "nil"} => current = Len(pool) + Cardinality(Lent)
  /\ activeCount = Cardinality(Present)
  /\ Cardinality(Admitted) <= MaxCoroutines

\* Present and Admitted are finite.
LEMMA RequestsFinite ==
  /\ IsFiniteSet(Present) /\ Cardinality(Present) \in Nat
  /\ IsFiniteSet(Admitted) /\ Cardinality(Admitted) \in Nat
  /\ IsFiniteSet(Holding) /\ Cardinality(Holding) \in Nat
  /\ Present \in SUBSET Requests /\ Admitted \in SUBSET Requests
  /\ Admitted \in SUBSET Present
<1>1. /\ Present \in SUBSET Requests /\ Admitted \in SUBSET Requests
      /\ Holding \in SUBSET Requests /\ Admitted \in SUBSET Present
  BY DEF Present, Admitted, Holding
<1> QED
  BY <1>1, LuaAssumption, FS_Subset, FS_CardinalityType

\* The states that are lent are those of the requests that hold one.
LEMMA LentStates ==
  ASSUME co \in [Requests -> States \cup {None}]
  PROVE  /\ Lent \in SUBSET States /\ IsFiniteSet(Lent) /\ Cardinality(Lent) \in Nat
         /\ \A x : x \in Lent <=> \E r \in Holding : co[r] = x
         /\ Cardinality(Lent) <= Cardinality(Requests)
<1>1. \A x : x \in Lent <=> \E r \in Holding : co[r] = x
  BY DEF Lent, Holding, Range
<1>2. Lent \in SUBSET States
  BY DEF Lent, Range
<1>3. IsFiniteSet(Lent)
  BY <1>2, LuaAssumption, FS_Subset
<1>4. co \in Surjection(Requests, Range(co))
  BY DEF Range, Surjection
<1>5. IsFiniteSet(Range(co)) /\ Cardinality(Range(co)) <= Cardinality(Requests)
  <2>1. IsFiniteSet(Requests)
    BY LuaAssumption
  <2> QED
    BY <1>4, <2>1, FS_Surjection
<1>6. Lent \in SUBSET Range(co)
  BY DEF Lent
<1>7. Cardinality(Lent) <= Cardinality(Range(co)) /\ Cardinality(Lent) \in Nat
  BY <1>3, <1>5, <1>6, FS_Subset, FS_CardinalityType
<1>8. Cardinality(Range(co)) \in Nat /\ Cardinality(Requests) \in Nat
  BY <1>5, LuaAssumption, FS_CardinalityType
<1> QED
  BY <1>1, <1>2, <1>3, <1>5, <1>7, <1>8

\* A new state has an identity of its own.
LEMMA StateLeft ==
  ASSUME co \in [Requests -> States \cup {None}], pool = <<>>
  PROVE  /\ (CHOOSE l \in Unused : TRUE) \in States
         /\ (CHOOSE l \in Unused : TRUE) \notin Lent
<1>1. Unused = States \ Lent
  <2>1. Range(pool) = {}
    BY EmptyList
  <2> QED
    BY <2>1 DEF Unused
<1>2. /\ Cardinality(Requests) \in Nat /\ Cardinality(States) \in Nat
      /\ Cardinality(States) > Cardinality(Requests)
  <2>1. Cardinality(Requests) \in Nat /\ Cardinality(States) \in Nat
    BY LuaAssumption, FS_CardinalityType
  <2> QED
    BY <2>1, LuaAssumption
<1>3. Cardinality(Lent) < Cardinality(States) /\ IsFiniteSet(Lent) /\ Lent \in SUBSET States
  BY <1>2, LentStates
<1>4. Lent # States
  BY <1>2, <1>3
<1>5. \E l \in Unused : TRUE
  BY <1>1, <1>3, <1>4
<1>6. (CHOOSE l \in Unused : TRUE) \in Unused
  BY <1>5
<1> QED
  BY <1>1, <1>6

\* One request goes from one place to another.
LEMMA Moved ==
  ASSUME pc \in [Requests -> {"idle", "counted", "running", "at", "refused"}],
         NEW r \in Requests, NEW label \in {"idle", "counted", "running", "at", "refused"},
         Goto(r, label)
  PROVE  /\ pc' \in [Requests -> {"idle", "counted", "running", "at", "refused"}]
         /\ \A q \in Requests : pc'[q] = IF q = r THEN label ELSE pc[q]
         /\ Present' = IF label = "idle" THEN Present \ {r} ELSE Present \cup {r}
         /\ Admitted' = IF label \in {"counted", "running", "at"}
                        THEN Admitted \cup {r} ELSE Admitted \ {r}
<1>1. pc' \in [Requests -> {"idle", "counted", "running", "at", "refused"}]
  BY DEF Goto
<1>2. \A q \in Requests : pc'[q] = IF q = r THEN label ELSE pc[q]
  BY DEF Goto
<1> QED
  BY <1>1, <1>2 DEF Present, Admitted

\* A request is let in; the limit is met by the value that was compared.
LEMMA NewCoroutineStates ==
  ASSUME StatesInv, NEW r \in Requests, NewCoroutine(r) PROVE StatesInv'
<1> DEFINE label == IF activeCount' > MaxCoroutines THEN "refused" ELSE "counted"
<1>1. /\ pc[r] = "idle" /\ activeCount' = activeCount + 1 /\ Goto(r, label)
      /\ co' = co /\ pool' = pool /\ current' = current /\ stage' = stage
  BY DEF NewCoroutine
<1>2. /\ pc \in [Requests -> {"idle", "counted", "running", "at", "refused"}]
      /\ label \in {"idle", "counted", "running", "at", "refused"}
  BY DEF StatesInv
<1>3. /\ pc' \in [Requests -> {"idle", "counted", "running", "at", "refused"}]
      /\ \A q \in Requests : pc'[q] = IF q = r THEN label ELSE pc[q]
      /\ Present' = IF label = "idle" THEN Present \ {r} ELSE Present \cup {r}
      /\ Admitted' = IF label \in {"counted", "running", "at"}
                     THEN Admitted \cup {r} ELSE Admitted \ {r}
  BY <1>1, <1>2, Moved
<1>4. r \notin Present /\ r \notin Admitted
  BY <1>1 DEF Present, Admitted
<1>5. Cardinality(Present') = Cardinality(Present) + 1
  BY <1>3, <1>4, RequestsFinite, FS_AddElement
<1>6. Cardinality(Admitted') <= MaxCoroutines
  <2>1. CASE activeCount' > MaxCoroutines
    <3>1. Admitted' = Admitted
      BY <1>3, <1>4, <2>1
    <3> QED
      BY <3>1 DEF StatesInv
  <2>2. CASE ~(activeCount' > MaxCoroutines)
    <3>1. Admitted' \in SUBSET Present' /\ IsFiniteSet(Present') /\ Cardinality(Present') \in Nat
      BY <1>3, <1>5, <2>2, RequestsFinite, FS_AddElement
    <3>2. Cardinality(Admitted') <= Cardinality(Present') /\ IsFiniteSet(Admitted')
      BY <3>1, FS_Subset
    <3>3. Cardinality(Admitted') \in Nat
      BY <3>2, FS_CardinalityType
    <3> QED
      BY <1>1, <1>5, <2>2, <3>1, <3>2, <3>3, LuaAssumption DEF StatesInv
  <2> QED
    BY <2>1, <2>2
<1>7. activeCount' = Cardinality(Present') /\ activeCount' \in Nat
  BY <1>1, <1>5 DEF StatesInv
<1>8. Holding' = Holding /\ Lent' = Lent
  BY <1>1 DEF Holding, Lent
<1>9. \A q \in Requests : co'[q] # None <=> pc'[q] \in {"running", "at"}
  BY <1>1, <1>3 DEF StatesInv
<1> QED
  BY <1>1, <1>3, <1>6, <1>7, <1>8, <1>9 DEF StatesInv

\* A request that gives up its place, without a state.
LEMMA UncountStates ==
  ASSUME StatesInv, NEW r \in Requests, Uncount(r) PROVE StatesInv'
<1>1. /\ pc[r] = "refused" /\ activeCount' = activeCount - 1 /\ Goto(r, "idle")
      /\ co' = co /\ pool' = pool /\ current' = current /\ stage' = stage
  BY DEF Uncount
<1>2. /\ pc' \in [Requests -> {"idle", "counted", "running", "at", "refused"}]
      /\ \A q \in Requests : pc'[q] = IF q = r THEN "idle" ELSE pc[q]
      /\ Present' = Present \ {r} /\ Admitted' = Admitted \ {r}
  BY <1>1, Moved DEF StatesInv
<1>3. r \in Present /\ r \notin Admitted
  BY <1>1 DEF Present, Admitted
<1>4. Cardinality(Present') = Cardinality(Present) - 1 /\ Cardinality(Present') \in Nat
  BY <1>2, <1>3, RequestsFinite, FS_RemoveElement, FS_CardinalityType
<1>5. Admitted' = Admitted
  BY <1>2, <1>3
<1>6. Holding' = Holding /\ Lent' = Lent
  BY <1>1 DEF Holding, Lent
<1>7. \A q \in Requests : co'[q] # None <=> pc'[q] \in {"running", "at"}
  BY <1>1, <1>2 DEF StatesInv
<1>8. activeCount' = Cardinality(Present') /\ activeCount' \in Nat
  BY <1>1, <1>4 DEF StatesInv
<1> QED
  BY <1>1, <1>2, <1>5, <1>6, <1>7, <1>8 DEF StatesInv

\* A running script goes in and out of At: nothing moves but the script.
LEMMA AtStates ==
  ASSUME StatesInv, NEW r \in Requests, pc[r] \in {"running", "at"},
         Goto(r, "running") \/ Goto(r, "at"),
         UNCHANGED <<co, activeCount, pool, current, stage>>
  PROVE  StatesInv'
<1>1. PICK label \in {"running", "at"} : Goto(r, label)
  OBVIOUS
<1>2. /\ pc' \in [Requests -> {"idle", "counted", "running", "at", "refused"}]
      /\ \A q \in Requests : pc'[q] = IF q = r THEN label ELSE pc[q]
      /\ Present' = Present \cup {r} /\ Admitted' = Admitted \cup {r}
  BY <1>1, Moved DEF StatesInv
<1>3. Present' = Present /\ Admitted' = Admitted
  BY <1>2 DEF Present, Admitted
<1>4. Holding' = Holding /\ Lent' = Lent
  BY DEF Holding, Lent
<1>5. \A q \in Requests : co'[q] # None <=> pc'[q] \in {"running", "at"}
  BY <1>2 DEF StatesInv
<1> QED
  BY <1>2, <1>3, <1>4, <1>5 DEF StatesInv

\* Steps that touch no request and no state.
LEMMA StatesStay ==
  ASSUME StatesInv, UNCHANGED rvars,
         stage' \notin {"closed", "nil"} => stage \notin {"closed", "nil"}
  PROVE  StatesInv'
<1>1. /\ pc' = pc /\ co' = co /\ activeCount' = activeCount /\ pool' = pool
      /\ current' = current
  BY DEF rvars
<1>2. Present' = Present /\ Admitted' = Admitted /\ Holding' = Holding /\ Lent' = Lent
  BY <1>1 DEF Present, Admitted, Holding, Lent
<1> QED
  BY <1>1, <1>2 DEF StatesInv

\* Request r gets the state l, which nobody has.
LEMMA LentOneMore ==
  ASSUME StatesInv, NEW r \in Requests, co[r] = None,
         NEW l \in States, l \notin Lent, co' = [co EXCEPT ![r] = l]
  PROVE  /\ co' \in [Requests -> States \cup {None}]
         /\ \A q \in Requests : co'[q] = IF q = r THEN l ELSE co[q]
         /\ \A q, p \in Holding' : co'[q] = co'[p] => q = p
         /\ Lent' = Lent \cup {l} /\ Cardinality(Lent') = Cardinality(Lent) + 1
<1>1. co \in [Requests -> States \cup {None}]
  BY DEF StatesInv
<1>2. co' \in [Requests -> States \cup {None}]
  BY <1>1
<1>3. \A q \in Requests : co'[q] = IF q = r THEN l ELSE co[q]
  BY <1>1
<1>4. l # None
  BY LuaAssumption
<1>5. \A x : x \in Lent <=> \E q \in Holding : co[q] = x
  BY <1>1, LentStates
<1>6. \A x : x \in Lent' <=> \E q \in Holding' : co'[q] = x
  BY <1>2 DEF Lent, Holding, Range
<1>7. Holding' = Holding \cup {r} /\ r \notin Holding
  BY <1>3, <1>4 DEF Holding
<1>8. Lent' = Lent \cup {l}
  <2>1. ASSUME NEW x PROVE x \in Lent' <=> x \in Lent \cup {l}
    BY <1>3, <1>5, <1>6, <1>7 DEF Holding
  <2> QED
    BY <2>1
<1>9. \A q, p \in Holding' : co'[q] = co'[p] => q = p
  <2> SUFFICES ASSUME NEW q \in Holding', NEW p \in Holding', co'[q] = co'[p], q # p
               PROVE  FALSE
    OBVIOUS
  <2>1. q \in Requests /\ p \in Requests
    BY DEF Holding
  <2>2. CASE q = r
    BY <1>3, <1>5, <1>7, <2>1, <2>2
  <2>3. CASE p = r
    BY <1>3, <1>5, <1>7, <2>1, <2>3
  <2>4. CASE q # r /\ p # r
    BY <1>3, <1>7, <2>1, <2>4 DEF StatesInv
  <2> QED
    BY <2>2, <2>3, <2>4
<1>10. Cardinality(Lent') = Cardinality(Lent) + 1
  BY <1>1, <1>8, LentStates, FS_AddElement
<1> QED
  BY <1>2, <1>3, <1>8, <1>9, <1>10

\* Get: a state of the pool, a new one, or none.
LEMMA GetStates ==
  ASSUME StatesInv, NEW r \in Requests, Get(r) PROVE StatesInv'
<1>1. /\ pc[r] = "counted" /\ activeCount' = activeCount /\ stage' = stage /\ co[r] = None
      /\ stage # "nil"
  BY DEF Get, StatesInv
<1>2. r \in Present /\ r \in Admitted
  BY <1>1 DEF Present, Admitted
<1>3. ASSUME NEW l \in States, l \notin Lent, co' = [co EXCEPT ![r] = l], Goto(r, "running"),
             pool' \in Seq(States), Distinct(pool'), Range(pool') \cap (Lent \cup {l}) = {},
             current' \in Int,
             stage \notin {"closed", "nil"} => current' = Len(pool') + Cardinality(Lent) + 1
      PROVE  StatesInv'
  <2>1. /\ co' \in [Requests -> States \cup {None}]
        /\ \A q \in Requests : co'[q] = IF q = r THEN l ELSE co[q]
        /\ \A q, p \in Holding' : co'[q] = co'[p] => q = p
        /\ Lent' = Lent \cup {l} /\ Cardinality(Lent') = Cardinality(Lent) + 1
    BY <1>1, <1>3, LentOneMore
  <2>2. /\ pc' \in [Requests -> {"idle", "counted", "running", "at", "refused"}]
        /\ \A q \in Requests : pc'[q] = IF q = r THEN "running" ELSE pc[q]
        /\ Present' = Present \cup {r} /\ Admitted' = Admitted \cup {r}
    BY <1>3, Moved DEF StatesInv
  <2>3. Present' = Present /\ Admitted' = Admitted
    BY <1>2, <2>2
  <2>4. \A q \in Requests : co'[q] # None <=> pc'[q] \in {"running", "at"}
    <3>1. l # None
      BY LuaAssumption
    <3> QED
      BY <2>1, <2>2, <3>1 DEF StatesInv
  <2>5. Cardinality(Lent) \in Nat /\ Len(pool') \in Nat
    BY <1>3, LentStates DEF StatesInv
  <2>6. stage' \notin {"closed", "nil"} => current' = Len(pool') + Cardinality(Lent')
    BY <1>1, <1>3, <2>1, <2>5
  <2> QED
    BY <1>1, <1>3, <2>1, <2>2, <2>3, <2>4, <2>6 DEF StatesInv
<1>4. CASE /\ pool # <<>> /\ pool' = Front(pool)
           /\ co' = [co EXCEPT ![r] = Last(pool)]
           /\ Goto(r, "running") /\ UNCHANGED current
  <2>1. /\ Last(pool) \in Range(pool) /\ Front(pool) \in Seq(States)
        /\ Len(Front(pool)) = Len(pool) - 1 /\ Len(pool) >= 1
        /\ Distinct(Front(pool)) /\ Range(Front(pool)) = Range(pool) \ {Last(pool)}
    BY <1>4, TakenFromEnd DEF StatesInv
  <2>2. Last(pool) \in States /\ Last(pool) \notin Lent
    BY <2>1, RangeOf DEF StatesInv
  <2>3. Range(pool') \cap (Lent \cup {Last(pool)}) = {}
    BY <1>4, <2>1 DEF StatesInv
  <2>4. Cardinality(Lent) \in Nat /\ Len(pool) \in Nat
    BY LentStates DEF StatesInv
  <2>5. stage \notin {"closed", "nil"} => current' = Len(pool') + Cardinality(Lent) + 1
    BY <1>4, <2>1, <2>4 DEF StatesInv
  <2>6. current' \in Int
    BY <1>4 DEF StatesInv
  <2> QED
    BY <1>3, <1>4, <2>1, <2>2, <2>3, <2>5, <2>6
<1>5. CASE /\ pool = <<>> /\ current < MaxStates
           /\ co' = [co EXCEPT ![r] = CHOOSE l \in Unused : TRUE]
           /\ current' = current + 1 /\ Goto(r, "running") /\ UNCHANGED pool
  <2> DEFINE l == CHOOSE l \in Unused : TRUE
  <2>1. l \in States /\ l \notin Lent
    BY <1>5, StateLeft DEF StatesInv
  <2>2. pool' \in Seq(States) /\ Distinct(pool') /\ Range(pool') = {} /\ Len(pool') = 0 /\ Len(pool) = 0
    BY <1>5, EmptyList
  <2>3. Cardinality(Lent) \in Nat
    BY LentStates DEF StatesInv
  <2>4. current' \in Int
    BY <1>5 DEF StatesInv
  <2>5. stage \notin {"closed", "nil"} => current' = Len(pool') + Cardinality(Lent) + 1
    BY <1>5, <2>2, <2>3 DEF StatesInv
  <2>6. co' = [co EXCEPT ![r] = l] /\ Goto(r, "running")
    BY <1>5
  <2> HIDE DEF l
  <2> QED
    BY <1>3, <2>1, <2>2, <2>4, <2>5, <2>6
<1>6. CASE /\ Goto(r, "refused") /\ UNCHANGED <<co, pool, current>>
  <2>1. /\ pc' \in [Requests -> {"idle", "counted", "running", "at", "refused"}]
        /\ \A q \in Requests : pc'[q] = IF q = r THEN "refused" ELSE pc[q]
        /\ Present' = Present \cup {r} /\ Admitted' = Admitted \ {r}
    BY <1>6, Moved DEF StatesInv
  <2>2. Present' = Present /\ Cardinality(Admitted') <= MaxCoroutines
    <3>1. Cardinality(Admitted') = Cardinality(Admitted) - 1
      BY <1>2, <2>1, RequestsFinite, FS_RemoveElement
    <3> QED
      BY <1>2, <2>1, <3>1, RequestsFinite, LuaAssumption DEF StatesInv
  <2>3. Holding' = Holding /\ Lent' = Lent
    BY <1>6 DEF Holding, Lent
  <2>4. \A q \in Requests : co'[q] # None <=> pc'[q] \in {"running", "at"}
    BY <1>1, <1>6, <2>1 DEF StatesInv
  <2> QED
    BY <1>1, <1>6, <2>1, <2>2, <2>3, <2>4 DEF StatesInv
<1> QED
  BY <1>4, <1>5, <1>6 DEF Get

\* Put: the state goes back, or is closed when the pool is full.
LEMMA PutStates ==
  ASSUME StatesInv, NEW r \in Requests, Put(r) PROVE StatesInv'
<1> DEFINE full == Len(pool) >= MaxStates
<1>1. /\ pc[r] = "running" /\ activeCount' = activeCount /\ stage' = stage
      /\ pool' = IF full THEN pool ELSE Append(pool, co[r])
      /\ current' = IF full THEN current - 1 ELSE current
      /\ co' = [co EXCEPT ![r] = None] /\ Goto(r, "refused")
  BY DEF Put
<1>2. /\ co \in [Requests -> States \cup {None}] /\ co[r] # None /\ pool \in Seq(States)
      /\ Len(pool) \in Nat /\ MaxStates \in Nat
  BY <1>1, LuaAssumption DEF StatesInv
<1>3. \A q \in Requests : co'[q] = IF q = r THEN None ELSE co[q]
  BY <1>1, <1>2
<1>4. co' \in [Requests -> States \cup {None}]
  BY <1>1, <1>2
<1>5. Holding' = Holding \ {r} /\ r \in Holding /\ Holding \in SUBSET Requests
  BY <1>2, <1>3 DEF Holding
<1>6. \A q, p \in Holding' : co'[q] = co'[p] => q = p
  BY <1>3, <1>5 DEF StatesInv
<1>7. Lent' = Lent \ {co[r]} /\ co[r] \in Lent
  <2>1. \A x : x \in Lent <=> \E q \in Holding : co[q] = x
    BY <1>2, LentStates
  <2>2. \A x : x \in Lent' <=> \E q \in Holding' : co'[q] = x
    BY <1>4 DEF Lent, Holding, Range
  <2>3. ASSUME NEW x PROVE x \in Lent' <=> x \in Lent \ {co[r]}
    <3>1. x \in Lent' <=> \E q \in Holding \ {r} : co[q] = x
      BY <1>3, <1>5, <2>2
    <3> QED
      BY <1>5, <2>1, <3>1 DEF StatesInv
  <2> QED
    BY <1>5, <2>1, <2>3
<1>8. Cardinality(Lent') = Cardinality(Lent) - 1 /\ Cardinality(Lent) \in Nat
  BY <1>2, <1>7, LentStates, FS_RemoveElement
<1>9. co[r] \in States /\ co[r] \notin Range(pool)
  BY <1>2, <1>7 DEF StatesInv
<1>10. /\ pool' \in Seq(States) /\ Distinct(pool') /\ Range(pool') \cap Lent' = {}
       /\ Len(pool') = IF full THEN Len(pool) ELSE Len(pool) + 1
  <2>1. CASE full
    BY <1>1, <1>7, <2>1 DEF StatesInv
  <2>2. CASE ~full
    <3>1. /\ Append(pool, co[r]) \in Seq(States) /\ Len(Append(pool, co[r])) = Len(pool) + 1
          /\ Distinct(Append(pool, co[r]))
          /\ Range(Append(pool, co[r])) = Range(pool) \cup {co[r]}
      BY <1>2, <1>9, PushedBack DEF StatesInv
    <3> QED
      BY <1>1, <1>7, <2>2, <3>1 DEF StatesInv
  <2> QED
    BY <2>1, <2>2
<1>11. current' \in Int /\ (stage' \notin {"closed", "nil"} => current' = Len(pool') + Cardinality(Lent'))
  BY <1>1, <1>2, <1>8, <1>10 DEF StatesInv
<1>12. /\ pc' \in [Requests -> {"idle", "counted", "running", "at", "refused"}]
       /\ \A q \in Requests : pc'[q] = IF q = r THEN "refused" ELSE pc[q]
       /\ Present' = Present \cup {r} /\ Admitted' = Admitted \ {r}
  BY <1>1, Moved DEF StatesInv
<1>13. Present' = Present /\ Cardinality(Admitted') <= MaxCoroutines
  <2>1. r \in Present /\ r \in Admitted
    BY <1>1 DEF Present, Admitted
  <2>2. Cardinality(Admitted') = Cardinality(Admitted) - 1
    BY <1>12, <2>1, RequestsFinite, FS_RemoveElement
  <2> QED
    BY <1>12, <2>1, <2>2, RequestsFinite, LuaAssumption DEF StatesInv
<1>14. \A q \in Requests : co'[q] # None <=> pc'[q] \in {"running", "at"}
  BY <1>3, <1>12 DEF StatesInv
<1> QED
  BY <1>1, <1>4, <1>6, <1>10, <1>11, <1>12, <1>13, <1>14 DEF StatesInv

\* Close empties the pool; what is lent stays lent.
LEMMA ClosePoolStates == ASSUME StatesInv, ClosePool PROVE StatesInv'
<1>1. /\ pc' = pc /\ co' = co /\ activeCount' = activeCount /\ pool' = <<>> /\ current' = 0
      /\ stage' = "closed"
  BY DEF ClosePool
<1>2. pool' \in Seq(States) /\ Distinct(pool') /\ Range(pool') = {}
  BY <1>1, EmptyList
<1>3. Present' = Present /\ Admitted' = Admitted /\ Holding' = Holding /\ Lent' = Lent
  BY <1>1 DEF Present, Admitted, Holding, Lent
<1> QED
  BY <1>1, <1>2, <1>3 DEF StatesInv

\* NewLStatePool makes as many states as it is asked for.
LEMMA FirstStates ==
  ASSUME NEW p, p = CHOOSE q \in [1..InitialStates -> States] : IsInjective(q)
  PROVE  p \in Seq(States) /\ Distinct(p) /\ Len(p) = InitialStates
<1>1. InitialStates \in Nat /\ Cardinality(States) \in Nat /\ InitialStates <= Cardinality(States)
  <2>1. Cardinality(Requests) \in Nat /\ Cardinality(States) \in Nat
    BY LuaAssumption, FS_CardinalityType
  <2> QED
    BY <2>1, LuaAssumption
<1>2. PICK f : f \in Bijection(1..Cardinality(States), States)
  BY LuaAssumption, FS_CardinalityType DEF ExistsBijection
<1> DEFINE g == [i \in 1..InitialStates |-> f[i]]
<1>3. f \in [1..Cardinality(States) -> States] /\ \A i, j \in 1..Cardinality(States) : f[i] = f[j] => i = j
  BY <1>2 DEF Bijection, Injection, IsInjective
<1>4. \A i \in 1..InitialStates : i \in 1..Cardinality(States)
  BY <1>1
<1>5. g \in [1..InitialStates -> States] /\ IsInjective(g)
  BY <1>3, <1>4 DEF IsInjective
<1>6. p \in [1..InitialStates -> States] /\ IsInjective(p)
  BY <1>5
<1>7. p \in Seq(States) /\ Len(p) = InitialStates
  BY <1>1, <1>6
<1> QED
  BY <1>6, <1>7, DistinctIsInjective

LEMMA StatesInitial == Init => StatesInv
<1> SUFFICES ASSUME Init PROVE StatesInv
  OBVIOUS
<1>1. /\ pc = [r \in Requests |-> "idle"] /\ co = [r \in Requests |-> None]
      /\ activeCount = 0 /\ current = InitialStates
      /\ pool = CHOOSE p \in [1..InitialStates -> States] : IsInjective(p)
  BY DEF Init
<1>2. pool \in Seq(States) /\ Distinct(pool) /\ Len(pool) = InitialStates
  BY <1>1, FirstStates
<1>3. Present = {} /\ Admitted = {} /\ Holding = {} /\ Lent = {}
  BY <1>1 DEF Present, Admitted, Holding, Lent, Range
<1>4. Cardinality({}) = 0
  BY FS_EmptySet
<1>5. current = Len(pool) + Cardinality(Lent) /\ current \in Int
  BY <1>1, <1>2, <1>3, <1>4, LuaAssumption
<1>6. activeCount = Cardinality(Present) /\ Cardinality(Admitted) <= MaxCoroutines
  BY <1>1, <1>3, <1>4, LuaAssumption
<1> QED
  BY <1>1, <1>2, <1>3, <1>5, <1>6 DEF StatesInv

\* Every step keeps the states and the places accounted for.
LEMMA StatesStep == StatesInv /\ [Next]_vars => StatesInv'
<1> SUFFICES ASSUME StatesInv, [Next]_vars PROVE StatesInv'
  OBVIOUS
<1>1. ASSUME NEW r \in Requests, NewCoroutine(r) \/ Request(r) PROVE StatesInv'
  <2>1. CASE GetPanics(r) \/ PutPanics(r)
    <3>1. UNCHANGED rvars /\ stage' = stage
      BY <2>1 DEF GetPanics, PutPanics
    <3> QED
      BY <3>1, StatesStay
  <2> QED
    BY <1>1, <2>1, NewCoroutineStates, GetStates, PutStates, UncountStates DEF Request
<1>2. ASSUME NEW r \in Requests, At(r) \/ AtRefuses(r) PROVE StatesInv'
  <2>1. /\ pc[r] \in {"running", "at"} /\ (Goto(r, "running") \/ Goto(r, "at"))
        /\ UNCHANGED <<co, activeCount, pool, current, stage>>
    BY <1>2 DEF At, AtRefuses
  <2> QED
    BY <2>1, AtStates
<1>3. ASSUME NEW r \in Requests, NEW t \in Timers, AtSets(r, t) PROVE StatesInv'
  <2>1. /\ pc[r] \in {"running", "at"} /\ (Goto(r, "running") \/ Goto(r, "at"))
        /\ UNCHANGED <<co, activeCount, pool, current, stage>>
    BY <1>3 DEF AtSets
  <2> QED
    BY <2>1, AtStates
<1>4. ASSUME NEW t \in Timers, Cancel(t) \/ Timer(t) PROVE StatesInv'
  <2>1. UNCHANGED rvars /\ stage' = stage
    BY <1>4 DEF Cancel, Timer, Fire, Unlist, NoProto, Enqueue
  <2> QED
    BY <2>1, StatesStay
<1>5. CASE Scheduler
  <2>1. UNCHANGED rvars /\ stage' = stage
    BY <1>5 DEF Scheduler, Take, CallPanics, Call, Return, CallbackFails, SchedulerEnds
  <2> QED
    BY <2>1, StatesStay
<1>6. CASE CloseBegins \/ CloseQueue \/ CloseWaits \/ CloseTimesOut \/ CloseScheduler \/ CloseEnds
  <2>1. UNCHANGED rvars /\ (stage' \notin {"closed", "nil"} => stage \notin {"closed", "nil"})
    BY <1>6 DEF CloseBegins, CloseQueue, CloseWaits, CloseTimesOut, CloseScheduler, CloseEnds
  <2> QED
    BY <2>1, StatesStay
<1>7. CASE UNCHANGED vars
  <2>1. UNCHANGED rvars /\ stage' = stage
    BY <1>7 DEF vars
  <2> QED
    BY <2>1, StatesStay
<1> QED
  BY <1>1, <1>2, <1>3, <1>4, <1>5, <1>6, <1>7, ClosePoolStates DEF Next, Closing

-----------------------------------------------------------------------------
(* The engine: timers and Close *)

TimerPlaces == {"none", "armed", "firing", "removed", "queued", "ran", "done"}
Pending == {t \in Timers : tm[t] \in {"armed", "firing", "removed"}}
Queued == {t \in Timers : tm[t] = "queued"}

TimersTyped ==
  /\ tm \in [Timers -> TimerPlaces] /\ cancelled \in SUBSET Timers
  /\ early \in SUBSET cancelled /\ active \in Nat
  /\ queue \in Seq(Timers) /\ Len(queue) <= QueueSize /\ queueClosed \in BOOLEAN
  /\ sched \in {"idle", "took", "running", "ended"} /\ cur \in Timers \cup {None}
  /\ stage \in {"no", "stopping", "waiting", "drained", "pool", "closed", "nil"}
  /\ late \in BOOLEAN /\ panicked \in {"no", "state", "scheduler", "callback"}

\* A callback is in the queue or with the loop.
QueueSound ==
  /\ Distinct(queue) /\ cur \notin Range(queue)
  /\ Range(queue) \cup ({cur} \ {None}) = Queued
  /\ cur = None <=> sched \in {"idle", "ended"}

\* A loop that has ended, and a Close that has come to wait, met a closed queue.
CloseSound ==
  /\ sched = "ended" => queueClosed /\ queue = <<>>
  /\ stage \notin {"no", "stopping"} => queueClosed
  /\ QuietAfterClose

TimersInv ==
  /\ TimersTyped /\ active = Cardinality(Pending) /\ QueueSound
  /\ \A t \in early : tm[t] \in {"armed", "done"}
  /\ CloseSound

\* One timer goes from one place to another.
LEMMA TimerMoved ==
  ASSUME TimersInv, NEW t \in Timers, NEW place \in TimerPlaces,
         tm' = [tm EXCEPT ![t] = place]
  PROVE  /\ tm' \in [Timers -> TimerPlaces]
         /\ \A u \in Timers : tm'[u] = IF u = t THEN place ELSE tm[u]
         /\ Pending' = IF place \in {"armed", "firing", "removed"}
                       THEN Pending \cup {t} ELSE Pending \ {t}
         /\ Queued' = IF place = "queued" THEN Queued \cup {t} ELSE Queued \ {t}
         /\ IsFiniteSet(Pending) /\ Cardinality(Pending) \in Nat
<1>1. tm \in [Timers -> TimerPlaces]
  BY DEF TimersInv, TimersTyped
<1>2. tm' \in [Timers -> TimerPlaces] /\ \A u \in Timers : tm'[u] = IF u = t THEN place ELSE tm[u]
  BY <1>1
<1>3. Pending \in SUBSET Timers
  BY DEF Pending
<1>4. IsFiniteSet(Pending) /\ Cardinality(Pending) \in Nat
  BY <1>3, LuaAssumption, FS_Subset, FS_CardinalityType
<1> QED
  BY <1>2, <1>4 DEF Pending, Queued

\* The loop, the queue and Close are where they were.
LEMMA QueueStays ==
  ASSUME TimersInv, UNCHANGED <<queue, queueClosed, sched, cur, stage, late>>, Queued' = Queued
  PROVE  QueueSound' /\ CloseSound'
BY DEF TimersInv, QueueSound, CloseSound, QuietAfterClose

\* A timer is set.
LEMMA AtSetsTimers ==
  ASSUME TimersInv, NEW r \in Requests, NEW t \in Timers, AtSets(r, t) PROVE TimersInv'
<1>1. /\ tm[t] = "none" /\ tm' = [tm EXCEPT ![t] = "armed"] /\ active' = active + 1
      /\ UNCHANGED <<cancelled, early, queue, queueClosed, sched, cur, stage, late, panicked>>
  BY DEF AtSets, qvars
<1>2. "armed" \in TimerPlaces
  BY DEF TimerPlaces
<1>3. /\ tm' \in [Timers -> TimerPlaces]
      /\ \A u \in Timers : tm'[u] = IF u = t THEN "armed" ELSE tm[u]
      /\ Pending' = Pending \cup {t} /\ Queued' = Queued \ {t}
      /\ IsFiniteSet(Pending) /\ Cardinality(Pending) \in Nat
  BY <1>1, <1>2, TimerMoved
<1>4. t \notin Pending /\ t \notin Queued
  BY <1>1 DEF Pending, Queued
<1>5. Cardinality(Pending') = Cardinality(Pending) + 1
  BY <1>3, <1>4, FS_AddElement
<1>6. TimersTyped'
  BY <1>1, <1>3 DEF TimersInv, TimersTyped
<1>7. QueueSound' /\ CloseSound'
  BY <1>1, <1>3, <1>4, QueueStays
<1>8. \A u \in early' : tm'[u] \in {"armed", "done"}
  BY <1>1, <1>3 DEF TimersInv, TimersTyped
<1> QED
  BY <1>1, <1>3, <1>5, <1>6, <1>7, <1>8 DEF TimersInv

\* A timer that has not fired is cancelled early.
LEMMA CancelTimers == ASSUME TimersInv, NEW t \in Timers, Cancel(t) PROVE TimersInv'
<1>1. /\ tm[t] \in {"armed", "firing"} /\ cancelled' = cancelled \cup {t}
      /\ early' = early \cup (IF tm[t] = "armed" THEN {t} ELSE {})
      /\ UNCHANGED <<tm, active, queue, queueClosed, sched, cur, stage, late, panicked>>
  BY DEF Cancel, InMap, qvars
<1>2. Pending' = Pending /\ Queued' = Queued
  BY <1>1 DEF Pending, Queued
<1>3. TimersTyped'
  BY <1>1 DEF TimersInv, TimersTyped
<1>4. QueueSound' /\ CloseSound'
  BY <1>1, <1>2, QueueStays
<1>5. \A u \in early' : tm'[u] \in {"armed", "done"}
  BY <1>1 DEF TimersInv
<1> QED
  BY <1>1, <1>2, <1>3, <1>4, <1>5 DEF TimersInv

\* A timer fires or is taken from the map: it goes on or is done, unqueued.
LEMMA FireTimers ==
  ASSUME TimersInv, NEW t \in Timers, NEW place \in {"firing", "removed", "done"},
         tm[t] \in {"armed", "firing", "removed"}, tm' = [tm EXCEPT ![t] = place],
         place # "done" => t \notin early,
         active' = (IF place = "done" THEN active - 1 ELSE active),
         t \in early => tm[t] = "armed",
         UNCHANGED <<cancelled, early, queue, queueClosed, sched, cur, stage, late, panicked>>
  PROVE  TimersInv'
<1>2. place \in TimerPlaces
  BY DEF TimerPlaces
<1>3. /\ tm' \in [Timers -> TimerPlaces]
      /\ \A u \in Timers : tm'[u] = IF u = t THEN place ELSE tm[u]
      /\ Pending' = IF place = "done" THEN Pending \ {t} ELSE Pending \cup {t}
      /\ Queued' = Queued \ {t}
      /\ IsFiniteSet(Pending) /\ Cardinality(Pending) \in Nat
  BY <1>2, TimerMoved
<1>4. t \in Pending /\ t \notin Queued
  BY DEF Pending, Queued
<1>5. active' = Cardinality(Pending') /\ active' \in Nat
  <2>1. CASE place = "done"
    <3>1. Cardinality(Pending') = Cardinality(Pending) - 1 /\ Cardinality(Pending') \in Nat
      BY <1>3, <1>4, <2>1, FS_RemoveElement, FS_CardinalityType
    <3> QED
      BY <2>1, <3>1 DEF TimersInv
  <2>2. CASE place # "done"
    <3>1. Pending' = Pending
      BY <1>3, <1>4, <2>2
    <3> QED
      BY <2>2, <3>1 DEF TimersInv, TimersTyped
  <2> QED
    BY <2>1, <2>2
<1>6. TimersTyped'
  BY <1>3, <1>5 DEF TimersInv, TimersTyped
<1>7. QueueSound' /\ CloseSound'
  BY <1>3, <1>4, QueueStays
<1>8. \A u \in early' : tm'[u] \in {"armed", "done"}
  BY <1>3 DEF TimersInv, TimersTyped
<1> QED
  BY <1>5, <1>6, <1>7, <1>8 DEF TimersInv

\* The callback is queued once, or dropped.
LEMMA EnqueueTimers == ASSUME TimersInv, NEW t \in Timers, Enqueue(t) PROVE TimersInv'
<1>1. /\ tm[t] = "removed" /\ active' = active - 1
      /\ UNCHANGED <<cancelled, early, queueClosed, sched, cur, stage, late, panicked>>
  BY DEF Enqueue
<1>2. t \notin early
  BY <1>1 DEF TimersInv
<1>3. CASE queueClosed \/ Len(queue) >= QueueSize
  <2>1. tm' = [tm EXCEPT ![t] = "done"] /\ queue' = queue
    BY <1>3 DEF Enqueue
  <2> QED
    BY <1>1, <1>2, <2>1, FireTimers
<1>4. CASE ~(queueClosed \/ Len(queue) >= QueueSize)
  <2>1. tm' = [tm EXCEPT ![t] = "queued"] /\ queue' = Append(queue, t) /\ ~queueClosed
    BY <1>4 DEF Enqueue
  <2>2. "queued" \in TimerPlaces
    BY DEF TimerPlaces
  <2>3. /\ tm' \in [Timers -> TimerPlaces]
        /\ \A u \in Timers : tm'[u] = IF u = t THEN "queued" ELSE tm[u]
        /\ Pending' = Pending \ {t} /\ Queued' = Queued \cup {t}
        /\ IsFiniteSet(Pending) /\ Cardinality(Pending) \in Nat
    BY <2>1, <2>2, TimerMoved
  <2>4. t \in Pending /\ t \notin Queued
    BY <1>1 DEF Pending, Queued
  <2>5. active' = Cardinality(Pending') /\ active' \in Nat
    <3>1. Cardinality(Pending') = Cardinality(Pending) - 1 /\ Cardinality(Pending') \in Nat
      BY <2>3, <2>4, FS_RemoveElement, FS_CardinalityType
    <3> QED
      BY <1>1, <3>1 DEF TimersInv
  <2>6. t \notin Range(queue) /\ t # cur /\ t # None
    BY <2>4, LuaAssumption DEF TimersInv, QueueSound
  <2>7. /\ queue' \in Seq(Timers) /\ Len(queue') = Len(queue) + 1
        /\ Distinct(queue') /\ Range(queue') = Range(queue) \cup {t}
    BY <2>1, <2>6, PushedBack DEF TimersInv, TimersTyped, QueueSound
  <2>8. Len(queue') <= QueueSize
    <3>1. Len(queue) \in Nat /\ QueueSize \in Nat
      BY LuaAssumption DEF TimersInv, TimersTyped
    <3> QED
      BY <1>4, <2>7, <3>1
  <2>9. TimersTyped'
    BY <1>1, <2>3, <2>5, <2>7, <2>8 DEF TimersInv, TimersTyped
  <2>10. QueueSound'
    BY <1>1, <2>3, <2>6, <2>7 DEF TimersInv, QueueSound
  <2>11. CloseSound'
    <3>1. sched # "ended" /\ stage \in {"no", "stopping"}
      BY <2>1 DEF TimersInv, CloseSound
    <3> QED
      BY <1>1, <3>1 DEF CloseSound, QuietAfterClose
  <2>12. \A u \in early' : tm'[u] \in {"armed", "done"}
    BY <1>1, <1>2, <2>3 DEF TimersInv, TimersTyped
  <2> QED
    BY <2>5, <2>9, <2>10, <2>11, <2>12 DEF TimersInv
<1> QED
  BY <1>3, <1>4

LEMMA TimerTimers == ASSUME TimersInv, NEW t \in Timers, Timer(t) PROVE TimersInv'
<1>1. \A u \in early : tm[u] \in {"armed", "done"} /\ u \in cancelled
  BY DEF TimersInv, TimersTyped
<1>2. CASE Fire(t)
  <2>1. /\ tm[t] = "armed"
        /\ UNCHANGED <<cancelled, early, queue, queueClosed, sched, cur, stage, late, panicked>>
    BY <1>2 DEF Fire, qvars
  <2>2. CASE t \in cancelled
    <3>1. tm' = [tm EXCEPT ![t] = "done"] /\ active' = active - 1
      BY <1>2, <2>2 DEF Fire
    <3> QED
      BY <2>1, <3>1, FireTimers
  <2>3. CASE t \notin cancelled
    <3>1. tm' = [tm EXCEPT ![t] = "firing"] /\ active' = active /\ t \notin early
      BY <1>1, <1>2, <2>3 DEF Fire
    <3> QED
      BY <2>1, <3>1, FireTimers
  <2> QED
    BY <2>2, <2>3
<1>3. CASE Unlist(t)
  <2>1. /\ tm[t] = "firing" /\ tm' = [tm EXCEPT ![t] = "removed"] /\ active' = active
        /\ UNCHANGED <<cancelled, early, queue, queueClosed, sched, cur, stage, late, panicked>>
    BY <1>3 DEF Unlist, qvars
  <2>2. t \notin early
    BY <1>1, <2>1
  <2> QED
    BY <2>1, <2>2, FireTimers
<1>4. CASE NoProto(t)
  <2>1. /\ tm[t] = "firing" /\ tm' = [tm EXCEPT ![t] = "done"] /\ active' = active - 1
        /\ UNCHANGED <<cancelled, early, queue, queueClosed, sched, cur, stage, late, panicked>>
    BY <1>4 DEF NoProto, qvars
  <2>2. t \notin early
    BY <1>1, <2>1
  <2> QED
    BY <2>1, <2>2, FireTimers
<1> QED
  BY <1>2, <1>3, <1>4, EnqueueTimers DEF Timer

\* The loop takes a callback out of the queue and returns from it.
LEMMA SchedulerTimers == ASSUME TimersInv, Scheduler PROVE TimersInv'
<1>1. CASE Take
  <2>1. /\ sched = "idle" /\ queue # <<>> /\ sched' = "took" /\ cur' = Head(queue)
        /\ queue' = Tail(queue)
        /\ UNCHANGED <<tm, cancelled, active, early, queueClosed, stage, late, panicked>>
    BY <1>1 DEF Take, tvars
  <2>2. /\ Head(queue) \in Range(queue) /\ Tail(queue) \in Seq(Timers)
        /\ Len(Tail(queue)) = Len(queue) - 1 /\ Len(queue) \in Nat
        /\ Distinct(Tail(queue)) /\ Range(Tail(queue)) = Range(queue) \ {Head(queue)}
    <3>1. queue \in Seq(Timers) /\ Distinct(queue) /\ Len(queue) \in Nat
      BY DEF TimersInv, TimersTyped, QueueSound
    <3> QED
      BY <2>1, <3>1, TakenFromEnd
  <2>3. Head(queue) \in Timers /\ Head(queue) # None /\ cur = None
    BY <2>1, <2>2, RangeOf, LuaAssumption DEF TimersInv, TimersTyped, QueueSound
  <2>4. Queued' = Queued /\ Pending' = Pending
    BY <2>1 DEF Queued, Pending
  <2>5. QueueSound'
    BY <2>1, <2>2, <2>3, <2>4 DEF TimersInv, QueueSound
  <2>6. TimersTyped'
    <3>1. Len(queue') <= QueueSize
      BY <2>1, <2>2, LuaAssumption DEF TimersInv, TimersTyped
    <3> QED
      BY <2>1, <2>2, <2>3, <3>1 DEF TimersInv, TimersTyped
  <2>7. CloseSound'
    BY <2>1 DEF TimersInv, CloseSound, QuietAfterClose
  <2> QED
    BY <2>1, <2>4, <2>5, <2>6, <2>7 DEF TimersInv
<1>2. CASE CallPanics \/ Call \/ CallbackFails \/ SchedulerEnds
  <2>1. /\ UNCHANGED <<tm, cancelled, active, early, queue, queueClosed, cur, stage, late>>
        /\ panicked' \in {"no", "state", "scheduler", "callback"}
    BY <1>2 DEF CallPanics, Call, CallbackFails, SchedulerEnds, tvars, qvars, TimersInv, TimersTyped
  <2>2. Queued' = Queued /\ Pending' = Pending
    BY <2>1 DEF Queued, Pending
  <2>3. \/ sched' = sched
        \/ sched = "took" /\ sched' = "running"
        \/ sched = "idle" /\ sched' = "ended" /\ queueClosed /\ queue = <<>>
    BY <1>2 DEF CallPanics, Call, CallbackFails, SchedulerEnds, qvars
  <2>4. TimersTyped'
    BY <2>1, <2>3 DEF TimersInv, TimersTyped
  <2>5. QueueSound'
    BY <2>1, <2>2, <2>3 DEF TimersInv, QueueSound
  <2>6. CloseSound'
    BY <2>1, <2>3 DEF TimersInv, CloseSound, QuietAfterClose
  <2> QED
    BY <2>1, <2>2, <2>4, <2>5, <2>6 DEF TimersInv
<1>3. CASE Return
  <2>1. /\ sched = "running" /\ sched' = "idle" /\ cur' = None /\ tm' = [tm EXCEPT ![cur] = "ran"]
        /\ UNCHANGED <<cancelled, active, early, queue, queueClosed, stage, late, panicked>>
    BY <1>3 DEF Return
  <2>2. cur \in Timers /\ cur \in Queued /\ cur \notin Range(queue)
    BY <2>1 DEF TimersInv, TimersTyped, QueueSound
  <2>3. "ran" \in TimerPlaces
    BY DEF TimerPlaces
  <2>4. /\ tm' \in [Timers -> TimerPlaces]
        /\ \A u \in Timers : tm'[u] = IF u = cur THEN "ran" ELSE tm[u]
        /\ Pending' = Pending \ {cur} /\ Queued' = Queued \ {cur}
    BY <2>1, <2>2, <2>3, TimerMoved
  <2>5. Pending' = Pending /\ cur \notin early
    BY <2>2, <2>4 DEF Pending, Queued, TimersInv
  <2>6. TimersTyped'
    BY <2>1, <2>4 DEF TimersInv, TimersTyped
  <2>7. QueueSound'
    <3>1. None \notin Range(queue)
      BY RangeOf, LuaAssumption DEF TimersInv, TimersTyped
    <3> QED
      BY <2>1, <2>2, <2>4, <3>1 DEF TimersInv, QueueSound
  <2>8. CloseSound'
    BY <2>1 DEF TimersInv, CloseSound, QuietAfterClose
  <2>9. \A u \in early' : tm'[u] \in {"armed", "done"}
    BY <2>1, <2>4, <2>5 DEF TimersInv, TimersTyped
  <2> QED
    BY <2>1, <2>5, <2>6, <2>7, <2>8, <2>9 DEF TimersInv
<1> QED
  BY <1>1, <1>2, <1>3 DEF Scheduler

\* Close closes the queue before it waits, and waits for the loop.
LEMMA CloseTimers == ASSUME TimersInv, CloseBegins \/ Closing PROVE TimersInv'
<1>1. UNCHANGED <<tm, cancelled, active, early, queue, sched, cur, panicked>>
  BY DEF CloseBegins, Closing, CloseQueue, CloseWaits, CloseTimesOut, CloseScheduler,
         ClosePool, CloseEnds, tvars, qvars
<1>2. Pending' = Pending /\ Queued' = Queued
  BY <1>1 DEF Pending, Queued
<1>3. \/ stage = "no" /\ stage' = "stopping" /\ UNCHANGED <<queueClosed, late>>
      \/ stage = "stopping" /\ stage' = "waiting" /\ queueClosed' = TRUE /\ late' = late
      \/ stage = "waiting" /\ sched = "ended" /\ stage' = "drained" /\ UNCHANGED <<queueClosed, late>>
      \/ stage = "waiting" /\ stage' = "drained" /\ late' = TRUE /\ queueClosed' = queueClosed
      \/ /\ stage \in {"drained", "pool", "closed"} /\ stage' \in {"pool", "closed", "nil"}
         /\ UNCHANGED <<queueClosed, late>>
  BY DEF CloseBegins, Closing, CloseQueue, CloseWaits, CloseTimesOut, CloseScheduler,
         ClosePool, CloseEnds, tvars, qvars
<1>4. TimersTyped'
  BY <1>1, <1>3 DEF TimersInv, TimersTyped
<1>5. QueueSound'
  BY <1>1, <1>2 DEF TimersInv, QueueSound
<1>6. CloseSound'
  BY <1>1, <1>3 DEF TimersInv, CloseSound, QuietAfterClose
<1> QED
  BY <1>1, <1>2, <1>4, <1>5, <1>6 DEF TimersInv

\* Steps that touch no timer.
LEMMA TimersStay ==
  ASSUME TimersInv, UNCHANGED <<tvars, qvars, stage, late>>,
         panicked' \in {"no", "state", "scheduler", "callback"}
  PROVE  TimersInv'
<1>1. UNCHANGED <<tm, cancelled, active, early, queue, queueClosed, sched, cur, stage, late>>
  BY DEF tvars, qvars
<1>2. Pending' = Pending /\ Queued' = Queued
  BY <1>1 DEF Pending, Queued
<1>3. TimersTyped'
  BY <1>1 DEF TimersInv, TimersTyped
<1>4. QueueSound' /\ CloseSound'
  BY <1>1, <1>2, QueueStays
<1> QED
  BY <1>1, <1>2, <1>3, <1>4 DEF TimersInv

LEMMA TimersInitial == Init => TimersInv
<1> SUFFICES ASSUME Init PROVE TimersInv
  OBVIOUS
<1> USE DEF Init
<1>1. Pending = {} /\ Queued = {}
  BY DEF Pending, Queued
<1>2. Cardinality({}) = 0
  BY FS_EmptySet
<1>3. /\ queue \in Seq(Timers) /\ Len(queue) = 0 /\ Distinct(queue) /\ Range(queue) = {}
  BY EmptyList
<1>4. TimersTyped
  <2>1. tm \in [Timers -> TimerPlaces]
    BY DEF TimerPlaces
  <2>2. Len(queue) <= QueueSize
    BY <1>3, LuaAssumption
  <2> QED
    BY <1>3, <2>1, <2>2 DEF TimersTyped
<1>5. QueueSound
  BY <1>1, <1>3 DEF QueueSound
<1>6. CloseSound
  BY DEF CloseSound, QuietAfterClose
<1> QED
  BY <1>1, <1>2, <1>4, <1>5, <1>6 DEF TimersInv

\* Every step keeps the timers accounted for.
LEMMA TimersStep == TimersInv /\ [Next]_vars => TimersInv'
<1> SUFFICES ASSUME TimersInv, [Next]_vars PROVE TimersInv'
  OBVIOUS
<1>1. ASSUME NEW r \in Requests, NewCoroutine(r) \/ Request(r) \/ At(r) \/ AtRefuses(r)
      PROVE  TimersInv'
  <2>1. UNCHANGED <<tvars, qvars, stage, late>>
    BY <1>1 DEF NewCoroutine, Request, At, AtRefuses, GetPanics, Get, PutPanics, Put, Uncount
  <2>2. panicked' \in {"no", "state", "scheduler", "callback"}
    BY <1>1 DEF NewCoroutine, Request, At, AtRefuses, GetPanics, Get, PutPanics, Put, Uncount,
                TimersInv, TimersTyped
  <2> QED
    BY <2>1, <2>2, TimersStay
<1>2. CASE UNCHANGED vars
  <2>1. UNCHANGED <<tvars, qvars, stage, late>> /\ panicked' = panicked
    BY <1>2 DEF vars
  <2>2. panicked \in {"no", "state", "scheduler", "callback"}
    BY DEF TimersInv, TimersTyped
  <2> QED
    BY <2>1, <2>2, TimersStay
<1> QED
  BY <1>1, <1>2, AtSetsTimers, CancelTimers, TimerTimers, SchedulerTimers, CloseTimers DEF Next

\* The two invariants say what the runs check.
LEMMA EngineExact == StatesInv /\ TimersInv => StatesExact /\ TimersExact
<1> SUFFICES ASSUME StatesInv, TimersInv PROVE StatesExact /\ TimersExact
  OBVIOUS
<1>1. TypeOK
  BY DEF StatesInv, TimersInv, TimersTyped, TimerPlaces, TypeOK
<1>2. StatesExclusive
  <2>1. IsInjective(pool)
    BY DistinctIsInjective DEF StatesInv
  <2> QED
    BY <1>1, <2>1 DEF StatesInv, StatesExclusive
<1>3. CoroutineLimit
  <2>1. Holding \in SUBSET Admitted
    BY DEF StatesInv, Holding, Admitted
  <2>2. Cardinality(Holding) <= Cardinality(Admitted)
    BY <2>1, RequestsFinite, FS_Subset
  <2> QED
    BY <2>2, RequestsFinite, LuaAssumption DEF StatesInv, CoroutineLimit, Present
<1>4. TimersCounted
  <2>1. IsInjective(queue)
    BY DistinctIsInjective DEF TimersInv, TimersTyped, QueueSound
  <2> QED
    BY <2>1 DEF TimersInv, QueueSound, TimersCounted, Pending, Queued
<1>5. CancelledNeverRuns
  BY DEF TimersInv, CancelledNeverRuns
<1> QED
  BY <1>2, <1>3, <1>4, <1>5 DEF StatesExact, TimersExact, TimersInv, CloseSound

\* However many requests race for states and places, no two of them run on one
\* state, the pool counts the states there are, and MaxConcurrentCoroutines
\* holds (engine.go NewCoroutine, releaseCoroutine, pool.go Get, Put).
THEOREM EngineStatesExact == Spec => []StatesExact
<1>1. StatesInv /\ TimersInv => StatesExact
  BY EngineExact
<1> QED
  BY <1>1, StatesInitial, StatesStep, TimersInitial, TimersStep, PTL DEF Spec

\* However At, Cancel, the firing of timers and Close meet, running timers are
\* counted, a callback is queued once, one cancelled early never runs, and Close
\* returns with none left unless it gave up (api_timer.go).
THEOREM EngineTimersExact == Spec => []TimersExact
<1>1. StatesInv /\ TimersInv => TimersExact
  BY EngineExact
<1> QED
  BY <1>1, StatesInitial, StatesStep, TimersInitial, TimersStep, PTL DEF Spec

-----------------------------------------------------------------------------
(* A shared dictionary *)

Entries == [value : DictValues, exp : {"none", "running", "past"}]

\* The map and the list of the pair d hold the same keys, each once.
Agree(d) ==
  /\ d = [m |-> d.m, l |-> d.l]
  /\ d.l \in Seq(DictKeys) /\ Distinct(d.l) /\ Range(d.l) = DOMAIN d.m
  /\ d.m \in [DOMAIN d.m -> Entries]

DictInv ==
  /\ Agree(Now) /\ Cardinality(Stored) <= MaxItems
  /\ replacing \in [DictCallers -> SUBSET DictKeys]

\* The pair e keeps the entries of d at its own keys.
Inherited(e, d) ==
  DOMAIN e.m \subseteq DOMAIN d.m /\ \A k \in DOMAIN e.m : e.m[k] = d.m[k]

\* There are as many keys as the list has elements.
LEMMA KeysCounted ==
  ASSUME NEW d, Agree(d)
  PROVE  /\ DOMAIN d.m \in SUBSET DictKeys /\ IsFiniteSet(DOMAIN d.m)
         /\ Cardinality(DOMAIN d.m) = Len(d.l) /\ Len(d.l) \in Nat
<1>1. d.l \in Seq(DictKeys) /\ Distinct(d.l) /\ Range(d.l) = DOMAIN d.m
  BY DEF Agree
<1>2. Range(d.l) \subseteq DictKeys
  BY <1>1, RangeOf
<1>3. IsFiniteSet(Range(d.l)) /\ Cardinality(Range(d.l)) = Len(d.l)
  BY <1>1, DistinctLength
<1> QED
  BY <1>1, <1>2, <1>3

\* deleteEntry
LEMMA DeletedKey ==
  ASSUME NEW d, Agree(d), NEW k
  PROVE  /\ Agree(Without(d, k)) /\ Inherited(Without(d, k), d)
         /\ DOMAIN Without(d, k).m = DOMAIN d.m \ {k}
<1> DEFINE e == Without(d, k)
<1>1. /\ d.l \in Seq(DictKeys) /\ Distinct(d.l) /\ Range(d.l) = DOMAIN d.m
      /\ d.m \in [DOMAIN d.m -> Entries]
  BY DEF Agree
<1>2. e.m = [x \in DOMAIN d.m \ {k} |-> d.m[x]] /\ e.l = RemoveFirst(d.l, k)
      /\ e = [m |-> e.m, l |-> e.l]
  BY DEF Without, Restrict
<1>3. /\ e.l \in Seq(DictKeys) /\ Distinct(e.l) /\ Range(e.l) = Range(d.l) \ {k}
  BY <1>1, <1>2, RemovedFirst
<1> HIDE DEF e
<1>4. e.m \in [DOMAIN e.m -> Entries] /\ DOMAIN e.m = DOMAIN d.m \ {k}
  BY <1>1, <1>2
<1>5. Agree(e) /\ Inherited(e, d)
  BY <1>1, <1>2, <1>3, <1>4 DEF Agree, Inherited
<1> QED
  BY <1>4, <1>5 DEF e

\* A pair with another list
LEMMA OtherList ==
  ASSUME NEW m, NEW l, NEW q
  PROVE  [[m |-> m, l |-> l] EXCEPT !.l = q] = [m |-> m, l |-> q]
OBVIOUS

\* MoveToFront, or PushFront of a key that the map has already
LEMMA KeyInFront ==
  ASSUME NEW d, NEW k \in DictKeys, d = [m |-> d.m, l |-> d.l],
         d.l \in Seq(DictKeys), Distinct(d.l), Range(d.l) \cup {k} = DOMAIN d.m,
         d.m \in [DOMAIN d.m -> Entries]
  PROVE  Agree(MovedToFront(d, k)) /\ MovedToFront(d, k).m = d.m
<1> DEFINE e == MovedToFront(d, k)
<1>1. e.m = d.m /\ e.l = <<k>> \o RemoveFirst(d.l, k) /\ e = [m |-> e.m, l |-> e.l]
  <2>1. PICK m, l : d = [m |-> m, l |-> l]
    OBVIOUS
  <2>2. e = [m |-> m, l |-> <<k>> \o RemoveFirst(d.l, k)]
    <3> DEFINE q == <<k>> \o RemoveFirst(d.l, k)
    <3>1. e = [d EXCEPT !.l = q]
      BY DEF MovedToFront
    <3> HIDE DEF q, e
    <3>2. [[m |-> m, l |-> l] EXCEPT !.l = q] = [m |-> m, l |-> q]
      BY OtherList
    <3>3. e = [m |-> m, l |-> q]
      BY <2>1, <3>1, <3>2, Zenon
    <3> QED
      BY <3>3 DEF q
  <2> QED
    BY <2>1, <2>2
<1>2. /\ RemoveFirst(d.l, k) \in Seq(DictKeys) /\ Distinct(RemoveFirst(d.l, k))
      /\ Range(RemoveFirst(d.l, k)) = Range(d.l) \ {k}
  BY RemovedFirst
<1>3. k \notin Range(RemoveFirst(d.l, k))
  BY <1>2
<1>4. /\ e.l \in Seq(DictKeys) /\ Distinct(e.l) /\ Range(e.l) = (Range(d.l) \ {k}) \cup {k}
  BY <1>1, <1>2, <1>3, PushedFront
<1> HIDE DEF e
<1>5. Agree(e)
  BY <1>1, <1>4 DEF Agree
<1> QED
  BY <1>1, <1>5 DEF e

\* evictExpired: what goes has expired.
LEMMA ExpiredEvicted ==
  ASSUME NEW d, Agree(d)
  PROVE  /\ Agree(EvictedExpired(d)) /\ Inherited(EvictedExpired(d), d)
         /\ \A k \in DOMAIN d.m \ DOMAIN EvictedExpired(d).m : Past(d.m, k)
<1> DEFINE live == {i \in DOMAIN d.l : ~Past(d.m, d.l[i])}
           n == IF live = {} THEN 0 ELSE Max(live)
           e == EvictedExpired(d)
<1>1. /\ d.l \in Seq(DictKeys) /\ Distinct(d.l) /\ Range(d.l) = DOMAIN d.m
      /\ d.m \in [DOMAIN d.m -> Entries] /\ DOMAIN d.l = 1..Len(d.l) /\ Len(d.l) \in Nat
  BY DEF Agree
<1>2. live \in SUBSET (1..Len(d.l))
  BY <1>1
<1>3. n \in 0..Len(d.l) /\ \A i \in live : i <= n
  <2> HIDE DEF live
  <2>1. CASE live = {}
    BY <1>1, <2>1
  <2>2. CASE live # {}
    <3>1. Max(live) \in live /\ \A i \in live : i <= Max(live)
      BY <1>1, <1>2, <2>2, LastPosition
    <3>2. n = Max(live)
      BY <2>2
    <3>3. n \in 1..Len(d.l)
      BY <1>2, <3>1, <3>2
    <3> QED
      BY <1>1, <3>1, <3>2, <3>3
  <2> QED
    BY <2>1, <2>2
<1>4. e.l = SubSeq(d.l, 1, n) /\ e.m = [x \in Range(e.l) |-> d.m[x]] /\ e = [m |-> e.m, l |-> e.l]
  BY DEF EvictedExpired, Restrict
<1> HIDE DEF e, n
<1>5. /\ e.l \in Seq(DictKeys) /\ Distinct(e.l) /\ Range(e.l) \subseteq Range(d.l)
      /\ \A i \in 1..Len(d.l) : d.l[i] \in Range(e.l) <=> i <= n
  BY <1>1, <1>3, <1>4, PrefixOf
<1>6. DOMAIN e.m = Range(e.l) /\ \A k \in DOMAIN e.m : e.m[k] = d.m[k]
  BY <1>4
<1>7. e.m \in [DOMAIN e.m -> Entries]
  BY <1>1, <1>4, <1>5
<1>8. Agree(e) /\ Inherited(e, d)
  BY <1>1, <1>4, <1>5, <1>6, <1>7 DEF Agree, Inherited
<1>9. ASSUME NEW k \in DOMAIN d.m \ DOMAIN e.m PROVE Past(d.m, k)
  <2>1. PICK i \in 1..Len(d.l) : d.l[i] = k
    BY <1>1, RangeOf
  <2>2. ~(i <= n)
    BY <1>5, <1>6, <1>9, <2>1
  <2>3. i \notin live
    BY <1>3, <2>2
  <2> QED
    BY <1>1, <2>1, <2>3
<1> QED
  BY <1>8, <1>9 DEF e

\* One entry was given up for a new one, or only expired ones were.
FairlyGone(e, d) ==
  \/ \A k \in DOMAIN d.m \ DOMAIN e.m : Past(d.m, k)
  \/ Cardinality(DOMAIN d.m \ DOMAIN e.m) = 1

\* What Set, Add and Incr do before they add a key
LEMMA RoomMade ==
  ASSUME NEW d, Agree(d), Cardinality(DOMAIN d.m) <= MaxItems
  PROVE  /\ Agree(MadeRoom(d)) /\ Inherited(MadeRoom(d), d)
         /\ Cardinality(DOMAIN MadeRoom(d).m) < MaxItems
         /\ Cardinality(DOMAIN d.m) < MaxItems => MadeRoom(d) = d
         /\ FairlyGone(MadeRoom(d), d)
<1>1. /\ IsFiniteSet(DOMAIN d.m) /\ Cardinality(DOMAIN d.m) \in Nat
      /\ MaxItems \in Nat \ {0}
  BY KeysCounted, DictAssumption
<1>2. CASE ~Full(d)
  <2>1. MadeRoom(d) = d
    BY <1>2 DEF MadeRoom
  <2>2. Cardinality(DOMAIN d.m) < MaxItems
    BY <1>1, <1>2 DEF Full
  <2>3. Inherited(d, d) /\ FairlyGone(d, d)
    BY DEF Inherited, FairlyGone
  <2> QED
    BY <2>1, <2>2, <2>3
<1>3. CASE Full(d)
  <2> DEFINE e == EvictedExpired(d)
  <2>1. /\ Agree(e) /\ Inherited(e, d)
        /\ \A k \in DOMAIN d.m \ DOMAIN e.m : Past(d.m, k)
    BY ExpiredEvicted
  <2>2. MadeRoom(d) = IF Full(e) THEN Without(e, Last(e.l)) ELSE e
    BY <1>3 DEF MadeRoom
  <2> HIDE DEF e
  <2>3. /\ IsFiniteSet(DOMAIN e.m) /\ Cardinality(DOMAIN e.m) \in Nat
        /\ Cardinality(DOMAIN e.m) = Len(e.l)
    BY <2>1, KeysCounted
  <2>4. ~(Cardinality(DOMAIN d.m) < MaxItems)
    BY <1>1, <1>3 DEF Full
  <2>5. CASE ~Full(e)
    <3>1. Cardinality(DOMAIN e.m) < MaxItems
      BY <1>1, <2>3, <2>5 DEF Full
    <3>2. FairlyGone(e, d)
      BY <2>1 DEF FairlyGone
    <3> QED
      BY <2>1, <2>2, <2>4, <2>5, <3>1, <3>2
  <2>6. CASE Full(e)
    <3> DEFINE k == Last(e.l)
               f == Without(e, k)
    <3>1. DOMAIN e.m = DOMAIN d.m
      <4>1. Cardinality(DOMAIN e.m) >= MaxItems
        BY <2>6 DEF Full
      <4>2. DOMAIN e.m \in SUBSET DOMAIN d.m
        BY <2>1 DEF Inherited
      <4>3. Cardinality(DOMAIN e.m) <= Cardinality(DOMAIN d.m)
        BY <1>1, <4>2, FS_Subset
      <4>4. Cardinality(DOMAIN e.m) = Cardinality(DOMAIN d.m)
        BY <1>1, <2>3, <4>1, <4>3
      <4> QED
        BY <1>1, <4>2, <4>4, FS_Subset
    <3>2. k \in DOMAIN e.m
      <4>1. Len(e.l) # 0
        BY <1>1, <2>3, <2>6 DEF Full
      <4>2. e.l \in Seq(DictKeys) /\ Distinct(e.l) /\ e.l # <<>> /\ Range(e.l) = DOMAIN e.m
        BY <2>1, <4>1 DEF Agree
      <4> QED
        BY <4>2, TakenFromEnd
    <3>3. Agree(f) /\ Inherited(f, e) /\ DOMAIN f.m = DOMAIN e.m \ {k}
      BY <2>1, DeletedKey
    <3>4. MadeRoom(d) = f
      BY <2>2, <2>6
    <3> HIDE DEF f, k
    <3>5. Cardinality(DOMAIN f.m) = Cardinality(DOMAIN d.m) - 1
      BY <1>1, <3>1, <3>2, <3>3, FS_RemoveElement
    <3>6. Inherited(f, d)
      BY <2>1, <3>1, <3>3 DEF Inherited
    <3>7. DOMAIN d.m \ DOMAIN f.m = {k}
      BY <3>1, <3>2, <3>3
    <3>8. FairlyGone(f, d)
      BY <3>7, FS_Singleton DEF FairlyGone
    <3>9. Cardinality(DOMAIN f.m) < MaxItems
      BY <1>1, <3>5
    <3> QED
      BY <2>4, <3>3, <3>4, <3>6, <3>8, <3>9
  <2> QED
    BY <2>5, <2>6
<1> QED
  BY <1>2, <1>3

\* A write: its key, with its entry, and the others that are left
LEMMA KeyPut ==
  ASSUME NEW d, Agree(d), Cardinality(DOMAIN d.m) <= MaxItems,
         NEW k \in DictKeys, NEW v \in DictValues, NEW exp \in {"none", "running", "past"}
  PROVE  LET e == DictPut(d, k, v, exp) IN
         /\ Agree(e) /\ k \in DOMAIN e.m
         /\ DOMAIN e.m \subseteq DOMAIN d.m \cup {k}
         /\ \A j \in DOMAIN e.m \ {k} : e.m[j] = d.m[j]
         /\ Cardinality(DOMAIN e.m) <= MaxItems
         /\ k \in DOMAIN d.m \/ Cardinality(DOMAIN d.m) < MaxItems =>
               DOMAIN d.m \subseteq DOMAIN e.m
         /\ FairlyGone(e, d)
<1> DEFINE r == IF k \in DOMAIN d.m THEN d ELSE MadeRoom(d)
           m == [j \in DOMAIN r.m \cup {k} |->
                   IF j = k THEN [value |-> v, exp |-> exp] ELSE r.m[j]]
           s == [r EXCEPT !.m = m]
           e == MovedToFront(s, k)
<1>1. MaxItems \in Nat \ {0} /\ IsFiniteSet(DOMAIN d.m) /\ Cardinality(DOMAIN d.m) \in Nat
  BY KeysCounted, DictAssumption
<1>2. /\ Agree(r) /\ Inherited(r, d) /\ FairlyGone(r, d)
      /\ k \in DOMAIN d.m \/ Cardinality(DOMAIN d.m) < MaxItems => r = d
      /\ k \notin DOMAIN d.m => Cardinality(DOMAIN r.m) < MaxItems
  <2>1. CASE k \in DOMAIN d.m
    BY <2>1 DEF Inherited, FairlyGone
  <2>2. CASE k \notin DOMAIN d.m
    BY <2>2, RoomMade
  <2> QED
    BY <2>1, <2>2
<1>3. DictPut(d, k, v, exp) = e
  BY DEF DictPut
<1> HIDE DEF r
<1>4. m \in [DOMAIN m -> Entries] /\ DOMAIN m = DOMAIN r.m \cup {k}
      /\ \A j \in DOMAIN m \ {k} : m[j] = r.m[j]
  <2>1. r.m \in [DOMAIN r.m -> Entries] /\ [value |-> v, exp |-> exp] \in Entries
    BY <1>2 DEF Agree, Entries
  <2> QED
    BY <2>1
<1> HIDE DEF m
<1>5. s = [m |-> m, l |-> r.l]
  <2>1. PICK rm, rl : r = [m |-> rm, l |-> rl]
    BY <1>2 DEF Agree
  <2> QED
    BY <2>1
<1>6. s.m = m /\ s.l = r.l /\ s = [m |-> s.m, l |-> s.l]
  BY <1>5
<1> HIDE DEF s
<1>7. /\ s.l \in Seq(DictKeys) /\ Distinct(s.l) /\ Range(s.l) \cup {k} = DOMAIN s.m
      /\ s.m \in [DOMAIN s.m -> Entries]
  BY <1>2, <1>4, <1>6 DEF Agree
<1>8. Agree(e) /\ e.m = m
  BY <1>6, <1>7, KeyInFront
<1> HIDE DEF e
<1>9. k \in DOMAIN e.m /\ DOMAIN e.m \subseteq DOMAIN d.m \cup {k}
      /\ \A j \in DOMAIN e.m \ {k} : e.m[j] = d.m[j]
  BY <1>2, <1>4, <1>8 DEF Inherited
<1>10. Cardinality(DOMAIN e.m) <= MaxItems
  <2>1. CASE k \in DOMAIN d.m
    <3>1. DOMAIN e.m = DOMAIN d.m
      BY <1>2, <1>4, <1>8, <2>1
    <3> QED
      BY <3>1
  <2>2. CASE k \notin DOMAIN d.m
    <3>1. DOMAIN e.m = DOMAIN r.m \cup {k} /\ k \notin DOMAIN r.m
      BY <1>2, <1>4, <1>8, <2>2 DEF Inherited
    <3>2. IsFiniteSet(DOMAIN r.m) /\ Cardinality(DOMAIN r.m) \in Nat
      BY <1>2, KeysCounted
    <3>3. Cardinality(DOMAIN e.m) = Cardinality(DOMAIN r.m) + 1
      BY <3>1, <3>2, FS_AddElement
    <3> QED
      BY <1>1, <1>2, <2>2, <3>2, <3>3
  <2> QED
    BY <2>1, <2>2
<1>11. k \in DOMAIN d.m \/ Cardinality(DOMAIN d.m) < MaxItems => DOMAIN d.m \subseteq DOMAIN e.m
  BY <1>2, <1>4, <1>8
<1>12. FairlyGone(e, d)
  <2>1. DOMAIN d.m \ DOMAIN e.m = DOMAIN d.m \ DOMAIN r.m
    <3>1. k \in DOMAIN d.m => k \in DOMAIN r.m
      BY <1>2
    <3> QED
      BY <1>4, <1>8, <3>1
  <2> QED
    BY <1>2, <2>1 DEF FairlyGone
<1> QED
  BY <1>3, <1>8, <1>9, <1>10, <1>11, <1>12

-----------------------------------------------------------------------------
(* The dictionary as the bounded map *)

\* What can be read.
LEMMA MapOf ==
  /\ Stored = DOMAIN Now.m /\ Now.m = data /\ Now.l = lruList
  /\ Stored' = DOMAIN Now'.m /\ Now'.m = data' /\ Now'.l = lruList'
BY DEF Stored, Now

\* A pair that Becomes the state is the state.
LEMMA NewPair ==
  ASSUME NEW e, e = [m |-> e.m, l |-> e.l], Becomes(e)
  PROVE  Now' = e /\ data' = e.m /\ Stored' = DOMAIN e.m
BY DEF Becomes, Now, Stored

\* The abstract map counts as the dictionary does.
LEMMA SameCardinality == \A S : Abstract!Cardinality(S) = Cardinality(S)
BY DEF Abstract!Cardinality, Cardinality

\* Every write is a Write of the bounded map.
LEMMA PutIsWrite ==
  ASSUME DictInv, NEW k \in DictKeys, NEW v \in DictValues,
         NEW exp \in {"none", "running", "past"}, Becomes(DictPut(Now, k, v, exp)),
         replacing' \in [DictCallers -> SUBSET DictKeys]
  PROVE  DictInv' /\ Abstract!Write(k)
<1> DEFINE e == DictPut(Now, k, v, exp)
<1>1. Agree(Now) /\ Cardinality(DOMAIN Now.m) <= MaxItems
  BY MapOf DEF DictInv
<1>2. /\ Agree(e) /\ k \in DOMAIN e.m
      /\ DOMAIN e.m \subseteq DOMAIN Now.m \cup {k}
      /\ \A j \in DOMAIN e.m \ {k} : e.m[j] = Now.m[j]
      /\ Cardinality(DOMAIN e.m) <= MaxItems
      /\ k \in DOMAIN Now.m \/ Cardinality(DOMAIN Now.m) < MaxItems =>
            DOMAIN Now.m \subseteq DOMAIN e.m
      /\ FairlyGone(e, Now)
  BY <1>1, KeyPut
<1>3. Becomes(e)
  OBVIOUS
<1> HIDE DEF e
<1>4. Now' = e /\ data' = e.m /\ Stored' = DOMAIN e.m
  BY <1>2, <1>3, NewPair DEF Agree
<1>5. DictInv'
  BY <1>2, <1>4 DEF DictInv
<1>6. \A j \in Stored' \ {k} : j \in Stored /\ data'[j] = data[j]
  BY <1>2, <1>4, MapOf
<1>7. \A j \in Stored' \ {k} : j \in Visible' <=> j \in Visible
  BY <1>6 DEF Visible, Past
<1>8. Visible \subseteq Stored /\ Visible' \subseteq Stored'
  BY DEF Visible
<1>9. Stored' = (Stored \cap Stored') \cup {k}
  BY <1>2, <1>4, <1>6
<1>10. Visible' \cup {k} = (Visible \cap Stored') \cup {k}
  BY <1>7, <1>8
<1>11. Visible \subseteq Stored' \/ Cardinality(Stored \ Stored') = 1
  <2>1. \/ \A j \in Stored \ Stored' : Past(data, j)
        \/ Cardinality(Stored \ Stored') = 1
    BY <1>2, <1>4, MapOf DEF FairlyGone
  <2> QED
    BY <1>8, <2>1 DEF Visible
<1>12. k \in Stored \/ Cardinality(Stored) < MaxItems => Stored \subseteq Stored'
  BY <1>2, <1>4, MapOf
<1>13. Cardinality(Stored') <= MaxItems
  BY <1>2, <1>4
<1> DEFINE map == [j \in Visible |-> data[j].value]
           new == [j \in Visible' |-> data'[j].value]
<1>14. /\ Visible' \ {k} \subseteq DOMAIN map
       /\ Restrict(new, Visible' \ {k}) = Restrict(map, Visible' \ {k})
  BY <1>6, <1>7, <1>8 DEF Restrict
<1>15. DOMAIN map = Visible /\ DOMAIN new = Visible'
  OBVIOUS
<1>16. Abstract!Write(k)
  BY <1>9, <1>10, <1>11, <1>12, <1>13, <1>14, <1>15, SameCardinality DEF Abstract!Write, Abstract!Keeps, Abstract!Restrict, Restrict
<1> QED
  BY <1>5, <1>16

\* Deletions, evictions and reads are a Forget.
LEMMA LessIsForget ==
  ASSUME DictInv, NEW e, Agree(e), Inherited(e, Now), Becomes(e),
         replacing' \in [DictCallers -> SUBSET DictKeys]
  PROVE  DictInv' /\ Abstract!Forget
<1>1. Now' = e /\ data' = e.m /\ Stored' = DOMAIN e.m
  BY NewPair DEF Agree
<1>2. Stored' \subseteq Stored /\ \A j \in Stored' : data'[j] = data[j]
  BY <1>1, MapOf DEF Inherited
<1>3. Cardinality(Stored') <= MaxItems
  <2>1. IsFiniteSet(Stored) /\ Cardinality(Stored) \in Nat /\ Cardinality(Stored) <= MaxItems
    BY KeysCounted, MapOf DEF DictInv
  <2>2. Cardinality(Stored') <= Cardinality(Stored) /\ IsFiniteSet(Stored')
    BY <1>2, <2>1, FS_Subset
  <2>3. Cardinality(Stored') \in Nat
    BY <2>2, FS_CardinalityType
  <2> QED
    BY <2>1, <2>2, <2>3, DictAssumption
<1>4. DictInv'
  BY <1>1, <1>3 DEF DictInv
<1>5. Visible' \subseteq Stored' /\ Visible' \subseteq Visible
  BY <1>2 DEF Visible, Past
<1> DEFINE map == [j \in Visible |-> data[j].value]
           new == [j \in Visible' |-> data'[j].value]
<1>6. DOMAIN map = Visible /\ DOMAIN new = Visible'
  OBVIOUS
<1>7. Restrict(new, Visible') = Restrict(map, Visible')
  BY <1>2, <1>5 DEF Restrict
<1>8. Abstract!Forget
  BY <1>2, <1>5, <1>6, <1>7 DEF Abstract!Forget, Abstract!Keeps, Abstract!Restrict, Restrict
<1> QED
  BY <1>4, <1>8

\* Time makes a value unreadable and changes nothing else.
LEMMA ExpireIsForget ==
  ASSUME DictInv, NEW k \in DictKeys, DictExpire(k)
  PROVE  DictInv' /\ Abstract!Forget
<1>1. /\ k \in Stored /\ data' = [data EXCEPT ![k].exp = "past"] /\ lruList' = lruList
      /\ replacing' = replacing
  BY DEF DictExpire
<1>2. /\ data \in [Stored -> Entries] /\ Range(lruList) = Stored
      /\ lruList \in Seq(DictKeys) /\ Distinct(lruList)
  BY MapOf DEF DictInv, Agree
<1>3. data' \in [Stored -> Entries] /\ Stored' = Stored
  BY <1>1, <1>2 DEF Entries, Stored
<1>4. \A j \in Stored : j # k => data'[j] = data[j]
  BY <1>1, <1>2
<1>5. data'[k].value = data[k].value /\ data'[k].exp = "past"
  BY <1>1, <1>2 DEF Entries
<1>6. DictInv'
  <2>1. Agree(Now')
    BY <1>1, <1>2, <1>3 DEF Agree, Now, Stored
  <2> QED
    BY <1>1, <1>3, <2>1 DEF DictInv
<1>7. /\ Visible' \subseteq Visible /\ Visible' \subseteq Stored'
      /\ \A j \in Visible' : data'[j].value = data[j].value
  BY <1>3, <1>4, <1>5 DEF Visible, Past
<1> DEFINE map == [j \in Visible |-> data[j].value]
           new == [j \in Visible' |-> data'[j].value]
<1>8. DOMAIN map = Visible /\ DOMAIN new = Visible'
  OBVIOUS
<1>9. Restrict(new, Visible') = Restrict(map, Visible')
  BY <1>7 DEF Restrict
<1>10. Abstract!Forget
  BY <1>3, <1>7, <1>8, <1>9 DEF Abstract!Forget, Abstract!Keeps, Abstract!Restrict, Restrict
<1> QED
  BY <1>6, <1>10

\* The empty dictionary
LEMMA EmptyPair ==
  LET e == [m |-> << >>, l |-> <<>>] IN Agree(e) /\ DOMAIN e.m = {}
<1> DEFINE e == [m |-> << >>, l |-> <<>>]
<1>1. e.m = << >> /\ e.l = <<>> /\ e = [m |-> e.m, l |-> e.l]
  OBVIOUS
<1>2. DOMAIN << >> = {} /\ << >> \in [{} -> Entries]
  OBVIOUS
<1> QED
  BY <1>1, <1>2, EmptyList DEF Agree

\* flush_all and flush_expired
LEMMA FlushesForget ==
  ASSUME DictInv, FlushAll \/ FlushExpired
  PROVE  DictInv' /\ Abstract!Forget
<1>1. Agree(Now) /\ replacing \in [DictCallers -> SUBSET DictKeys]
  BY DEF DictInv
<1>2. Agree(EvictedExpired(Now)) /\ Inherited(EvictedExpired(Now), Now)
  BY <1>1, ExpiredEvicted
<1>3. CASE FlushExpired
  <2>1. Becomes(EvictedExpired(Now)) /\ replacing' = replacing
    BY <1>3 DEF FlushExpired
  <2> QED
    BY <1>1, <1>2, <2>1, LessIsForget
<1>4. CASE FlushAll
  <2> DEFINE e == [m |-> << >>, l |-> <<>>]
  <2>1. Becomes(e) /\ replacing' = replacing
    BY <1>4 DEF FlushAll
  <2>2. Agree(e) /\ DOMAIN e.m = {}
    BY EmptyPair
  <2> HIDE DEF e
  <2>3. Inherited(e, Now)
    BY <2>2 DEF Inherited
  <2> QED
    BY <1>1, <2>1, <2>2, <2>3, LessIsForget
<1> QED
  BY <1>3, <1>4

\* A read, a deletion, the first half of replace.
LEMMA ReadsForget ==
  ASSUME DictInv, NEW k \in DictKeys,
         \/ DictGet(k) \/ DictDelete(k)
         \/ \E c \in DictCallers : DictReplaceFinds(c, k)
  PROVE  DictInv' /\ Abstract!Forget
<1>1. Agree(Now) /\ replacing \in [DictCallers -> SUBSET DictKeys]
  BY DEF DictInv
<1>2. Agree(Without(Now, k)) /\ Inherited(Without(Now, k), Now)
  BY <1>1, DeletedKey
<1>4. ASSUME k \in Stored
      PROVE  Agree(MovedToFront(Now, k)) /\ Inherited(MovedToFront(Now, k), Now)
  <2>1. /\ Now = [m |-> Now.m, l |-> Now.l] /\ Now.l \in Seq(DictKeys) /\ Distinct(Now.l)
        /\ Range(Now.l) \cup {k} = DOMAIN Now.m /\ Now.m \in [DOMAIN Now.m -> Entries]
    BY <1>1, <1>4, MapOf DEF Agree
  <2>2. Agree(MovedToFront(Now, k)) /\ MovedToFront(Now, k).m = Now.m
    BY <2>1, KeyInFront
  <2> QED
    BY <2>2 DEF Inherited
<1>5. CASE DictGet(k)
  <2>1. k \in Stored /\ replacing' = replacing
    BY <1>5 DEF DictGet
  <2>2. Becomes(Without(Now, k)) \/ Becomes(MovedToFront(Now, k))
    BY <1>5 DEF DictGet
  <2> QED
    BY <1>1, <1>2, <1>4, <2>1, <2>2, LessIsForget
<1>6. CASE DictDelete(k)
  <2>1. Becomes(Without(Now, k)) /\ replacing' = replacing
    BY <1>6 DEF DictDelete
  <2> QED
    BY <1>1, <1>2, <2>1, LessIsForget
<1>9. CASE \E c \in DictCallers : DictReplaceFinds(c, k)
  <2>1. PICK c \in DictCallers : DictReplaceFinds(c, k)
    BY <1>9
  <2>2. /\ k \in Stored /\ Becomes(MovedToFront(Now, k))
        /\ replacing' = [replacing EXCEPT ![c] = {k}]
    BY <2>1 DEF DictReplaceFinds
  <2>3. replacing' \in [DictCallers -> SUBSET DictKeys]
    BY <1>1, <2>2
  <2> QED
    BY <1>4, <2>2, <2>3, LessIsForget
<1> QED
  BY <1>5, <1>6, <1>9

\* set, add, the second half of replace, incr.
LEMMA WritesWrite ==
  ASSUME DictInv,
         \/ \E k \in DictKeys, v \in {1, Text, Empty}, exp \in {"none", "running"} :
               DictSet(k, v, exp) \/ DictAdd(k, v, exp)
         \/ \E c \in DictCallers, v \in {1, Text}, exp \in {"none", "running"} :
               DictReplace(c, v, exp)
         \/ \E k \in DictKeys, n \in {-1, 1} : DictIncr(k, n)
  PROVE  DictInv' /\ \E k \in DictKeys : Abstract!Write(k)
<1>1. replacing \in [DictCallers -> SUBSET DictKeys] /\ MaxNumber \in Nat
  BY DictAssumption DEF DictInv
<1>2. 1 \in DictValues /\ Text \in DictValues /\ Empty \in DictValues
  BY <1>1 DEF DictValues, Text, Empty
<1>3. CASE \E k \in DictKeys, v \in {1, Text, Empty}, exp \in {"none", "running"} :
               DictSet(k, v, exp) \/ DictAdd(k, v, exp)
  <2>1. PICK k \in DictKeys, v \in {1, Text, Empty}, exp \in {"none", "running"} :
               DictSet(k, v, exp) \/ DictAdd(k, v, exp)
    BY <1>3
  <2>2. Becomes(DictPut(Now, k, v, exp)) /\ replacing' = replacing
    BY <2>1 DEF DictSet, DictAdd
  <2>3. v \in DictValues /\ exp \in {"none", "running", "past"}
    BY <1>2
  <2> QED
    BY <1>1, <2>2, <2>3, PutIsWrite
<1>4. CASE \E c \in DictCallers, v \in {1, Text}, exp \in {"none", "running"} :
               DictReplace(c, v, exp)
  <2>1. PICK c \in DictCallers, v \in {1, Text}, exp \in {"none", "running"} :
               DictReplace(c, v, exp)
    BY <1>4
  <2>2. PICK k \in replacing[c] : /\ Becomes(DictPut(Now, k, v, exp))
                                  /\ replacing' = [replacing EXCEPT ![c] = {}]
    BY <2>1 DEF DictReplace
  <2>3. v \in DictValues /\ exp \in {"none", "running", "past"} /\ k \in DictKeys
    BY <1>1, <1>2
  <2>4. replacing' \in [DictCallers -> SUBSET DictKeys]
    BY <1>1, <2>2
  <2> QED
    BY <2>2, <2>3, <2>4, PutIsWrite
<1>5. CASE \E k \in DictKeys, n \in {-1, 1} : DictIncr(k, n)
  <2>1. PICK k \in DictKeys, n \in {-1, 1} : DictIncr(k, n)
    BY <1>5
  <2> DEFINE old == IF k \in Stored THEN data[k] ELSE [value |-> 0, exp |-> "none"]
             v == NumberOf(old.value) + n
  <2>2. v \in -1..MaxNumber /\ Becomes(DictPut(Now, k, v, old.exp)) /\ replacing' = replacing
    BY <2>1 DEF DictIncr
  <2>3. old.exp \in {"none", "running", "past"}
    <3>1. k \in Stored => data[k] \in Entries
      BY MapOf DEF DictInv, Agree
    <3> QED
      BY <3>1 DEF Entries
  <2> HIDE DEF v, old
  <2>4. v \in DictValues
    BY <1>1, <2>2 DEF DictValues, Empty
  <2> QED
    BY <1>1, <2>2, <2>3, <2>4, PutIsWrite
<1> QED
  BY <1>3, <1>4, <1>5

LEMMA DictInitial == DictInit => DictInv /\ Abstract!MapInit
<1> SUFFICES ASSUME DictInit PROVE DictInv /\ Abstract!MapInit
  OBVIOUS
<1>1. data = << >> /\ lruList = <<>> /\ replacing = [c \in DictCallers |-> {}]
  BY DEF DictInit
<1>2. Agree(Now) /\ Stored = {}
  <2>1. Now = [m |-> << >>, l |-> <<>>]
    BY <1>1 DEF Now
  <2> QED
    BY <2>1, EmptyPair, MapOf
<1>3. Cardinality(Stored) <= MaxItems
  BY <1>2, FS_EmptySet, DictAssumption
<1>4. Visible = {}
  BY <1>2 DEF Visible
<1>5. [k \in Visible |-> data[k].value] = << >>
  BY <1>4
<1> QED
  BY <1>1, <1>2, <1>3, <1>5 DEF DictInv, Abstract!MapInit

\* Every step of the dictionary is one of the bounded map, or changes nothing there.
LEMMA DictStep ==
  DictInv /\ [DictNext]_dictVars =>
     DictInv' /\ [Abstract!MapNext]_<<[k \in Visible |-> data[k].value], Stored>>
<1> SUFFICES ASSUME DictInv, [DictNext]_dictVars
             PROVE  DictInv' /\ [Abstract!MapNext]_<<[k \in Visible |-> data[k].value], Stored>>
  OBVIOUS
<1>1. CASE UNCHANGED dictVars
  <2>1. data' = data /\ lruList' = lruList /\ replacing' = replacing
    BY <1>1 DEF dictVars
  <2>2. Now' = Now /\ Stored' = Stored /\ Visible' = Visible
    BY <2>1 DEF Now, Stored, Visible
  <2>3. DictInv'
    BY <2>1, <2>2 DEF DictInv
  <2> QED
    BY <2>1, <2>2, <2>3
<1>2. ASSUME NEW k \in DictKeys, DictGet(k) \/ DictDelete(k)
                                 \/ \E c \in DictCallers : DictReplaceFinds(c, k)
      PROVE  DictInv' /\ Abstract!MapNext
  BY <1>2, ReadsForget DEF Abstract!MapNext
<1>3. ASSUME NEW k \in DictKeys, DictExpire(k) PROVE DictInv' /\ Abstract!MapNext
  BY <1>3, ExpireIsForget DEF Abstract!MapNext
<1>4. CASE \/ \E k \in DictKeys, v \in {1, Text, Empty}, exp \in {"none", "running"} :
               DictSet(k, v, exp) \/ DictAdd(k, v, exp)
           \/ \E c \in DictCallers, v \in {1, Text}, exp \in {"none", "running"} :
               DictReplace(c, v, exp)
           \/ \E k \in DictKeys, n \in {-1, 1} : DictIncr(k, n)
  BY <1>4, WritesWrite DEF Abstract!MapNext
<1>5. CASE FlushAll \/ FlushExpired
  BY <1>5, FlushesForget DEF Abstract!MapNext
<1> QED
  BY <1>1, <1>2, <1>3, <1>4, <1>5 DEF DictNext

\* The invariant says what the runs check of the dictionary.
LEMMA DictIsExact == DictInv => DictExact
<1> SUFFICES ASSUME DictInv PROVE DictExact
  OBVIOUS
<1>1. /\ lruList \in Seq(DictKeys) /\ Distinct(lruList) /\ Range(lruList) = Stored
      /\ data \in [Stored -> Entries]
  BY MapOf DEF DictInv, Agree
<1>2. Len(lruList) <= MaxItems
  <2>1. Cardinality(Stored) = Len(lruList)
    BY KeysCounted, MapOf DEF DictInv
  <2> QED
    BY <2>1 DEF DictInv
<1>3. \A k \in Stored : data[k].value \in DictValues
  BY <1>1 DEF Entries
<1> QED
  BY <1>1, <1>2, <1>3, DistinctIsInjective DEF DictExact

\* A shared dictionary is a bounded map to its scripts, for any keys, capacity
\* and callers: a write changes no other key, drops entries only when every place
\* is taken, and then only expired ones or a single one (shared_dict.go:88-397).
THEOREM DictImplementsMap == DictSpec => ImplementsMap
<1> QED
  BY DictInitial, DictStep, PTL DEF DictSpec, ImplementsMap, Abstract!MapSpec

-----------------------------------------------------------------------------
(* The cache of compiled scripts *)

CodeEntries == [ver : Nat, modTime : Nat, age : Nat]
RunRecords ==
  [pc : {"idle", "check", "read", "stat", "compile", "done", "failed"},
   file : Scripts \cup {RunIdle.file}, ver : Nat, cached : CodeEntries]

RunsTyped ==
  /\ disk \in [Scripts -> Nat] /\ edits \in [Scripts -> Nat]
  /\ run \in [Runs -> RunRecords]
  /\ \A r \in Runs : run[r].pc \in {"check", "read", "stat", "compile"} => run[r].file \in Scripts

\* What the lists have to do with the cached entries.
ListsSound ==
  /\ protos \in [DOMAIN protos -> CodeEntries]
  /\ order \in Seq(Scripts) /\ Distinct(order) /\ Range(order) = DOMAIN protos
  /\ accessed \in Seq(Scripts) /\ Distinct(accessed) /\ Range(accessed) = DOMAIN protos
  /\ Len(order) <= CodeSize

CodeInv == RunsTyped /\ ListsSound

\* A request's record changes; the files and the cache stay.
LEMMA RunChanges ==
  ASSUME CodeInv, NEW r \in Runs, NEW x \in RunRecords,
         x.pc \in {"check", "read", "stat", "compile"} => x.file \in Scripts,
         run' = [run EXCEPT ![r] = x], UNCHANGED <<disk, edits>>
  PROVE  RunsTyped'
<1>1. run \in [Runs -> RunRecords]
  BY DEF CodeInv, RunsTyped
<1>2. run' \in [Runs -> RunRecords] /\ \A q \in Runs : run'[q] = IF q = r THEN x ELSE run[q]
  BY <1>1
<1> QED
  BY <1>2 DEF CodeInv, RunsTyped

\* A request that looks up, reads or gives up.
LEMMA RunStep ==
  ASSUME CodeInv, NEW r \in Runs,
         \/ Check(r) \/ ReadScript(r) \/ StatScript(r) \/ CompileFails(r) \/ RunEnds(r)
         \/ StoreScript(r) \/ \E f \in Scripts : LookUp(r, f)
  PROVE  RunsTyped'
<1>1. /\ run \in [Runs -> RunRecords] /\ run[r] \in RunRecords
      /\ protos \in [DOMAIN protos -> CodeEntries]
      /\ disk \in [Scripts -> Nat]
      /\ run[r].pc \in {"check", "read", "stat", "compile"} => run[r].file \in Scripts
  BY DEF CodeInv, RunsTyped, ListsSound
<1>2. run[r] = [pc |-> run[r].pc, file |-> run[r].file, ver |-> run[r].ver,
                cached |-> run[r].cached]
  BY <1>1 DEF RunRecords
<1>3. /\ run[r].file \in Scripts \cup {RunIdle.file} /\ run[r].ver \in Nat
      /\ run[r].cached \in CodeEntries /\ run[r].cached.ver \in Nat
  BY <1>1 DEF RunRecords, CodeEntries
<1>4. NoEntry \in CodeEntries
  BY DEF NoEntry, CodeEntries
<1>5. RunIdle \in RunRecords /\ RunIdle.pc = "idle"
  BY <1>4 DEF RunIdle, RunRecords
<1>6. CASE Check(r)
  <2>1. /\ run[r].pc = "check" /\ UNCHANGED <<disk, edits>>
        /\ \/ run' = [run EXCEPT ![r].pc = "read"]
           \/ run' = [run EXCEPT ![r].pc = "done", ![r].ver = run[r].cached.ver]
    BY <1>6 DEF Check, RunGoto
  <2>2. PICK p \in {"read", "done"}, v \in Nat :
           run' = [run EXCEPT ![r] = [pc |-> p, file |-> run[r].file, ver |-> v,
                                      cached |-> run[r].cached]]
    BY <1>1, <1>2, <1>3, <2>1
  <2> DEFINE x == [pc |-> p, file |-> run[r].file, ver |-> v, cached |-> run[r].cached]
  <2>3. x \in RunRecords /\ x.file \in Scripts
    BY <1>1, <1>3, <2>1 DEF RunRecords
  <2>4. run' = [run EXCEPT ![r] = x]
    BY <2>2
  <2> HIDE DEF x
  <2> QED
    BY <2>1, <2>3, <2>4, RunChanges
<1>7. CASE ReadScript(r)
  <2>1. /\ run[r].pc = "read" /\ UNCHANGED <<disk, edits>>
        /\ run' = [run EXCEPT ![r].ver = disk[run[r].file],
                              ![r].pc = IF disk[run[r].file] = 0 THEN "failed" ELSE "stat"]
    BY <1>7 DEF ReadScript
  <2>2. run[r].file \in Scripts /\ disk[run[r].file] \in Nat
    BY <1>1, <2>1
  <2>3. PICK p \in {"failed", "stat"}, v \in Nat :
           run' = [run EXCEPT ![r] = [pc |-> p, file |-> run[r].file, ver |-> v,
                                      cached |-> run[r].cached]]
    BY <1>1, <1>2, <2>1, <2>2
  <2> DEFINE x == [pc |-> p, file |-> run[r].file, ver |-> v, cached |-> run[r].cached]
  <2>4. x \in RunRecords /\ x.file \in Scripts
    BY <1>3, <2>2 DEF RunRecords
  <2>5. run' = [run EXCEPT ![r] = x]
    BY <2>3
  <2> HIDE DEF x
  <2> QED
    BY <2>1, <2>4, <2>5, RunChanges
<1>8. CASE StatScript(r)
  <2> DEFINE e == [ver |-> run[r].ver, age |-> 0, modTime |-> disk[run[r].file]]
  <2>1. /\ run[r].pc = "stat" /\ UNCHANGED <<disk, edits>>
        /\ run' = [run EXCEPT ![r].cached = e,
                              ![r].pc = IF disk[run[r].file] = 0 THEN "failed" ELSE "compile"]
    BY <1>8 DEF StatScript
  <2>2. run[r].file \in Scripts /\ disk[run[r].file] \in Nat
    BY <1>1, <2>1
  <2>3. e \in CodeEntries
    BY <1>3, <2>2 DEF CodeEntries
  <2> HIDE DEF e
  <2>4. PICK p \in {"failed", "compile"} :
           run' = [run EXCEPT ![r] = [pc |-> p, file |-> run[r].file, ver |-> run[r].ver,
                                      cached |-> e]]
    BY <1>1, <1>2, <2>1
  <2> DEFINE x == [pc |-> p, file |-> run[r].file, ver |-> run[r].ver, cached |-> e]
  <2>5. x \in RunRecords /\ x.file \in Scripts
    BY <1>3, <2>2, <2>3 DEF RunRecords
  <2>6. run' = [run EXCEPT ![r] = x]
    BY <2>4
  <2> HIDE DEF x
  <2> QED
    BY <2>1, <2>5, <2>6, RunChanges
<1>9. CASE CompileFails(r) \/ StoreScript(r)
  <2>1. UNCHANGED <<disk, edits>>
    BY <1>9 DEF CompileFails, StoreScript
  <2>2. PICK p \in {"failed", "done"} :
           run' = [run EXCEPT ![r] = [pc |-> p, file |-> run[r].file, ver |-> run[r].ver,
                                      cached |-> run[r].cached]]
    <3>1. run' = [run EXCEPT ![r].pc = "failed"] \/ run' = [run EXCEPT ![r].pc = "done"]
      BY <1>9 DEF CompileFails, StoreScript, RunGoto
    <3> QED
      BY <1>1, <1>2, <3>1
  <2> DEFINE x == [pc |-> p, file |-> run[r].file, ver |-> run[r].ver, cached |-> run[r].cached]
  <2>3. x \in RunRecords /\ x.pc \in {"failed", "done"}
    BY <1>3 DEF RunRecords
  <2>4. run' = [run EXCEPT ![r] = x]
    BY <2>2
  <2> HIDE DEF x
  <2> QED
    BY <2>1, <2>3, <2>4, RunChanges
<1>10. CASE RunEnds(r)
  <2>1. run' = [run EXCEPT ![r] = RunIdle] /\ UNCHANGED <<disk, edits>>
    BY <1>10 DEF RunEnds
  <2> QED
    BY <1>5, <2>1, RunChanges
<1>11. ASSUME NEW f \in Scripts, LookUp(r, f) PROVE RunsTyped'
  <2> DEFINE p == IF f \in DOMAIN protos /\ ~isExpired(protos[f]) THEN "check" ELSE "read"
             e == IF f \in DOMAIN protos THEN protos[f] ELSE NoEntry
             x == [pc |-> p, file |-> f, ver |-> 0, cached |-> e]
  <2>1. run' = [run EXCEPT ![r] = x] /\ UNCHANGED <<disk, edits>>
    BY <1>11 DEF LookUp
  <2>2. e \in CodeEntries /\ p \in {"check", "read"}
    BY <1>1, <1>4
  <2> HIDE DEF p, e
  <2>3. x \in RunRecords /\ x.file \in Scripts
    BY <2>2 DEF RunRecords
  <2> HIDE DEF x
  <2> QED
    BY <2>1, <2>3, RunChanges
<1> QED
  BY <1>6, <1>7, <1>8, <1>9, <1>10, <1>11

\* A used key goes to the end of the list of uses.
LEMMA UsedLast ==
  ASSUME NEW s \in Seq(Scripts), Distinct(s), NEW f \in Scripts
  PROVE  LET t == Append(RemoveFirst(s, f), f) IN
         t \in Seq(Scripts) /\ Distinct(t) /\ Range(t) = Range(s) \cup {f}
<1>1. /\ RemoveFirst(s, f) \in Seq(Scripts) /\ Distinct(RemoveFirst(s, f))
      /\ Range(RemoveFirst(s, f)) = Range(s) \ {f}
  BY RemovedFirst
<1>2. f \notin Range(RemoveFirst(s, f))
  BY <1>1
<1>3. LET t == Append(RemoveFirst(s, f), f) IN
      t \in Seq(Scripts) /\ Distinct(t) /\ Range(t) = (Range(s) \ {f}) \cup {f}
  BY <1>1, <1>2, PushedBack
<1> QED
  BY <1>3

\* The cache keeps its size: the key used longest ago makes room for a new one.
LEMMA StoreKeepsLists ==
  ASSUME ListsSound, NEW f \in Scripts, NEW e \in CodeEntries, storeLocked(f, e)
  PROVE  ListsSound'
<1> DEFINE evicts == Cardinality(DOMAIN protos) >= CodeSize /\ f \notin DOMAIN protos
           c == IF evicts THEN evictLocked ELSE [p |-> protos, o |-> order, a |-> accessed]
<1>1. /\ protos' = [k \in DOMAIN c.p \cup {f} |-> IF k = f THEN e ELSE c.p[k]]
      /\ accessed' = Append(RemoveFirst(c.a, f), f)
      /\ order' = IF f \in DOMAIN protos THEN order ELSE Append(c.o, f)
  BY DEF storeLocked
<1>2. /\ IsFiniteSet(DOMAIN protos) /\ Cardinality(DOMAIN protos) = Len(order)
      /\ Cardinality(DOMAIN protos) = Len(accessed) /\ Len(order) \in Nat
      /\ CodeSize \in Nat \ {0} /\ Len(order) <= CodeSize
  BY DistinctLength, CodeAssumption DEF ListsSound
<1>3. /\ c.p \in [DOMAIN c.p -> CodeEntries]
      /\ c.o \in Seq(Scripts) /\ Distinct(c.o) /\ Range(c.o) = DOMAIN c.p
      /\ c.a \in Seq(Scripts) /\ Distinct(c.a) /\ Range(c.a) = DOMAIN c.p
      /\ f \notin DOMAIN protos => f \notin DOMAIN c.p /\ Len(c.o) < CodeSize
      /\ f \in DOMAIN protos => c.p = protos /\ c.o = order
  <2>1. CASE ~evicts
    <3>1. c.p = protos /\ c.o = order /\ c.a = accessed
      BY <2>1
    <3>2. f \notin DOMAIN protos => Len(order) < CodeSize
      BY <1>2, <2>1
    <3> QED
      BY <3>1, <3>2 DEF ListsSound
  <2>2. CASE evicts
    <3> DEFINE h == Head(accessed)
    <3>1. /\ c.p = [k \in DOMAIN protos \ {h} |-> protos[k]]
          /\ c.o = RemoveFirst(order, h) /\ c.a = Tail(accessed)
      BY <2>2 DEF evictLocked, Restrict
    <3>2. f \notin DOMAIN protos /\ Cardinality(DOMAIN protos) >= CodeSize
      BY <2>2
    <3> HIDE DEF c
    <3>3. accessed # <<>>
      BY <1>2, <3>2
    <3>4. /\ h \in Range(accessed) /\ Tail(accessed) \in Seq(Scripts)
          /\ Distinct(Tail(accessed)) /\ Range(Tail(accessed)) = Range(accessed) \ {h}
      BY <3>3, TakenFromEnd DEF ListsSound
    <3> HIDE DEF h
    <3>5. /\ c.o \in Seq(Scripts) /\ Distinct(c.o) /\ Range(c.o) = Range(order) \ {h}
      BY <3>1, RemovedFirst DEF ListsSound
    <3>6. c.p \in [DOMAIN c.p -> CodeEntries] /\ DOMAIN c.p = DOMAIN protos \ {h}
      BY <3>1 DEF ListsSound
    <3>7. Len(c.o) < CodeSize
      <4>1. Cardinality(Range(c.o)) = Len(c.o)
        BY <3>5, DistinctLength
      <4>2. Range(order) = DOMAIN protos /\ h \in DOMAIN protos
        BY <3>4 DEF ListsSound
      <4>3. Cardinality(DOMAIN protos \ {h}) = Cardinality(DOMAIN protos) - 1
        BY <1>2, <4>2, FS_RemoveElement
      <4> QED
        BY <1>2, <3>5, <4>1, <4>2, <4>3
    <3> QED
      BY <3>1, <3>2, <3>4, <3>5, <3>6, <3>7 DEF ListsSound
  <2> QED
    BY <2>1, <2>2
<1> HIDE DEF c
<1>4. protos' \in [DOMAIN protos' -> CodeEntries] /\ DOMAIN protos' = DOMAIN c.p \cup {f}
  BY <1>1, <1>3
<1>5. accessed' \in Seq(Scripts) /\ Distinct(accessed') /\ Range(accessed') = DOMAIN protos'
  BY <1>1, <1>3, <1>4, UsedLast
<1>6. /\ order' \in Seq(Scripts) /\ Distinct(order') /\ Range(order') = DOMAIN protos'
      /\ Len(order') <= CodeSize
  <2>1. CASE f \in DOMAIN protos
    <3>1. order' = order /\ DOMAIN protos' = DOMAIN protos
      BY <1>1, <1>3, <1>4, <2>1
    <3> QED
      BY <3>1 DEF ListsSound
  <2>2. CASE f \notin DOMAIN protos
    <3>1. order' = Append(c.o, f) /\ f \notin Range(c.o) /\ Len(c.o) < CodeSize
      BY <1>1, <1>3, <2>2
    <3>2. /\ order' \in Seq(Scripts) /\ Len(order') = Len(c.o) + 1
          /\ Distinct(order') /\ Range(order') = Range(c.o) \cup {f}
      BY <1>3, <3>1, PushedBack
    <3>3. Len(c.o) \in Nat
      BY <1>3
    <3> QED
      BY <1>2, <1>3, <1>4, <3>1, <3>2, <3>3
  <2> QED
    BY <2>1, <2>2
<1> QED
  BY <1>4, <1>5, <1>6 DEF ListsSound

\* Age is all that changes of an entry.
LEMMA AgedEntry == \A e \in CodeEntries : Aged(e) \in CodeEntries
<1> SUFFICES ASSUME NEW e \in CodeEntries PROVE Aged(e) \in CodeEntries
  OBVIOUS
<1>1. e.age \in Nat /\ e = [ver |-> e.ver, modTime |-> e.modTime, age |-> e.age]
      /\ e.ver \in Nat /\ e.modTime \in Nat
  BY DEF CodeEntries
<1>2. PICK a \in Nat : Aged(e) = [e EXCEPT !.age = a]
  BY <1>1 DEF Aged
<1> QED
  BY <1>1, <1>2 DEF CodeEntries

LEMMA TickKeeps == ASSUME CodeInv, CodeTick PROVE CodeInv'
<1>1. /\ protos' = [k \in DOMAIN protos |-> Aged(protos[k])]
      /\ run' = [r \in Runs |->
                   IF run[r].pc \in {"check", "compile"}
                   THEN [run[r] EXCEPT !.cached = Aged(@)] ELSE run[r]]
      /\ UNCHANGED <<disk, edits, order, accessed>>
  BY DEF CodeTick
<1>2. protos' \in [DOMAIN protos' -> CodeEntries] /\ DOMAIN protos' = DOMAIN protos
  BY <1>1, AgedEntry DEF CodeInv, ListsSound
<1>3. ListsSound'
  BY <1>1, <1>2 DEF CodeInv, ListsSound
<1>4. ASSUME NEW r \in Runs
      PROVE  /\ run'[r] \in RunRecords
             /\ run'[r].pc \in {"check", "read", "stat", "compile"} => run'[r].file \in Scripts
  <2>1. /\ run[r] \in RunRecords
        /\ run[r].pc \in {"check", "read", "stat", "compile"} => run[r].file \in Scripts
    BY DEF CodeInv, RunsTyped
  <2>2. CASE run[r].pc \in {"check", "compile"}
    <3> DEFINE c == Aged(run[r].cached)
    <3>1. run'[r] = [run[r] EXCEPT !.cached = c]
      BY <1>1, <2>2
    <3>2. c \in CodeEntries
      BY <2>1, AgedEntry DEF RunRecords
    <3> HIDE DEF c
    <3>3. /\ run[r] = [pc |-> run[r].pc, file |-> run[r].file, ver |-> run[r].ver,
                       cached |-> run[r].cached]
      BY <2>1 DEF RunRecords
    <3>4. run'[r] = [pc |-> run[r].pc, file |-> run[r].file, ver |-> run[r].ver, cached |-> c]
      BY <3>1, <3>3
    <3> QED
      BY <2>1, <3>2, <3>4 DEF RunRecords
  <2>3. CASE run[r].pc \notin {"check", "compile"}
    <3>1. run'[r] = run[r]
      BY <1>1, <2>3
    <3> QED
      BY <2>1, <3>1
  <2> QED
    BY <2>2, <2>3
<1>5. run' = [r \in Runs |-> run'[r]]
  BY <1>1
<1>6. run' \in [Runs -> RunRecords]
  BY <1>4, <1>5
<1>7. RunsTyped'
  BY <1>1, <1>4, <1>6 DEF CodeInv, RunsTyped
<1> QED
  BY <1>3, <1>7 DEF CodeInv

LEMMA CodeInitial == CodeInit => CodeInv
<1> SUFFICES ASSUME CodeInit PROVE CodeInv
  OBVIOUS
<1> USE DEF CodeInit
<1>1. RunIdle \in RunRecords /\ RunIdle.pc = "idle"
  BY DEF RunIdle, RunRecords, NoEntry, CodeEntries
<1>2. RunsTyped
  <2>1. run \in [Runs -> RunRecords]
    BY <1>1
  <2>2. \A r \in Runs : run[r].pc = "idle"
    BY <1>1
  <2>3. disk \in [Scripts -> Nat] /\ edits \in [Scripts -> Nat]
    OBVIOUS
  <2> QED
    BY <2>1, <2>2, <2>3 DEF RunsTyped
<1>3. DOMAIN << >> = {} /\ << >> \in [{} -> CodeEntries]
  OBVIOUS
<1>4. protos \in [DOMAIN protos -> CodeEntries] /\ DOMAIN protos = {}
  BY <1>3
<1>5. ListsSound
  BY <1>4, EmptyList, CodeAssumption DEF ListsSound
<1> QED
  BY <1>2, <1>5 DEF CodeInv

\* Every step keeps protos, order and the times of use together.
LEMMA CodeStep == CodeInv /\ [CodeNext]_codeVars => CodeInv'
<1> SUFFICES ASSUME CodeInv, [CodeNext]_codeVars PROVE CodeInv'
  OBVIOUS
<1>1. ASSUME UNCHANGED <<protos, order, accessed>> PROVE ListsSound'
  BY <1>1 DEF CodeInv, ListsSound
<1>2. ASSUME NEW r \in Runs, RunSteps(r) \/ \E f \in Scripts : LookUp(r, f) PROVE CodeInv'
  <2>1. RunsTyped'
    BY <1>2, RunStep DEF RunSteps
  <2>2. CASE \/ ReadScript(r) \/ StatScript(r) \/ CompileFails(r) \/ RunEnds(r)
             \/ \E f \in Scripts : LookUp(r, f)
    <3>1. UNCHANGED <<protos, order, accessed>>
      BY <2>2 DEF ReadScript, StatScript, CompileFails, RunEnds, LookUp, CodeUnchanged
    <3> QED
      BY <1>1, <2>1, <3>1 DEF CodeInv
  <2>3. CASE StoreScript(r)
    <3>1. run[r].pc = "compile" /\ storeLocked(run[r].file, run[r].cached)
      BY <2>3 DEF StoreScript
    <3>2. run[r].file \in Scripts /\ run[r].cached \in CodeEntries
      BY <3>1 DEF CodeInv, RunsTyped, RunRecords
    <3> QED
      BY <2>1, <3>1, <3>2, StoreKeepsLists DEF CodeInv
  <2>4. CASE Check(r)
    <3> DEFINE f == run[r].file
    <3>1. /\ run[r].pc = "check" /\ UNCHANGED <<protos, order>>
          /\ accessed' = accessed \/ (f \in DOMAIN protos /\ accessed' = Append(RemoveFirst(accessed, f), f))
      BY <2>4 DEF Check
    <3>2. f \in Scripts
      BY <3>1 DEF CodeInv, RunsTyped
    <3> HIDE DEF f
    <3>3. CASE accessed' = accessed
      BY <1>1, <2>1, <3>1, <3>3 DEF CodeInv
    <3>4. CASE f \in DOMAIN protos /\ accessed' = Append(RemoveFirst(accessed, f), f)
      <4>1. accessed \in Seq(Scripts) /\ Distinct(accessed) /\ Range(accessed) = DOMAIN protos
        BY DEF CodeInv, ListsSound
      <4>2. accessed' \in Seq(Scripts) /\ Distinct(accessed') /\ Range(accessed') = Range(accessed) \cup {f}
        BY <3>2, <3>4, <4>1, UsedLast
      <4>3. Range(accessed') = DOMAIN protos
        BY <3>4, <4>1, <4>2
      <4> QED
        BY <2>1, <3>1, <4>2, <4>3 DEF CodeInv, ListsSound
    <3> QED
      BY <3>1, <3>3, <3>4
  <2> QED
    BY <1>2, <2>2, <2>3, <2>4 DEF RunSteps
<1>3. ASSUME NEW f \in Scripts, Edit(f) \/ Unlink(f) PROVE CodeInv'
  <2>1. UNCHANGED <<protos, order, accessed, run>>
    BY <1>3 DEF Edit, Unlink, CodeUnchanged
  <2>2. disk' \in [Scripts -> Nat] /\ edits' \in [Scripts -> Nat]
    BY <1>3 DEF Edit, Unlink, CodeInv, RunsTyped
  <2> QED
    BY <1>1, <2>1, <2>2 DEF CodeInv, RunsTyped
<1>4. CASE CodeClear
  <2>1. /\ protos' = << >> /\ order' = <<>> /\ accessed' = <<>>
        /\ UNCHANGED <<disk, edits, run>>
    BY <1>4 DEF CodeClear
  <2>2. DOMAIN << >> = {} /\ << >> \in [{} -> CodeEntries]
    OBVIOUS
  <2>3. protos' \in [DOMAIN protos' -> CodeEntries] /\ DOMAIN protos' = {}
    BY <2>1, <2>2
  <2>4. ListsSound'
    BY <2>1, <2>3, EmptyList, CodeAssumption DEF ListsSound
  <2> QED
    BY <2>1, <2>4 DEF CodeInv, RunsTyped
<1>5. CASE UNCHANGED codeVars
  BY <1>5 DEF codeVars, CodeInv, RunsTyped, ListsSound
<1> QED
  BY <1>2, <1>3, <1>4, <1>5, TickKeeps DEF CodeNext

\* The invariant says what the runs check of the cache.
LEMMA CodeIsExact == CodeInv => CodeExact
BY DistinctIsInjective DEF CodeInv, ListsSound, CodeExact

-----------------------------------------------------------------------------
(* The operations of a cosocket *)

OpPlaces == {"none", "io", "complete", "signal", "unset", "reset", "end"}
Started == {o \in Ops : ops[o].pc # "none"}
Transfers(o) == ops[o].kind # "connect" /\ ops[o].pc \notin {"none", "end"}

SocketsTyped ==
  /\ socket \in [state : {"idle", "connecting", "connected", "sending", "receiving",
                          "error", "closed"}, conn : BOOLEAN, closed : BOOLEAN]
  /\ currentOp \in Ops \cup {0}
  /\ ops \in [Ops -> [kind : {"none", "connect", "send", "receive"}, pc : OpPlaces]]
  /\ sweep \in SUBSET (Ops \X {"found", "gone"})
  /\ activeOps \in Int

\* Each operation that has started is in the map, completed, or in the hands of
\* the one that removed it from the map: its goroutine or the clean-up.
OwnedOnce ==
  /\ operations \in SUBSET Started /\ completed \in SUBSET Started
  /\ operations \cap completed = {}
  /\ \A o \in Ops : ops[o].pc = "signal" =>
        o \notin operations /\ o \notin completed /\ <<o, "gone">> \notin sweep
  /\ \A o \in Ops : <<o, "gone">> \in sweep =>
        o \in Started /\ o \notin operations /\ o \notin completed
  /\ activeOps = Cardinality(Started \ completed)

\* One transfer at a time: the state says connected only when there is none, and
\* the one dial comes before all of them.
TransfersAlone ==
  /\ socket.state = "idle" => \A o \in Ops : ops[o].pc = "none"
  /\ socket.state = "idle" => ~socket.conn
  /\ \A o \in Ops : ops[o].kind = "connect" /\ ops[o].pc = "io" =>
        ~socket.conn /\ \A p \in Ops : p # o => ops[p].pc = "none"
  /\ socket.state = "connected" => \A o \in Ops : ~Transfers(o)
  /\ \A o, p \in Ops : Transfers(o) /\ Transfers(p) => o = p
  /\ \A o \in Ops : ops[o].pc = "reset" => ops[o].kind # "connect"

SocketInv == SocketsTyped /\ OwnedOnce /\ TransfersAlone

\* One goroutine goes on.
LEMMA OpMoved ==
  ASSUME SocketsTyped, NEW o \in Ops, ops[o].pc # "none", NEW label \in OpPlaces \ {"none"},
         OpGoto(o, label)
  PROVE  /\ ops' \in [Ops -> [kind : {"none", "connect", "send", "receive"}, pc : OpPlaces]]
         /\ \A p \in Ops : /\ ops'[p].kind = ops[p].kind
                           /\ ops'[p].pc = IF p = o THEN label ELSE ops[p].pc
         /\ Started' = Started
<1>1. ops \in [Ops -> [kind : {"none", "connect", "send", "receive"}, pc : OpPlaces]]
  BY DEF SocketsTyped
<1>2. ops' = [ops EXCEPT ![o].pc = label]
  BY DEF OpGoto
<1>3. ops' \in [Ops -> [kind : {"none", "connect", "send", "receive"}, pc : OpPlaces]]
  BY <1>1, <1>2
<1>4. \A p \in Ops : /\ ops'[p].kind = ops[p].kind
                     /\ ops'[p].pc = IF p = o THEN label ELSE ops[p].pc
  BY <1>1, <1>2
<1>5. Started' = Started
  BY <1>4 DEF Started
<1> QED
  BY <1>3, <1>4, <1>5

\* How many operations nobody has completed, when one starts or is completed.
LEMMA UncompletedCount ==
  ASSUME NEW S \in SUBSET Ops, NEW C, NEW o \in Ops
  PROVE  /\ o \notin S /\ o \notin C => Cardinality((S \cup {o}) \ C) = Cardinality(S \ C) + 1
         /\ o \in S /\ o \notin C => Cardinality(S \ (C \cup {o})) = Cardinality(S \ C) - 1
         /\ Cardinality(S \ C) \in Nat
<1>1. IsFiniteSet(Ops)
  BY SocketAssumption, IntervalSize DEF Ops
<1>2. S \ C \in SUBSET Ops
  OBVIOUS
<1>3. IsFiniteSet(S \ C) /\ Cardinality(S \ C) \in Nat
  BY <1>1, <1>2, FS_Subset, FS_CardinalityType
<1>4. o \notin S /\ o \notin C => (S \cup {o}) \ C = (S \ C) \cup {o} /\ o \notin S \ C
  OBVIOUS
<1>5. o \in S /\ o \notin C => S \ (C \cup {o}) = (S \ C) \ {o} /\ o \in S \ C
  OBVIOUS
<1>6. o \notin S \ C => Cardinality((S \ C) \cup {o}) = Cardinality(S \ C) + 1
  BY <1>3, FS_AddElement
<1>7. o \in S \ C => Cardinality((S \ C) \ {o}) = Cardinality(S \ C) - 1
  BY <1>3, FS_RemoveElement
<1> QED
  BY <1>3, <1>4, <1>5, <1>6, <1>7

\* The script starts an operation: the dial on an idle socket, a transfer on a
\* connected one.
LEMMA StartStep ==
  ASSUME SocketInv, NEW o \in Ops, NEW kind \in {"connect", "send", "receive"},
         NEW state \in {"connecting", "sending", "receiving"},
         StartOperation(o, kind), setState(state),
         kind = "connect" => socket.state = "idle",
         kind # "connect" => Usable
  PROVE  SocketInv'
<1>1. /\ ops[o].pc = "none" /\ ops' = [ops EXCEPT ![o] = [kind |-> kind, pc |-> "io"]]
      /\ operations' = operations \cup {o} /\ activeOps' = activeOps + 1 /\ currentOp' = o
      /\ UNCHANGED <<completed, overdue, sweep>>
  BY DEF StartOperation
<1>2. ops \in [Ops -> [kind : {"none", "connect", "send", "receive"}, pc : OpPlaces]]
  BY DEF SocketInv, SocketsTyped
<1>3. \A p \in Ops : ops'[p] = IF p = o THEN [kind |-> kind, pc |-> "io"] ELSE ops[p]
  BY <1>1, <1>2
<1>4. /\ socket'.state = state /\ socket'.conn = socket.conn
      /\ socket' \in [state : {"idle", "connecting", "connected", "sending", "receiving",
                               "error", "closed"}, conn : BOOLEAN, closed : BOOLEAN]
  BY DEF setState, SocketInv, SocketsTyped
<1>5. SocketsTyped'
  <2>1. [kind |-> kind, pc |-> "io"] \in [kind : {"none", "connect", "send", "receive"}, pc : OpPlaces]
    BY DEF OpPlaces
  <2>2. ops' \in [Ops -> [kind : {"none", "connect", "send", "receive"}, pc : OpPlaces]]
    BY <1>1, <1>2, <2>1
  <2> QED
    BY <1>1, <1>4, <2>2 DEF SocketInv, SocketsTyped
<1>6. Started' = Started \cup {o} /\ o \notin Started /\ Started \in SUBSET Ops
  BY <1>1, <1>3 DEF Started
<1>7. OwnedOnce'
  <2>1. o \notin operations /\ o \notin completed /\ <<o, "gone">> \notin sweep
    BY <1>6 DEF SocketInv, OwnedOnce
  <2>2. activeOps' = Cardinality(Started' \ completed')
    <3>1. Cardinality((Started \cup {o}) \ completed) = Cardinality(Started \ completed) + 1
      BY <1>6, <2>1, UncompletedCount
    <3> QED
      BY <1>1, <1>6, <3>1 DEF SocketInv, OwnedOnce
  <2> QED
    BY <1>1, <1>3, <1>6, <2>1, <2>2 DEF SocketInv, OwnedOnce
<1>8. TransfersAlone'
  <2>1. CASE kind = "connect"
    <3>1. \A p \in Ops : ops[p].pc = "none"
      BY <2>1 DEF SocketInv, TransfersAlone
    <3>2. ~socket.conn
      BY <2>1 DEF SocketInv, TransfersAlone
    <3>3. \A p \in Ops : ~(Transfers(p)')
      BY <1>3, <2>1, <3>1 DEF Transfers
    <3> QED
      BY <1>3, <1>4, <2>1, <3>1, <3>2, <3>3 DEF TransfersAlone
  <2>2. CASE kind # "connect"
    <3>1. \A p \in Ops : ~Transfers(p)
      BY <2>2 DEF SocketInv, TransfersAlone, Usable
    <3>2. \A p \in Ops : ~(ops[p].kind = "connect" /\ ops[p].pc = "io")
      BY <2>2 DEF SocketInv, TransfersAlone, Usable
    <3>3. \A p \in Ops : Transfers(p)' => p = o
      BY <1>3, <3>1 DEF Transfers
    <3>4. \A p \in Ops : ~(ops'[p].kind = "connect" /\ ops'[p].pc = "io")
      BY <1>3, <2>2, <3>2
    <3>5. \A p \in Ops : ops'[p].pc = "reset" => ops'[p].kind # "connect"
      BY <1>3 DEF SocketInv, TransfersAlone
    <3> QED
      BY <1>4, <3>3, <3>4, <3>5 DEF TransfersAlone
  <2> QED
    BY <2>1, <2>2
<1> QED
  BY <1>5, <1>7, <1>8 DEF SocketInv

\* The state becomes another one, which is neither idle nor connected.
LEMMA StateStep ==
  ASSUME SocketInv, UNCHANGED <<currentOp, ops, managerVars>>,
         setState("error")
  PROVE  SocketInv'
<1>1. UNCHANGED <<currentOp, ops, operations, completed, overdue, activeOps, sweep>>
  BY DEF managerVars
<1>2. /\ socket'.state = "error" /\ socket'.conn = socket.conn
      /\ socket' \in [state : {"idle", "connecting", "connected", "sending", "receiving",
                               "error", "closed"}, conn : BOOLEAN, closed : BOOLEAN]
  BY DEF setState, SocketInv, SocketsTyped
<1>3. Started' = Started /\ \A o \in Ops : Transfers(o)' = Transfers(o)
  BY <1>1 DEF Started, Transfers
<1>4. SocketsTyped'
  BY <1>1, <1>2 DEF SocketInv, SocketsTyped
<1>5. OwnedOnce'
  BY <1>1, <1>3 DEF SocketInv, OwnedOnce
<1>6. TransfersAlone'
  BY <1>1, <1>2, <1>3 DEF SocketInv, TransfersAlone
<1> QED
  BY <1>4, <1>5, <1>6 DEF SocketInv

\* A goroutine goes on without the manager.
LEMMA GoroutineStep ==
  ASSUME SocketInv, NEW o \in Ops,
         IOFails(o) \/ DialSucceeds(o) \/ TransferEnds(o) \/ OpUnset(o) \/ OpReset(o)
  PROVE  SocketInv'
<1>1. PICK label \in {"complete", "reset", "end"} :
         /\ OpGoto(o, label)
         /\ ops[o].pc \in {"io", "unset", "reset"}
         /\ label = "reset" => ops[o].kind # "connect"
  BY DEF IOFails, DialSucceeds, TransferEnds, OpUnset, OpReset
<1>2. /\ UNCHANGED <<operations, completed, overdue, activeOps, sweep>>
      /\ currentOp' \in Ops \cup {0}
  BY DEF IOFails, DialSucceeds, TransferEnds, OpUnset, OpReset, managerVars, SocketInv, SocketsTyped
<1>3. /\ ops' \in [Ops -> [kind : {"none", "connect", "send", "receive"}, pc : OpPlaces]]
      /\ \A p \in Ops : /\ ops'[p].kind = ops[p].kind
                        /\ ops'[p].pc = IF p = o THEN label ELSE ops[p].pc
      /\ Started' = Started
  BY <1>1, OpMoved DEF SocketInv, OpPlaces
<1>4. OwnedOnce'
  <2>1. \A p \in Ops : ops'[p].pc = "signal" => ops[p].pc = "signal"
    BY <1>1, <1>3
  <2> QED
    BY <1>2, <1>3, <2>1 DEF SocketInv, OwnedOnce
<1>5. \A p \in Ops : Transfers(p)' => Transfers(p)
  BY <1>1, <1>3 DEF Transfers
<1>6. /\ \A p \in Ops : ops'[p].kind = "connect" /\ ops'[p].pc = "io" =>
            p # o /\ ops[p].kind = "connect" /\ ops[p].pc = "io"
      /\ \A p \in Ops : ops'[p].pc = "none" <=> ops[p].pc = "none"
      /\ \A p \in Ops : ops'[p].pc = "reset" => ops'[p].kind # "connect"
  BY <1>1, <1>3 DEF SocketInv, TransfersAlone
<1>7. socket \in [state : {"idle", "connecting", "connected", "sending", "receiving",
                           "error", "closed"}, conn : BOOLEAN, closed : BOOLEAN]
  BY DEF SocketInv, SocketsTyped
<1>8. \/ socket' = socket
      \/ socket' = [socket EXCEPT !.state = "error"]
      \/ /\ socket' = [socket EXCEPT !.conn = TRUE, !.state = "connected"]
         /\ ops[o].kind = "connect" /\ ops[o].pc = "io"
      \/ /\ socket' = [socket EXCEPT !.state = "connected"]
         /\ ops[o].pc = "reset" /\ label = "end"
  <2>1. CASE OpReset(o)
    <3>1. /\ socket' = [socket EXCEPT !.state = "connected"] /\ ops[o].pc = "reset"
          /\ OpGoto(o, "end")
      BY <2>1 DEF OpReset, setState
    <3>2. ops'[o].pc = "end"
      BY <3>1, OpMoved DEF SocketInv, OpPlaces
    <3>3. label = "end"
      BY <1>3, <3>2
    <3> QED
      BY <3>1, <3>3
  <2> QED
    BY <2>1 DEF IOFails, DialSucceeds, TransferEnds, OpUnset, setState
<1>9. socket' \in [state : {"idle", "connecting", "connected", "sending", "receiving",
                            "error", "closed"}, conn : BOOLEAN, closed : BOOLEAN]
  BY <1>7, <1>8
<1>10. SocketsTyped'
  BY <1>2, <1>3, <1>9 DEF SocketInv, SocketsTyped
<1>11. socket.state # "idle"
  BY <1>1 DEF SocketInv, TransfersAlone
<1>12. socket'.state # "idle"
  BY <1>7, <1>8, <1>11
<1>13. socket'.state = "connected" => \A p \in Ops : ~(Transfers(p)')
  <2>1. CASE socket' = socket \/ socket' = [socket EXCEPT !.state = "error"]
    BY <1>5, <1>7, <2>1 DEF SocketInv, TransfersAlone
  <2>2. CASE ops[o].kind = "connect" /\ ops[o].pc = "io"
    <3>1. \A p \in Ops : p # o => ops[p].pc = "none"
      BY <2>2 DEF SocketInv, TransfersAlone
    <3> QED
      BY <1>5, <2>2, <3>1 DEF Transfers
  <2>3. CASE ops[o].pc = "reset" /\ label = "end"
    <3>1. Transfers(o)
      BY <2>3 DEF SocketInv, TransfersAlone, Transfers
    <3>2. \A p \in Ops : Transfers(p) => p = o
      BY <3>1 DEF SocketInv, TransfersAlone
    <3>3. ~(Transfers(o)')
      BY <1>3, <2>3 DEF Transfers
    <3> QED
      BY <1>5, <3>2, <3>3
  <2> QED
    BY <1>8, <2>1, <2>2, <2>3
<1>14. \A p \in Ops : ops'[p].kind = "connect" /\ ops'[p].pc = "io" =>
          ~socket'.conn /\ \A q \in Ops : q # p => ops'[q].pc = "none"
  <2> SUFFICES ASSUME NEW p \in Ops, ops'[p].kind = "connect", ops'[p].pc = "io"
               PROVE  ~socket'.conn /\ \A q \in Ops : q # p => ops'[q].pc = "none"
    OBVIOUS
  <2>1. p # o /\ ops[p].kind = "connect" /\ ops[p].pc = "io"
    BY <1>6
  <2>2. ops[o].pc = "none"
    BY <2>1 DEF SocketInv, TransfersAlone
  <2> QED
    BY <1>1, <2>2
<1>15. TransfersAlone'
  BY <1>5, <1>6, <1>12, <1>13, <1>14 DEF SocketInv, TransfersAlone
<1> QED
  BY <1>4, <1>10, <1>15 DEF SocketInv

\* The socket and the goroutines are where they were, but for what o does with
\* the manager.
LEMMA AloneStays ==
  ASSUME SocketInv, socket' = socket, Started' = Started,
         \A p \in Ops : /\ ops'[p].kind = ops[p].kind
                        /\ ops'[p].pc = ops[p].pc \/ (/\ ops[p].pc \in {"complete", "signal"}
                                                     /\ ops'[p].pc \in {"signal", "unset"})
  PROVE  TransfersAlone'
<1>1. \A p \in Ops : Transfers(p)' <=> Transfers(p)
  BY DEF Transfers
<1>2. \A p \in Ops : (ops'[p].pc = "none" <=> ops[p].pc = "none") /\ (ops'[p].pc = "io" <=> ops[p].pc = "io")
                     /\ (ops'[p].pc = "reset" <=> ops[p].pc = "reset")
  OBVIOUS
<1> QED
  BY <1>1, <1>2 DEF SocketInv, TransfersAlone

\* Whoever removes an operation from the map completes it.
LEMMA ManagerStep ==
  ASSUME SocketInv, NEW o \in Ops,
         \/ OpRemoved(o) \/ OpSignals(o) \/ Overdue(o) \/ SweepRemoves(o) \/ SweepSignals(o)
         \/ Collect
  PROVE  SocketInv'
<1>1. SocketsTyped /\ OwnedOnce /\ Started \in SUBSET Ops
  BY DEF SocketInv, Started
<1>2. CASE OpRemoved(o)
  <2> DEFINE label == IF o \in operations THEN "signal" ELSE "unset"
  <2>1. /\ ops[o].pc = "complete" /\ operations' = operations \ {o} /\ OpGoto(o, label)
        /\ UNCHANGED <<socket, currentOp, completed, overdue, activeOps, sweep>>
    BY <1>2 DEF OpRemoved, Removes
  <2>2. label \in OpPlaces \ {"none"}
    BY DEF OpPlaces
  <2>3. /\ ops' \in [Ops -> [kind : {"none", "connect", "send", "receive"}, pc : OpPlaces]]
        /\ \A p \in Ops : /\ ops'[p].kind = ops[p].kind
                          /\ ops'[p].pc = IF p = o THEN label ELSE ops[p].pc
        /\ Started' = Started
    BY <1>1, <2>1, <2>2, OpMoved
  <2>4. TransfersAlone'
    BY <2>1, <2>3, AloneStays
  <2>5. SocketsTyped'
    BY <1>1, <2>1, <2>3 DEF SocketsTyped
  <2>6. \A p \in Ops : ops'[p].pc = "signal" =>
           p \notin operations' /\ p \notin completed' /\ <<p, "gone">> \notin sweep'
    BY <1>1, <2>1, <2>3 DEF OwnedOnce
  <2>7. OwnedOnce'
    BY <1>1, <2>1, <2>3, <2>6 DEF OwnedOnce
  <2> QED
    BY <2>4, <2>5, <2>7 DEF SocketInv
<1>3. CASE OpSignals(o)
  <2>1. /\ ops[o].pc = "signal" /\ OpGoto(o, "unset") /\ completed' = completed \cup {o}
        /\ activeOps' = activeOps - 1
        /\ UNCHANGED <<socket, currentOp, operations, overdue, sweep>>
    BY <1>3 DEF OpSignals, Signals
  <2>2. "unset" \in OpPlaces \ {"none"}
    BY DEF OpPlaces
  <2>3. /\ ops' \in [Ops -> [kind : {"none", "connect", "send", "receive"}, pc : OpPlaces]]
        /\ \A p \in Ops : /\ ops'[p].kind = ops[p].kind
                          /\ ops'[p].pc = IF p = o THEN "unset" ELSE ops[p].pc
        /\ Started' = Started
    BY <1>1, <2>1, <2>2, OpMoved
  <2>4. TransfersAlone'
    BY <2>1, <2>3, AloneStays
  <2>5. SocketsTyped'
    BY <1>1, <2>1, <2>3 DEF SocketsTyped
  <2>6. o \in Started /\ o \notin completed /\ o \notin operations /\ <<o, "gone">> \notin sweep
    BY <1>1, <2>1 DEF Started, OwnedOnce
  <2>7. activeOps' = Cardinality(Started' \ completed')
    <3>1. Cardinality(Started \ (completed \cup {o})) = Cardinality(Started \ completed) - 1
      BY <1>1, <2>6, UncompletedCount
    <3> QED
      BY <1>1, <2>1, <2>3, <3>1 DEF OwnedOnce
  <2>8. OwnedOnce'
    BY <1>1, <2>1, <2>3, <2>6, <2>7 DEF OwnedOnce
  <2> QED
    BY <2>4, <2>5, <2>8 DEF SocketInv
<1>4. CASE Overdue(o) \/ Collect
  <2>1. UNCHANGED <<socket, currentOp, ops, operations, completed, activeOps>>
    BY <1>4 DEF Overdue, Collect
  <2>2. /\ sweep' \in SUBSET (Ops \X {"found", "gone"})
        /\ \A p \in Ops : <<p, "gone">> \in sweep' => <<p, "gone">> \in sweep
    <3>1. CASE Overdue(o)
      BY <1>1, <3>1 DEF Overdue, SocketsTyped
    <3>2. CASE Collect
      <4>1. sweep' = {<<p, "found">> : p \in Late} /\ Late \in SUBSET Ops
        BY <1>1, <3>2 DEF Collect, Late, OwnedOnce, Started
      <4> QED
        BY <4>1
    <3> QED
      BY <1>4, <3>1, <3>2
  <2>3. Started' = Started
    BY <2>1 DEF Started
  <2>4. TransfersAlone'
    BY <2>1, <2>3, AloneStays
  <2>5. SocketsTyped'
    BY <1>1, <2>1, <2>2 DEF SocketsTyped
  <2>6. OwnedOnce'
    BY <1>1, <2>1, <2>2, <2>3 DEF OwnedOnce
  <2> QED
    BY <2>4, <2>5, <2>6 DEF SocketInv
<1>5. CASE SweepRemoves(o)
  <2>1. /\ operations' = operations \ {o}
        /\ UNCHANGED <<socket, currentOp, completed, overdue, activeOps, ops>>
        /\ sweep' = (sweep \ {<<o, "found">>})
                      \cup IF o \in operations THEN {<<o, "gone">>} ELSE {}
    BY <1>5 DEF SweepRemoves, Removes
  <2>2. Started' = Started
    BY <2>1 DEF Started
  <2>3. TransfersAlone'
    BY <2>1, <2>2, AloneStays
  <2>4. SocketsTyped'
    BY <1>1, <2>1 DEF SocketsTyped
  <2>5. \A p \in Ops : <<p, "gone">> \in sweep' => <<p, "gone">> \in sweep \/ (p = o /\ o \in operations)
    BY <2>1
  <2>6. OwnedOnce'
    BY <1>1, <2>1, <2>2, <2>5 DEF OwnedOnce
  <2> QED
    BY <2>3, <2>4, <2>6 DEF SocketInv
<1>6. CASE SweepSignals(o)
  <2>1. /\ <<o, "gone">> \in sweep /\ sweep' = sweep \ {<<o, "gone">>}
        /\ completed' = completed \cup {o} /\ activeOps' = activeOps - 1
        /\ UNCHANGED <<socket, currentOp, ops, operations, overdue>>
    BY <1>6 DEF SweepSignals, Signals
  <2>2. Started' = Started
    BY <2>1 DEF Started
  <2>3. TransfersAlone'
    BY <2>1, <2>2, AloneStays
  <2>4. SocketsTyped'
    BY <1>1, <2>1 DEF SocketsTyped
  <2>5. o \in Started /\ o \notin completed /\ o \notin operations /\ ops[o].pc # "signal"
    BY <1>1, <2>1 DEF OwnedOnce
  <2>6. activeOps' = Cardinality(Started' \ completed')
    <3>1. Cardinality(Started \ (completed \cup {o})) = Cardinality(Started \ completed) - 1
      BY <1>1, <2>5, UncompletedCount
    <3> QED
      BY <1>1, <2>1, <2>2, <3>1 DEF OwnedOnce
  <2>7. \A p \in Ops : <<p, "gone">> \in sweep' => p # o /\ <<p, "gone">> \in sweep
    BY <2>1
  <2>8. OwnedOnce'
    BY <1>1, <2>1, <2>2, <2>5, <2>6, <2>7 DEF OwnedOnce
  <2> QED
    BY <2>3, <2>4, <2>8 DEF SocketInv
<1> QED
  BY <1>2, <1>3, <1>4, <1>5, <1>6

\* Close completes the current operation if nobody else has taken it.
LEMMA CloseStep == ASSUME SocketInv, Close PROVE SocketInv'
<1>1. /\ socket' = [state |-> "closed", conn |-> FALSE, closed |-> TRUE]
      /\ UNCHANGED <<ops, overdue, sweep>>
  BY DEF Close
<1>2. Started' = Started /\ \A p \in Ops : Transfers(p)' <=> Transfers(p)
  BY <1>1 DEF Started, Transfers
<1>3. TransfersAlone'
  BY <1>1, <1>2 DEF SocketInv, TransfersAlone
<1>4. SocketsTyped /\ OwnedOnce /\ Started \in SUBSET Ops
  BY DEF SocketInv, Started
<1>5. CASE ~(currentOp \in operations /\ currentOp \notin completed /\ currentOp # 0)
  <2>1. operations' = operations /\ completed' = completed /\ currentOp' \in Ops \cup {0}
        /\ activeOps' = activeOps
    <3>1. CASE currentOp # 0 /\ currentOp \notin completed
      <4>1. currentOp \notin operations /\ {currentOp} \cap operations = {}
        BY <1>5, <3>1
      <4>2. Cardinality({currentOp} \cap operations) = 0
        BY <4>1, FS_EmptySet
      <4> QED
        BY <1>4, <3>1, <4>1, <4>2 DEF Close, SocketsTyped
    <3>2. CASE ~(currentOp # 0 /\ currentOp \notin completed)
      BY <1>4, <3>2 DEF Close, SocketsTyped
    <3> QED
      BY <3>1, <3>2
  <2>2. SocketsTyped'
    BY <1>1, <1>4, <2>1 DEF SocketsTyped
  <2>3. OwnedOnce'
    BY <1>1, <1>2, <1>4, <2>1 DEF OwnedOnce
  <2> QED
    BY <1>3, <2>2, <2>3 DEF SocketInv
<1>6. CASE currentOp \in operations /\ currentOp \notin completed /\ currentOp # 0
  <2> DEFINE o == currentOp
  <2>1. o \in Ops /\ o \in Started /\ ops[o].pc # "signal" /\ <<o, "gone">> \notin sweep
    BY <1>4, <1>6 DEF OwnedOnce
  <2>2. Cardinality({o} \cap operations) = 1
    <3>1. {o} \cap operations = {o}
      BY <1>6
    <3> QED
      BY <3>1, FS_Singleton
  <2>3. /\ operations' = operations \ {o} /\ completed' = completed \cup {o} /\ currentOp' = 0
        /\ activeOps' = activeOps - 1
    BY <1>6, <2>2 DEF Close
  <2>4. SocketsTyped'
    BY <1>1, <1>4, <2>3 DEF SocketsTyped
  <2>5. activeOps' = Cardinality(Started' \ completed')
    <3>1. Cardinality(Started \ (completed \cup {o})) = Cardinality(Started \ completed) - 1
      BY <1>4, <1>6, <2>1, UncompletedCount
    <3> QED
      BY <1>2, <1>4, <2>3, <3>1 DEF OwnedOnce
  <2>6. OwnedOnce'
    BY <1>1, <1>2, <1>4, <2>1, <2>3, <2>5 DEF OwnedOnce
  <2> QED
    BY <1>3, <2>4, <2>6 DEF SocketInv
<1> QED
  BY <1>5, <1>6

LEMMA SocketInitial == SocketInit => SocketInv
<1> SUFFICES ASSUME SocketInit PROVE SocketInv
  OBVIOUS
<1> USE DEF SocketInit
<1>1. ops \in [Ops -> [kind : {"none", "connect", "send", "receive"}, pc : OpPlaces]]
  BY DEF OpPlaces
<1>2. \A o \in Ops : ops[o].pc = "none" /\ ops[o].kind = "none"
  OBVIOUS
<1>3. Started = {} /\ \A o \in Ops : ~Transfers(o)
  BY <1>2 DEF Started, Transfers
<1>4. SocketsTyped
  BY <1>1 DEF SocketsTyped
<1>5. OwnedOnce
  <2>1. Started \ completed = {}
    BY <1>3
  <2> QED
    BY <1>2, <1>3, <2>1, FS_EmptySet DEF OwnedOnce
<1>6. TransfersAlone
  BY <1>2, <1>3 DEF TransfersAlone
<1> QED
  BY <1>4, <1>5, <1>6 DEF SocketInv

\* Every step keeps the operations accounted for.
LEMMA SocketStep == SocketInv /\ [SocketNext]_socketVars => SocketInv'
<1> SUFFICES ASSUME SocketInv, [SocketNext]_socketVars PROVE SocketInv'
  OBVIOUS
<1>1. CASE ConnectDenied \/ ReceiveSync
  <2>1. UNCHANGED <<currentOp, ops, managerVars>> /\ setState("error")
    BY <1>1 DEF ConnectDenied, ReceiveSync
  <2> QED
    BY <2>1, StateStep
<1>2. ASSUME NEW o \in Ops, Connect(o) \/ SendAsync(o) \/ ReceiveAsync(o) PROVE SocketInv'
  <2>1. CASE Connect(o)
    <3>1. StartOperation(o, "connect") /\ setState("connecting") /\ socket.state = "idle"
      BY <2>1 DEF Connect
    <3> QED
      BY <3>1, StartStep
  <2>2. CASE SendAsync(o)
    <3>1. StartOperation(o, "send") /\ setState("sending") /\ Usable
      BY <2>2 DEF SendAsync
    <3> QED
      BY <3>1, StartStep
  <2>3. CASE ReceiveAsync(o)
    <3>1. StartOperation(o, "receive") /\ setState("receiving") /\ Usable
      BY <2>3 DEF ReceiveAsync
    <3> QED
      BY <3>1, StartStep
  <2> QED
    BY <1>2, <2>1, <2>2, <2>3
<1>3. ASSUME NEW o \in Ops,
             IOFails(o) \/ DialSucceeds(o) \/ TransferEnds(o) \/ OpTail(o) \/ Overdue(o)
      PROVE  SocketInv'
  BY <1>3, GoroutineStep, ManagerStep DEF OpTail
<1>4. CASE SweepSteps
  <2>1. 1 \in Ops
    BY SocketAssumption DEF Ops
  <2> QED
    BY <1>4, <2>1, ManagerStep DEF SweepSteps
<1>5. CASE UNCHANGED socketVars
  <2>1. UNCHANGED <<socket, currentOp, ops, operations, completed, activeOps, sweep>>
    BY <1>5 DEF socketVars
  <2>2. Started' = Started
    BY <2>1 DEF Started
  <2>3. TransfersAlone'
    BY <2>1, <2>2, AloneStays
  <2> QED
    BY <2>1, <2>2, <2>3 DEF SocketInv, SocketsTyped, OwnedOnce
<1> QED
  BY <1>1, <1>2, <1>3, <1>4, <1>5, CloseStep DEF SocketNext

\* The invariant says what the runs check of the operations.
LEMMA SocketOpsAreExact == SocketInv => SocketOpsExact
<1> SUFFICES ASSUME SocketInv PROVE SocketOpsExact
  OBVIOUS
<1> DEFINE T == {o \in Ops : ops[o].kind # "connect" /\ ops[o].pc \notin {"none", "end"}}
<1>1. \A o, p \in T : o = p
  BY DEF SocketInv, TransfersAlone, Transfers
<1>2. Cardinality(T) <= 1
  <2> HIDE DEF T
  <2>1. CASE T = {}
    BY <2>1, FS_EmptySet
  <2>2. CASE T # {}
    <3>1. PICK o : T = {o}
      BY <1>1, <2>2
    <3> QED
      BY <3>1, FS_Singleton
  <2> QED
    BY <2>1, <2>2
<1> QED
  BY <1>2 DEF SocketInv, OwnedOnce, Started, SocketOpsExact

\* Whichever part runs, the dictionary, the cache of scripts and the operations of
\* a socket are accounted for, at any sizes (cache.go:263-307,
\* shared_dict.go:319-397, socket_manager.go:303-367).
THEOREM ScriptBookkeeping == ScriptFairSpec => []BookkeepingExact
<1> DEFINE Inv == DictInv /\ CodeInv /\ SocketInv
           all == <<part, vars, dictVars, codeVars, socketVars>>
<1>1. ScriptInit => Inv
  BY DictInitial, CodeInitial, SocketInitial DEF ScriptInit
<1>2. Inv /\ [ScriptNext]_all => Inv'
  <2>1. [ScriptNext]_all => [DictNext]_dictVars /\ [CodeNext]_codeVars /\ [SocketNext]_socketVars
    BY DEF ScriptNext
  <2> QED
    BY <2>1, DictStep, CodeStep, SocketStep
<1>3. Inv => BookkeepingExact
  BY DictIsExact, CodeIsExact, SocketOpsAreExact DEF BookkeepingExact
<1> QED
  BY <1>1, <1>2, <1>3, PTL DEF ScriptFairSpec
=============================================================================
