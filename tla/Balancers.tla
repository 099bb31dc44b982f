----------------------------- MODULE Balancers -----------------------------
(***************************************************************************)
(* The load balancing algorithms: loadbalance/ and the choice between them *)
(* in proxy/proxy.go and proxy/target_selector.go.  Targets are numbered   *)
(* in the order of the configuration.                                      *)
(***************************************************************************)
EXTENDS Integers, FiniteSetsExt, SequencesExt

CONSTANTS
    NTargets, BackupSet,
    TargetWeight,    \* target -> configured weight; 0 and less count as 1
    TargetConns,     \* max_conns; 0 is no limit
    Circle,          \* the targets of the virtual nodes, in the order of their hashes
    Clients,         \* a client is its hash: where on the circle it falls
    Algorithms,
    TurnPeriod       \* bound: a multiple of every number a counter is divided by

TargetSet == 1..NTargets

\* What totalWeight and currentWeight add up.
WeightOf == [t \in TargetSet |-> IF TargetWeight[t] <= 0 THEN 1 ELSE TargetWeight[t]]
TotalWeight(S) == SumFunctionOnSet(WeightOf, S)

ASSUME BalancerAssumption ==
    /\ NTargets \in Nat \ {0} /\ BackupSet \subseteq TargetSet
    /\ Circle \in Seq(TargetSet) /\ Range(Circle) = TargetSet
    /\ Clients \subseteq Nat /\ IsFiniteSet(Clients) /\ TargetConns \in Nat
    /\ Algorithms \subseteq {"round_robin", "weighted_round_robin", "least_conn", "ip_hash", "random",
                             "least_time", "consistent_hash", "sticky", "lua"}
    /\ TargetWeight \in [TargetSet -> Int] /\ TurnPeriod \in Nat \ {0}
    /\ \A S \in SUBSET TargetSet : S # {} => /\ TurnPeriod % Cardinality(S) = 0
                                             /\ TurnPeriod % TotalWeight(S) = 0

VARIABLES
    balancer,   \* the configured algorithm
    up,         \* the targets whose Healthy is set
    cooling,    \* the targets with max_fails failures, until fail_timeout has passed
    openConns,  \* Connections
    turn,       \* the counter
    circle,     \* {} before it is built, then {the targets on it}
    lat,        \* the average response time; 0 before the first answer
    cookie,     \* per client: the target its cookie names; 0 is none
    at          \* per client: [target, try] of the request on its way; target 0 is none

balVars == <<balancer, up, cooling, openConns, turn, circle, lat, cookie, at>>

BalInit ==
    /\ balancer \in Algorithms
    /\ up = TargetSet /\ cooling = {} /\ openConns = [t \in TargetSet |-> 0] /\ turn = 0
    /\ circle = {} /\ lat = [t \in TargetSet |-> 0]
    /\ cookie = [c \in Clients |-> 0] /\ at = [c \in Clients |-> [target |-> 0, try |-> 0]]

-----------------------------------------------------------------------------
Available(t) ==
    t \in up /\ t \notin cooling /\ (TargetConns > 0 => openConns[t] < TargetConns)

\* filterInto, filterIntoExcluding: backups only when no other target is left
Filtered(excluded) ==
    LET all == {t \in TargetSet \ excluded : Available(t)}
        main == all \ BackupSet
    IN IF main # {} THEN main ELSE all

\* The k-th of S, in the order of the configuration
Nth(S, k) == CHOOSE t \in S : Cardinality({u \in S : u <= t}) = k

\* The targets of S with the least value of f, the first of them.
FirstLeast(S, f) ==
    {t \in S : \A u \in S : f[t] < f[u] \/ (f[t] = f[u] /\ t <= u)}

RoundRobin(S) == {Nth(S, (turn % Cardinality(S)) + 1)}

\* WeightedRoundRobin at counter n
Weighted(S, n) ==
    LET upTo(t) == TotalWeight({u \in S : u <= t})
    IN {Min({t \in S : n % TotalWeight(S) < upTo(t)})}

LeastConnections(S) == FirstLeast(S, openConns)

IPHash(S, key) == {Nth(S, (key % Cardinality(S)) + 1)}

\* Random: the better one of two different targets
TwoChoices(S) ==
    IF Cardinality(S) = 1 THEN S
    ELSE {t \in S : \E u \in S \ {t} : openConns[t] <= openConns[u]}

LatOf(t) == IF lat[t] = 0 THEN 1 ELSE lat[t]
LeastTime(S) == FirstLeast(S, [t \in S |-> LatOf(t)])

\* Mutant of OnCircle: the key picks among the nodes that are left.
OnCircleModulo(S, key) ==
    LET nodes == {p \in DOMAIN Circle : Circle[p] \in S}
    IN IF nodes = {} THEN {} ELSE {Circle[Nth(nodes, (key % Cardinality(nodes)) + 1)]}

\* SelectByKey, SelectExcludingByKey: the first node of a target of S at the key's
\* place or behind it, around the circle.
OnCircle(S, key) ==
    LET from(p) == p >= key
        nodes == {p \in DOMAIN Circle : Circle[p] \in S}
    IN IF nodes = {} THEN {}
       ELSE {Circle[IF \E p \in nodes : from(p) THEN Min({p \in nodes : from(p)})
                    ELSE Min(nodes)]}

\* ensureRebuilt: the circle is built once, of the targets that are healthy then;
\* built of none, it stays empty.
Built == IF circle = {} THEN up ELSE UNION circle

Pick(a, S, key) ==
    IF S = {} THEN {}
    ELSE CASE a \in {"round_robin", "sticky", "lua"} -> RoundRobin(S)
           [] a = "weighted_round_robin" -> Weighted(S, turn)
           [] a = "least_conn" -> LeastConnections(S)
           [] a = "ip_hash" -> IPHash(S, key)
           [] a = "random" -> TwoChoices(S)
           [] a = "least_time" -> LeastTime(S)

\* selectTarget: what may be selected at the first try.  least_conn looks at
\* Healthy only, the circle not even at that; a script may name any target.
Selected(c) ==
    CASE balancer = "consistent_hash" -> OnCircle(Built, c)
      [] balancer = "least_conn" -> Pick(balancer, up, c)
      [] balancer = "sticky" /\ cookie[c] # 0 /\ Available(cookie[c]) -> {cookie[c]}
      [] balancer = "lua" -> TargetSet \cup Pick(balancer, Filtered({}), c)
      [] OTHER -> Pick(balancer, Filtered({}), c)

\* Mutant of SelectedExcluding: the targets that were tried are not left out.
SelectedAgain(c, excluded) ==
    IF balancer = "consistent_hash" THEN OnCircle(Built \cap up, c)
    ELSE Pick(balancer, Filtered({}), c)

\* selectTargetExcluding
SelectedExcluding(c, excluded) ==
    IF balancer = "consistent_hash" THEN OnCircle((Built \cap up) \ excluded, c)
    ELSE Pick(balancer, Filtered(excluded), c)

\* The counter moves when it is asked and there is somebody to choose from.
Turned(S) ==
    turn' = IF balancer \in {"round_robin", "weighted_round_robin", "sticky", "lua"} /\ S # {}
              THEN (turn + 1) % TurnPeriod ELSE turn

Rebuilt == circle' = IF balancer = "consistent_hash" THEN {Built} ELSE circle

-----------------------------------------------------------------------------
(* Requests *)

BalArrive(c, t) ==
    /\ at[c].target = 0 /\ t \in Selected(c)
    /\ at' = [at EXCEPT ![c] = [target |-> t, try |-> 1]]
    /\ openConns' = [openConns EXCEPT ![t] = @ + 1]
    /\ IF balancer = "sticky" /\ cookie[c] # 0 /\ Available(cookie[c])
         THEN UNCHANGED <<turn, cookie>>
         ELSE /\ Turned(Filtered({}))
              /\ cookie' = IF balancer = "sticky" THEN [cookie EXCEPT ![c] = t] ELSE cookie
    /\ Rebuilt /\ UNCHANGED <<balancer, up, cooling, lat>>

\* Nobody can take the request (a script may have named nobody).
NoTarget(c) ==
    /\ at[c].target = 0
    /\ IF balancer = "lua" THEN Filtered({}) = {} ELSE Selected(c) = {}
    /\ Rebuilt /\ UNCHANGED <<balancer, up, cooling, openConns, turn, lat, cookie, at>>

\* The target fails, and another one is tried; the cookie is left alone.
Retry(c, t) ==
    LET old == at[c].target IN
    /\ old # 0 /\ at[c].try = 1 /\ t \in SelectedExcluding(c, {old})
    /\ at' = [at EXCEPT ![c] = [target |-> t, try |-> 2]]
    /\ openConns' = [openConns EXCEPT ![old] = @ - 1, ![t] = @ + 1]
    /\ cooling' = cooling \cup {old}
    /\ Turned(Filtered({old})) /\ Rebuilt /\ UNCHANGED <<balancer, up, lat, cookie>>

\* The target fails, and there is no other one or no try left.
GiveUp(c) ==
    LET old == at[c].target IN
    /\ old # 0 /\ (at[c].try = 2 \/ SelectedExcluding(c, {old}) = {})
    /\ at' = [at EXCEPT ![c] = [target |-> 0, try |-> 0]]
    /\ openConns' = [openConns EXCEPT ![old] = @ - 1] /\ cooling' = cooling \cup {old}
    /\ Rebuilt /\ UNCHANGED <<balancer, up, turn, lat, cookie>>

\* The answer has come after time d; the average moves towards it.
TargetAnswers(c, d) ==
    LET t == at[c].target
        low == IF lat[t] < d THEN lat[t] ELSE d
        high == IF lat[t] < d THEN d ELSE lat[t]
    IN /\ t # 0 /\ at' = [at EXCEPT ![c] = [target |-> 0, try |-> 0]]
       /\ openConns' = [openConns EXCEPT ![t] = @ - 1] /\ cooling' = cooling \ {t}
       /\ IF balancer = "least_time"
            THEN \E v \in IF lat[t] = 0 THEN {d} ELSE low..high : lat' = [lat EXCEPT ![t] = v]
            ELSE UNCHANGED lat
       /\ UNCHANGED <<balancer, up, turn, circle, cookie>>

-----------------------------------------------------------------------------
(* The world around *)

HealthChanges(t) ==
    /\ up' = IF t \in up THEN up \ {t} ELSE up \cup {t}
    /\ UNCHANGED <<balancer, cooling, openConns, turn, circle, lat, cookie, at>>

FailTimeout(t) ==
    /\ t \in cooling /\ cooling' = cooling \ {t}
    /\ UNCHANGED <<balancer, up, openConns, turn, circle, lat, cookie, at>>

CookieExpires(c) ==
    /\ cookie[c] # 0 /\ cookie' = [cookie EXCEPT ![c] = 0]
    /\ UNCHANGED <<balancer, up, cooling, openConns, turn, circle, lat, at>>

BalNext ==
    \/ \E c \in Clients, t \in TargetSet : BalArrive(c, t) \/ Retry(c, t)
    \/ \E c \in Clients : NoTarget(c) \/ GiveUp(c) \/ CookieExpires(c) \/ \E d \in {1, 2} : TargetAnswers(c, d)
    \/ \E t \in TargetSet : HealthChanges(t) \/ FailTimeout(t)

BalSpec == BalInit /\ [][BalNext]_balVars

-----------------------------------------------------------------------------
\* Whatever the algorithm and however health, limits, cookies and the circle
\* have developed, a second try never returns to the target that has just
\* failed, is refused only when nobody else can take it, and goes to a healthy
\* target (balancer.go:409-543, consistent_hash.go:236, sticky.go:143).
RetryElsewhere ==
    \A c \in Clients :
        LET old == at[c].target
            next == SelectedExcluding(c, {old})
        IN old # 0 => /\ old \notin next /\ next \subseteq up
                      /\ next = {} => \A t \in TargetSet \ {old} :
                                        ~Available(t) \/ (balancer = "consistent_hash" /\ t \notin Built)

\* As long as the targets do not change, every target gets exactly its weight of
\* any run of requests as long as the total weight, wherever the counter is
\* (balancer.go:194-231, 446-483).
WeightsRespected ==
    LET S == Filtered({}) IN
    S # {} => \A t \in S :
        Cardinality({k \in 0..(TotalWeight(S) - 1) : Weighted(S, turn + k) = {t}}) = WeightOf[t]

\* A target that is left out moves nobody but its own clients: everyone else
\* stays where the circle has put them (consistent_hash.go:256-274).
CircleMovesFew ==
    balancer = "consistent_hash" =>
        \A c \in Clients, E \in SUBSET TargetSet :
            \A t \in OnCircle(Built \cap up, c) :
                t \notin E => SelectedExcluding(c, E) = {t}

\* The algorithms that promise a share or a place keep it.
SharesKept == WeightsRespected /\ CircleMovesFew
=============================================================================
