------------------------------ MODULE MCProxy ------------------------------
(* Small instances of Proxy for TLC. *)
EXTENDS Proxy, TLC

CONSTANTS r1, r2, r3, t1, t2

\* Kinds of the requests of the runs.
LockKinds == [r \in Requests |-> "cacheable"]
FailoverKinds == [r \in Requests |-> IF r = r1 THEN "websocket" ELSE "cacheable"]

\* The two cacheable requests of FailoverKinds are interchangeable.
FailoverSymmetry == Permutations({r2, r3})
=============================================================================
