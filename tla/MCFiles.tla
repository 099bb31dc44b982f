------------------------------ MODULE MCFiles ------------------------------
(***************************************************************************)
(* The limiters and the static files in one instance.  They share no       *)
(* state, so that a behaviour is that of one of them, chosen at the start, *)
(* while the other stays as it is.                                         *)
(***************************************************************************)
EXTENDS Limits, StaticFiles, TLC

CONSTANT Parts    \* the parts to check

VARIABLE part

FilesInit ==
    /\ part \in Parts
    /\ IF part = "limits" THEN LimitInit ELSE alg = "token" /\ perKey = FALSE /\ LimitInit
    /\ IF part = "static" THEN StaticInit ELSE fs = [f \in StaticPaths |-> 0] /\ StaticInit

FilesNext ==
    /\ UNCHANGED part
    /\ \/ part = "limits" /\ LimitNext /\ UNCHANGED staticVars
       \/ part = "static" /\ StaticNext /\ UNCHANGED limitVars

-----------------------------------------------------------------------------
(* The instance *)

\* The second version of the fallback file is too large for the cache.
MCSize == [f \in StaticPaths |-> [v \in Versions |-> IF f # First /\ v = 2 THEN 3 ELSE v]]

\* Clients and cache entries are interchangeable; files are not.
MCSymmetry == Permutations(StaticRequests) \cup Permutations(Objs)
=============================================================================
