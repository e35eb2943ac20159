------------------------------ MODULE MCDeploy ------------------------------
(***************************************************************************)
(* Deploy on small instances: two requests for one or two pairs of one     *)
(* workload each.  The convention admits every tag but t3.                 *)
(***************************************************************************)
EXTENDS Deploy, TLC

CONSTANTS r1, r2, p1, p2, k1, k2, s1, w1, t1, t2, t3

Keys == [p \in Pair |-> IF p = p1 THEN k1 ELSE k2]
OneServer == [r \in Request |-> s1]

Bodies == [pair : Pair, workload : Workload, tag : Tag]
Admitted == Pair \X (Tag \ {t3})

\* Requests of one replica are alike, and so are the two tags, and the two
\* pairs with their keys.
Symmetry == Permutations(Request) \cup Permutations({t1, t2})
PairSymmetry == Symmetry \cup {p1 :> p2 @@ p2 :> p1 @@ k1 :> k2 @@ k2 :> k1}

\* A foreign commit sets the tag of a workload, in the form deploys write.
Foreign == [tag : Tag, quoted : {TRUE}]

NoFaults == {}
Broken == {"session", "db", "net"}
Gone == {"cancel", "crash"}
Cancels == {"cancel"}
==============================================================================
