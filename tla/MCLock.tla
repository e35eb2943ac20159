------------------------------- MODULE MCLock -------------------------------
(***************************************************************************)
(* DeploymentLock on small instances: three requests of two replicas.      *)
(***************************************************************************)
EXTENDS DeploymentLock, TLC

CONSTANTS r1, r2, r3, p1, p2, k1, k2, s1, s2

DistinctKeys == p1 :> k1 @@ p2 :> k2
OnePairKey == p1 :> k1

OneServer == [r \in Request |-> s1]
TwoServers == [r \in Request |-> IF r = r1 THEN s2 ELSE s1]

\* The requests r2 and r3 are served by the same replica.
Symmetry == Permutations({r2, r3})

AllFaults == {"cancel", "session", "crash"}
NoSessionLoss == {"cancel", "crash"}
OnlySessionLoss == {"session"}
==============================================================================
