------------------------------ MODULE MCWriter ------------------------------
(***************************************************************************)
(* GitOpsWriter on small instances: two calls of Apply, two workloads, and *)
(* at most one foreign commit.                                             *)
(***************************************************************************)
EXTENDS GitOpsWriter

CONSTANTS w1, w2, c1, c2, t1

GitFaults == {"net", "crash"}
==============================================================================
