--------------------------- MODULE DeploymentMutex ---------------------------
(***************************************************************************)
(* What internal/store/deployment_lock_store.go promises in its first      *)
(* comment: at most one in-flight deployment per product-environment pair. *)
(* A request enters for a pair nobody is in for, and leaves; several leave *)
(* together when the replica that serves them stops.                       *)
(***************************************************************************)

CONSTANTS Request,      \* deploy requests
          Pair          \* product-environment pairs

VARIABLE inflight       \* the <<request, pair>> that are being deployed

Init == inflight = {}

Enter(r, p) ==
    /\ \A e \in inflight : e[1] # r /\ e[2] # p
    /\ inflight' = inflight \cup {<<r, p>>}

Leave(S) ==
    /\ S # {}
    /\ inflight' = inflight \ S

Next ==
    \/ \E r \in Request, p \in Pair : Enter(r, p)
    \/ \E S \in SUBSET inflight : Leave(S)

Spec == Init /\ [][Next]_inflight
==============================================================================
