------------------------------- MODULE MCPortal -------------------------------
(***************************************************************************)
(* Six parts that share no state, in one run: one of them moves, the others*)
(* stay in one initial state.                                              *)
(***************************************************************************)
EXTENDS StatsCache, History, HelmRelease, Kustomization, ImageTags, CliSession, TLC

VARIABLE part

CONSTANTS
    MaxBad,     \* commands called with bad flags
    q1, q2, q3, s1, s2, web, api, v1, n1, c1, c2, c3, x1, x2, i1, i2

Both == {s1, s2}
Viewer(s) == [slug |-> s, role |-> "viewer"]
MCCaller ==
    (q1 :> <<Viewer(s1), Viewer(s2)>>) @@ (q2 :> <<Viewer(s2), Viewer(s1), [slug |-> Realm, role |-> "devops-admin"]>>)
        @@ (q3 :> <<Viewer(s2), [slug |-> s1, role |-> "editor"]>>)

May(kind, good) == [kind |-> kind, good |-> good]
MCCmdAsked ==
    {May("login", TRUE), May("logout", TRUE), May("product list", FALSE),
     May("env create", TRUE), May("env create", FALSE)}

Parts == {"stats", "history", "helm", "kustomization", "tags", "cli"}

Init ==
    /\ part \in Parts
    /\ StatsInit
    /\ (part = "history" \/ unfinished = {}) /\ HistInit
    /\ (part = "helm" \/ file = [top |-> "absent", of |-> [w \in Workload |-> NoEntry]])
    /\ HelmInit
    /\ (part = "kustomization" \/ images = [form |-> "absent", list |-> <<>>]) /\ KustInit
    /\ (part = "tags" \/ (tagged = [t \in TagName |-> 0] /\ listSize = 1 /\ filtered = FALSE))
    /\ TagsInit
    /\ (part = "cli" \/ (asked = [c \in Cmd |-> May("logout", TRUE)] /\ rotates = TRUE))
    /\ CliInit
    /\ Cardinality({c \in Cmd : ~asked[c].good}) <= MaxBad

Next ==
    /\ UNCHANGED part
    /\ \/ part = "stats" /\ StatsNext
          /\ UNCHANGED <<histVars, helmVars, images, tagVars, cliVars>>
       \/ part = "history" /\ HistNext
          /\ UNCHANGED <<statsVars, helmVars, images, tagVars, cliVars>>
       \/ part = "helm" /\ HelmNext
          /\ UNCHANGED <<statsVars, histVars, images, tagVars, cliVars>>
       \/ part = "kustomization" /\ KustNext
          /\ UNCHANGED <<statsVars, histVars, helmVars, tagVars, cliVars>>
       \/ part = "tags" /\ TagsNext
          /\ UNCHANGED <<statsVars, histVars, helmVars, images, cliVars>>
       \/ part = "cli" /\ CliNext
          /\ UNCHANGED <<statsVars, histVars, helmVars, images, tagVars>>

Spec == Init /\ [][Next]_<<part, statsVars, histVars, helmVars, images, tagVars, cliVars>>

\* The variables of every part keep their types.
PortalTypeOK == StatsTypeOK /\ HistTypeOK /\ HelmTypeOK /\ TagsTypeOK /\ CliTypeOK

Symmetry == Permutations(Cmd)
=============================================================================
