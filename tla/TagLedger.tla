------------------------------ MODULE TagLedger ------------------------------
(***************************************************************************)
(* What the gitops writer promises its callers: the branch behaves like a  *)
(* table of image tags, one cell per workload of a HelmRelease, in which a *)
(* deploy changes its own cell, once, at one instant, and nothing else.    *)
(* The instant may come after an "error" answer: a push whose reply is     *)
(* lost may still be applied.                                              *)
(***************************************************************************)

CONSTANTS Writer, Cell, Tag, Text, Written(_), None

VARIABLES
    tags,           \* what each cell holds
    want,           \* the cell and the tag each writer was asked to write
    applied,        \* the writers whose write has taken effect
    reply           \* what each writer was told

ledgerVars == <<tags, want, applied, reply>>

Refusal == {"reject", "empty"}

Init ==
    /\ tags \in [Cell -> Text]
    /\ want = [w \in Writer |-> None]
    /\ applied = {}
    /\ reply = [w \in Writer |-> None]

Ask(w, c, t) ==
    /\ want[w] = None
    /\ want' = [want EXCEPT ![w] = [cell |-> c, tag |-> t]]
    /\ UNCHANGED <<tags, applied, reply>>

\* A refused writer writes nothing, then or later.
Write(w) ==
    /\ want[w] # None /\ w \notin applied /\ reply[w] \notin Refusal
    /\ tags' = [tags EXCEPT ![want[w].cell] = Written(want[w].tag)]
    /\ applied' = applied \cup {w}
    /\ UNCHANGED <<want, reply>>

\* "commit" is said of a write that took effect: the writer's own, or a
\* twin's that asked for the same.
Answer(w, a) ==
    /\ want[w] # None /\ reply[w] = None
    /\ a = "commit" => \E q \in applied : want[q] = want[w]
    /\ a \in Refusal => w \notin applied
    /\ reply' = [reply EXCEPT ![w] = a]
    /\ UNCHANGED <<tags, want, applied>>

Outside(c, x) ==
    /\ tags' = [tags EXCEPT ![c] = x]
    /\ UNCHANGED <<want, applied, reply>>

Next ==
    \/ \E w \in Writer, c \in Cell, t \in Tag : Ask(w, c, t)
    \/ \E w \in Writer : Write(w)
    \/ \E w \in Writer, a \in Refusal \cup {"commit", "error"} : Answer(w, a)
    \/ \E c \in Cell, x \in Text : Outside(c, x)

Spec == Init /\ [][Next]_ledgerVars
==============================================================================
