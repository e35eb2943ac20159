---------------------------- MODULE GitOpsWriter ----------------------------
(***************************************************************************)
(* internal/gitops/writer.go, Apply: a deploy clones the gitops repository *)
(* into a directory of its own, patches one image tag in one HelmRelease,  *)
(* commits, and pushes the branch.  Every call starts from a fresh clone;  *)
(* nothing in the process orders two calls.                                *)
(*                                                                         *)
(* The data is abstracted to what the calls can disturb: a tree of the     *)
(* repository is a function from cells (a workload in the HelmRelease of a *)
(* pair) to the text of its image tag: a tag, quoted or plain, or NoTag    *)
(* where PatchHelmRelease finds no string to patch.  A clone is a position *)
(* on the branch, since the branch only grows.                             *)
(*                                                                         *)
(* Outside the code: the git server, which moves the branch only from the  *)
(* commit the pusher cloned (a fast-forward), and the other committers.    *)
(* A push travels apart from its caller: it may arrive after the caller    *)
(* has given up or stopped.                                                *)
(***************************************************************************)
EXTENDS Naturals, Sequences, FiniteSets

CONSTANTS
    Writer,         \* the calls of Apply
    Cell, Tag,      \* workloads to patch, and image tags
    OciTag,         \* the tags that are valid OCI image tags
    MaxOutside,     \* bound on the commits of other committers
    Faults,         \* the faults of the environment that may happen
    NoTag, None

Text == [tag : Tag, quoted : BOOLEAN] \cup {NoTag}
Tree == [Cell -> Text]
Change == [cell : Cell, tag : Tag]
Reply == {"commit", "empty", "reject", "error"}

ASSUME WriterConstants ==
    /\ OciTag \subseteq Tag
    /\ MaxOutside \in Nat
    /\ None \notin Writer \cup Change \cup Reply

VARIABLES
    branch,         \* the remote branch: trees with the writer that pushed them
    wphase,         \* where Apply stands, per writer
    want,           \* the cell and the tag it was called with
    base,           \* the commit it cloned
    wire,           \* the writers whose push is under way
    reply           \* what Apply returned

gitVars == <<branch, wphase, want, base, wire, reply>>

Running == {"clone", "patch", "push", "sent", "accepted", "rejected"}
WPhase == {"idle", "done", "crashed"} \cup Running

TypeOK ==
    /\ branch \in Seq([tree : Tree, by : Writer \cup {None}])
    /\ wphase \in [Writer -> WPhase]
    /\ want \in [Writer -> Change \cup {None}]
    /\ base \in [Writer -> Nat]
    /\ wire \subseteq Writer
    /\ reply \in [Writer -> Reply \cup {None}]

Init ==
    /\ \E t \in Tree : branch = <<[tree |-> t, by |-> None]>>
    /\ wphase = [w \in Writer |-> "idle"]
    /\ want = [w \in Writer |-> None]
    /\ base = [w \in Writer |-> 0]
    /\ wire = {}
    /\ reply = [w \in Writer |-> None]

Tip == branch[Len(branch)]

\* patchStringNode keeps the quotes of a quoted tag and single-quotes a
\* plain one: an unchanged tag is an unchanged file only if it was quoted.
Written(t) == [tag |-> t, quoted |-> TRUE]

Cloned(w) == branch[base[w]].tree

Patched(w) == [Cloned(w) EXCEPT ![want[w].cell] = Written(want[w].tag)]

Walk(w, p) == wphase' = [wphase EXCEPT ![w] = p]

Return(w, a) ==
    /\ Walk(w, "done")
    /\ reply' = [reply EXCEPT ![w] = a]

(***************************************************************************)
(* Apply                                                                   *)
(***************************************************************************)

Begin(w, c, t) ==
    /\ wphase[w] = "idle"
    /\ Walk(w, "clone")
    /\ want' = [want EXCEPT ![w] = [cell |-> c, tag |-> t]]
    /\ UNCHANGED <<branch, base, wire, reply>>

\* PlainCloneContext into a new directory.
Clone(w) ==
    /\ wphase[w] = "clone"
    /\ Walk(w, "patch")
    /\ base' = [base EXCEPT ![w] = Len(branch)]
    /\ UNCHANGED <<branch, want, wire, reply>>

\* patchAndStage finds no HelmRelease, no string at the workload's path, or
\* a tag it will not write.
Patchable(w) == Cloned(w)[want[w].cell] # NoTag /\ want[w].tag \in OciTag

Unpatchable(w) ==
    /\ wphase[w] = "patch"
    /\ ~Patchable(w)
    /\ Return(w, "reject")
    /\ UNCHANGED <<branch, want, base, wire>>

\* Commit reports ErrEmptyCommit: the file already says what it should.
NothingToCommit(w) ==
    /\ wphase[w] = "patch"
    /\ Patchable(w)
    /\ Patched(w) = Cloned(w)
    /\ Return(w, "empty")
    /\ UNCHANGED <<branch, want, base, wire>>

Commit(w) ==
    /\ wphase[w] = "patch"
    /\ Patchable(w)
    /\ Patched(w) # Cloned(w)
    /\ Walk(w, "push")
    /\ UNCHANGED <<branch, want, base, wire, reply>>

\* PushContext sends the commit.
Push(w) ==
    /\ wphase[w] = "push"
    /\ Walk(w, "sent")
    /\ wire' = wire \cup {w}
    /\ UNCHANGED <<branch, want, base, reply>>

\* The server's answer reaches the caller only if it still waits for it.
Verdict(w, v) ==
    /\ wire' = wire \ {w}
    /\ wphase' = IF wphase[w] = "sent" THEN [wphase EXCEPT ![w] = v] ELSE wphase

\* The branch is where the pusher cloned it: it moves to the new commit.
LandOk(w) ==
    /\ w \in wire
    /\ Len(branch) = base[w]
    /\ branch' = Append(branch, [tree |-> Patched(w), by |-> w])
    /\ Verdict(w, "accepted")
    /\ UNCHANGED <<want, base, reply>>

\* Bug: PushOptions with Force, so the branch moves whatever is on it.
LandForced(w) ==
    /\ w \in wire
    /\ Len(branch) # base[w]
    /\ branch' = Append(branch, [tree |-> Patched(w), by |-> w])
    /\ Verdict(w, "accepted")
    /\ UNCHANGED <<want, base, reply>>

\* Bug: every refusal of the server is taken for "already up to date".
LandIgnored(w) ==
    /\ w \in wire
    /\ Len(branch) # base[w]
    /\ Verdict(w, "accepted")
    /\ UNCHANGED <<branch, want, base, reply>>

\* It is not: the push is refused as a non-fast-forward update.
LandStale(w) ==
    /\ w \in wire
    /\ Len(branch) # base[w]
    /\ Verdict(w, "rejected")
    /\ UNCHANGED <<branch, want, base, reply>>

\* NoErrAlreadyUpToDate: the branch ends with the very commit this writer
\* made.  Two commits are one when parent, tree, author, message and second
\* agree, so a twin that asked for the same change may have pushed it.
LandSame(w) ==
    /\ w \in wire
    /\ Len(branch) = base[w] + 1
    /\ \E q \in Writer \ {w} : Tip.by = q /\ want[q] = want[w]
    /\ Verdict(w, "accepted")
    /\ UNCHANGED <<branch, want, base, reply>>

Land(w) == LandOk(w) \/ LandStale(w) \/ LandSame(w)

\* Bug: a refused push is sent again from the same clone.
AnswerRetries(w) ==
    /\ wphase[w] \in {"accepted", "rejected"}
    /\ \/ wphase[w] = "accepted" /\ Return(w, "commit")
       \/ wphase[w] = "rejected" /\ Walk(w, "push") /\ UNCHANGED reply
    /\ UNCHANGED <<branch, want, base, wire>>

\* PushContext returns: the commit's hash, or the push error.
Answer(w) ==
    /\ wphase[w] \in {"accepted", "rejected"}
    /\ Return(w, IF wphase[w] = "accepted" THEN "commit" ELSE "error")
    /\ UNCHANGED <<branch, want, base, wire>>

\* A step fails with a network or file error, or because the context of the
\* caller was cancelled.  A push already sent stays under way.
Fail(w) ==
    /\ wphase[w] \in Running
    /\ Return(w, "error")
    /\ UNCHANGED <<branch, want, base, wire>>

\* The process of the writers in S stops.
Kill(S) ==
    /\ wphase' = [w \in Writer |->
                    IF w \in S /\ wphase[w] \in Running THEN "crashed" ELSE wphase[w]]
    /\ UNCHANGED <<branch, want, base, wire, reply>>

\* Somebody else commits to the repository.
Outside(c, x) ==
    /\ Cardinality({i \in 2..Len(branch) : branch[i].by = None}) < MaxOutside
    /\ branch' = Append(branch, [tree |-> [Tip.tree EXCEPT ![c] = x], by |-> None])
    /\ UNCHANGED <<wphase, want, base, wire, reply>>

Applying(w) ==
    \/ Clone(w) \/ Unpatchable(w) \/ NothingToCommit(w) \/ Commit(w)
    \/ Push(w) \/ Answer(w)

\* Every call has returned and no push is under way: the model ends here.
Quiet ==
    /\ \A w \in Writer : wphase[w] \in {"done", "crashed"}
    /\ wire = {}
    /\ UNCHANGED gitVars

Next ==
    \/ \E w \in Writer, c \in Cell, t \in Tag : Begin(w, c, t)
    \/ \E w \in Writer : Applying(w) \/ Land(w)
    \/ \E w \in Writer : "net" \in Faults /\ Fail(w)
    \/ \E w \in Writer : "crash" \in Faults /\ wphase[w] \in Running /\ Kill({w})
    \/ \E c \in Cell, x \in Text : Outside(c, x)
    \/ Quiet

Spec == Init /\ [][Next]_gitVars

\* A call that can go on does, and the server answers a push while the
\* caller waits for it.
Fairness ==
    \A w \in Writer :
        WF_gitVars(Applying(w)) /\ WF_gitVars(wphase[w] = "sent" /\ Land(w))

FairSpec == Spec /\ Fairness

(***************************************************************************)
(* Properties                                                              *)
(***************************************************************************)

\* A hash is returned only when the change is on the branch, put there after
\* the clone by this call or by a twin; an empty hash only when the cloned
\* commit already held the tag (commitAndPush's three ways to succeed).
ReplyTruth ==
    \A w \in Writer :
        /\ reply[w] = "commit" =>
             \E i \in (base[w] + 1)..Len(branch) :
                 branch[i].by # None /\ want[branch[i].by] = want[w]
                 /\ branch[i].tree[want[w].cell] = Written(want[w].tag)
        /\ reply[w] = "empty" => Cloned(w)[want[w].cell] = Written(want[w].tag)

\* Apply implements the table of tags: concurrent deploys, pushes that land
\* late and foreign commits never lose one another's changes.
Ledger == INSTANCE TagLedger
            WITH tags <- Tip.tree,
                 applied <- {w \in Writer : \E i \in 1..Len(branch) : branch[i].by = w}

ImplementsLedger == Ledger!Spec

\* Apply returns.
EveryApplyReturns ==
    \A w \in Writer : wphase[w] = "clone" ~> wphase[w] \in {"done", "crashed"}

==============================================================================
