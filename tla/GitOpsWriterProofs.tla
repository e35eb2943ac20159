-------------------------- MODULE GitOpsWriterProofs --------------------------
(***************************************************************************)
(* Proofs about GitOpsWriter, for any number of calls of Apply, workloads, *)
(* tags and foreign commits, and any faults.                               *)
(***************************************************************************)
EXTENDS GitOpsWriter, TLAPS

Entry == [tree : Tree, by : Writer \cup {None}]

Landed(w) == \E i \in 1..Len(branch) : branch[i].by = w

(***************************************************************************)
(* The inductive invariant                                                 *)
(***************************************************************************)

\* A call that has not begun has left no trace.
Asked ==
    \A w \in Writer :
        IF wphase[w] = "idle" THEN want[w] = None /\ w \notin wire
                              ELSE want[w] \in Change

Returned == \A w \in Writer : reply[w] # None <=> wphase[w] = "done"

\* Wherever the clone matters, it is a commit of the branch.
Based ==
    \A w \in Writer :
        \/ w \in wire
        \/ wphase[w] \in {"patch", "push", "sent", "accepted", "rejected"}
        \/ reply[w] \in {"commit", "empty"}
        => base[w] \in 1..Len(branch)

\* A push under way has not landed, and its caller waits for it, has given
\* up with an error, or is gone.
OnWire ==
    \A w \in wire :
        /\ ~Landed(w)
        /\ wphase[w] \in {"sent", "crashed"} \/ reply[w] = "error"

\* A commit that landed is later than its writer's clone, and makes the change
\* the writer was asked to make; the writer was not told otherwise.
Owned ==
    \A i \in 1..Len(branch), w \in Writer : branch[i].by = w =>
        /\ i > base[w]
        /\ want[w] \in Change
        /\ branch[i].tree[want[w].cell] = Written(want[w].tag)
        /\ wphase[w] \in {"accepted", "crashed"} \/ reply[w] \in {"commit", "error"}

\* The change of w is on the branch, made after w's clone.
Made(w) ==
    \E i \in (base[w] + 1)..Len(branch), q \in Writer :
        /\ branch[i].by = q /\ want[q] = want[w]
        /\ branch[i].tree[want[w].cell] = Written(want[w].tag)

ToldOf(w) ==
    /\ wphase[w] = "accepted" \/ reply[w] = "commit" => Made(w)
    /\ reply[w] = "empty" => Cloned(w)[want[w].cell] = Written(want[w].tag)

Told == \A w \in Writer : ToldOf(w)

GitInv ==
    /\ TypeOK
    /\ Len(branch) > 0
    /\ Asked
    /\ Returned
    /\ Based
    /\ OnWire
    /\ Owned
    /\ Told

LEMMA InitGitInv == Init => GitInv
<1> SUFFICES ASSUME Init PROVE GitInv
  OBVIOUS
<1>1. PICK t \in Tree : branch = <<[tree |-> t, by |-> None]>>
  BY DEF Init
<1>2. branch \in Seq(Entry) /\ Len(branch) = 1 /\ branch[1].by = None
  BY <1>1 DEF Entry
<1>3. TypeOK
  BY <1>2 DEF Init, TypeOK, Entry, WPhase
<1>4. Owned
  BY <1>2, WriterConstants DEF Owned
<1>5. Asked /\ Returned /\ Based /\ OnWire /\ Told
  BY WriterConstants DEF Init, Asked, Returned, Based, OnWire, Told, ToldOf, Reply
<1> QED
  BY <1>2, <1>3, <1>4, <1>5 DEF GitInv

LEMMA AppendFacts ==
  ASSUME NEW S, NEW s \in Seq(S), NEW e \in S
  PROVE  /\ Append(s, e) \in Seq(S)
         /\ Len(Append(s, e)) = Len(s) + 1
         /\ \A i \in 1..Len(s) : Append(s, e)[i] = s[i]
         /\ Append(s, e)[Len(s) + 1] = e
  OBVIOUS

LEMMA PatchedType ==
  ASSUME TypeOK, NEW w \in Writer, base[w] \in 1..Len(branch), want[w] \in Change
  PROVE  /\ Patched(w) \in Tree
         /\ Patched(w) = [Cloned(w) EXCEPT ![want[w].cell] = Written(want[w].tag)]
         /\ Patched(w)[want[w].cell] = Written(want[w].tag)
<1>1. branch \in Seq(Entry)
  BY DEF TypeOK, Entry
<1>2. branch[base[w]] \in Entry
  BY <1>1
<1>3. Cloned(w) \in Tree
  BY <1>2 DEF Cloned, Entry
<1>4. want[w].cell \in Cell /\ want[w].tag \in Tag
  BY DEF Change
<1>5. Written(want[w].tag) \in Text
  BY <1>4 DEF Written, Text
<1> QED
  BY <1>3, <1>4, <1>5 DEF Patched, Tree

(***************************************************************************)
(* The steps of a call                                                     *)
(***************************************************************************)

\* Steps of one call that leave the branch alone.
CallStep(w) ==
    \/ \E c \in Cell, t \in Tag : Begin(w, c, t)
    \/ Applying(w) \/ Fail(w) \/ LandStale(w) \/ LandSame(w)

Typed ==
    /\ wphase \in [Writer -> WPhase]
    /\ want \in [Writer -> Change \cup {None}]
    /\ base \in [Writer -> Nat]
    /\ wire \subseteq Writer
    /\ reply \in [Writer -> Reply \cup {None}]

LEMMA CallKeepsInv ==
  ASSUME GitInv, NEW w \in Writer, CallStep(w)
  PROVE  GitInv'
<1> USE WriterConstants
    DEF CallStep, Applying, Begin, Clone, Unpatchable, NothingToCommit,
        Commit, Push, Answer, Fail, LandStale, LandSame, Verdict, Walk, Return,
        Running, WPhase, Reply
<1>0. Typed
  BY DEF GitInv, TypeOK, Typed
<1>1. branch' = branch
  OBVIOUS
<1>2. \A v \in Writer \ {w} :
        /\ wphase'[v] = wphase[v] /\ want'[v] = want[v] /\ base'[v] = base[v]
        /\ reply'[v] = reply[v] /\ (v \in wire' <=> v \in wire)
  BY <1>0 DEF Typed
<1>3. Typed'
  <2>1. \A c \in Cell, t \in Tag : [cell |-> c, tag |-> t] \in Change
    BY DEF Change
  <2>2. Len(branch) \in Nat
    BY DEF GitInv, TypeOK
  <2>3. wphase' \in [Writer -> WPhase] /\ reply' \in [Writer -> Reply \cup {None}]
    BY <1>0 DEF Typed
  <2>4. want' = want \/ \E x \in Change : want' = [want EXCEPT ![w] = x]
    BY <2>1
  <2>5. base' \in [Writer -> Nat] /\ wire' \subseteq Writer
    BY <1>0, <2>2 DEF Typed
  <2>6. want' \in [Writer -> Change \cup {None}]
    BY <1>0, <2>4 DEF Typed
  <2> QED
    BY <2>3, <2>5, <2>6 DEF Typed
<1>4. (want[w] # None => want'[w] = want[w]) /\ (wphase'[w] # "idle")
      /\ (want'[w] \in Change)
  <2>1. \A c \in Cell, t \in Tag : [cell |-> c, tag |-> t] \in Change
    BY DEF Change
  <2> QED
    BY <1>0, <2>1 DEF Typed, GitInv, Asked
<1>5. TypeOK'
  BY <1>1, <1>3 DEF Typed, GitInv, TypeOK
<1>6. Asked'
  BY <1>2, <1>4, <1>0, <1>3 DEF Asked, GitInv, Typed
<1>7. Returned'
  BY <1>0 DEF Returned, GitInv, Typed
<1>8. Based'
  BY <1>0 DEF Based, GitInv, Typed
<1>9. OnWire'
  BY <1>0 DEF OnWire, Landed, Asked, GitInv, Typed, Owned, Returned
<1>10. Owned'
  <2> SUFFICES ASSUME NEW i \in 1..Len(branch), NEW v \in Writer, branch[i].by = v
               PROVE  /\ i > base'[v]
                      /\ want'[v] = want[v]
                      /\ wphase'[v] \in {"accepted", "crashed"} \/ reply'[v] \in {"commit", "error"}
    BY <1>1 DEF Owned, GitInv
  <2>1. /\ i > base[v]
        /\ want[v] \in Change
        /\ wphase[v] \in {"accepted", "crashed"} \/ reply[v] \in {"commit", "error"}
        /\ v \notin wire
        /\ reply[v] # None <=> wphase[v] = "done"
    BY DEF GitInv, Owned, OnWire, Landed, Returned
  <2>2. CASE v # w
    BY <1>2, <2>1, <2>2
  <2>3. CASE v = w
    BY <1>0, <2>1, <2>3 DEF Typed
  <2> QED
    BY <2>2, <2>3
<1>11. Told'
  <2>1. ASSUME NEW v \in Writer, Made(v), want'[v] = want[v], base'[v] = base[v]
        PROVE  Made(v)'
    <3>1. PICK i \in (base[v] + 1)..Len(branch), q \in Writer :
            /\ branch[i].by = q /\ want[q] = want[v]
            /\ branch[i].tree[want[v].cell] = Written(want[v].tag)
      BY <2>1 DEF Made
    <3>2. i \in 1..Len(branch)
      BY <1>0, <3>1 DEF Typed
    <3>3. want[q] \in Change
      BY <3>1, <3>2 DEF GitInv, Owned
    <3>4. want'[q] = want[q]
      BY <1>2, <1>4, <3>3
    <3> QED
      BY <1>1, <2>1, <3>1, <3>4 DEF Made, Written
  <2>2. ASSUME NEW v \in Writer, v # w
        PROVE  ToldOf(v)'
    <3>1. ToldOf(v)
      BY DEF GitInv, Told
    <3> QED
      BY <1>1, <1>2, <2>1, <2>2, <3>1 DEF ToldOf, Cloned, Written
  <2>3. ToldOf(w)'
    <3>1. ToldOf(w)
      BY DEF GitInv, Told
    <3>2. CASE LandSame(w)
      <4>1. PICK q \in Writer : Tip.by = q /\ want[q] = want[w]
        BY <3>2
      <4>2. Len(branch) \in (base[w] + 1)..Len(branch) /\ Len(branch) \in 1..Len(branch)
        BY <1>0, <3>2 DEF Typed, GitInv, TypeOK
      <4>3. branch[Len(branch)].tree[want[q].cell] = Written(want[q].tag)
        BY <4>1, <4>2 DEF GitInv, Owned, Tip
      <4>4. Made(w)
        BY <4>1, <4>2, <4>3 DEF Made, Tip
      <4>5. Made(w)' /\ want' = want /\ base' = base /\ reply' = reply
        BY <2>1, <3>2, <4>4
      <4> QED
        BY <1>1, <3>1, <4>5 DEF ToldOf, Cloned, Written
    <3>3. CASE NothingToCommit(w)
      <4>1. base[w] \in 1..Len(branch) /\ want[w] \in Change
        BY <3>3 DEF GitInv, Based, Asked
      <4>2. Cloned(w)[want[w].cell] = Written(want[w].tag)
        BY <3>3, <4>1, PatchedType DEF GitInv
      <4>3. reply'[w] = "empty" /\ wphase'[w] = "done" /\ want' = want /\ base' = base
        BY <1>0, <3>3 DEF Typed
      <4> QED
        BY <1>1, <4>2, <4>3 DEF ToldOf, Cloned, Written
    <3>4. CASE Answer(w)
      <4>1. want' = want /\ base' = base
        BY <3>4
      <4>2. /\ wphase'[w] = "done" /\ reply'[w] \in {"commit", "error"}
            /\ reply'[w] = "commit" => wphase[w] = "accepted"
        BY <1>0, <3>4 DEF Typed
      <4> QED
        BY <2>1, <3>1, <4>1, <4>2 DEF ToldOf
    <3>5. CASE LandStale(w)
      <4>1. /\ want' = want /\ base' = base /\ reply' = reply
            /\ wphase'[w] = "accepted" => wphase[w] = "accepted"
        BY <1>0, <3>5 DEF Typed
      <4> QED
        BY <1>1, <2>1, <3>1, <4>1 DEF ToldOf, Cloned, Written
    <3>6. CASE \/ \E c \in Cell, t \in Tag : Begin(w, c, t)
               \/ Clone(w) \/ Unpatchable(w) \/ Commit(w) \/ Push(w) \/ Fail(w)
      <4>1. wphase'[w] # "accepted" /\ reply'[w] \notin {"commit", "empty"}
        BY <1>0, <3>6 DEF Typed, GitInv, Returned
      <4> QED
        BY <4>1 DEF ToldOf
    <3> QED
      BY <3>2, <3>3, <3>4, <3>5, <3>6
  <2> QED
    BY <2>2, <2>3 DEF Told
<1>12. (Len(branch) > 0)'
  BY <1>1 DEF GitInv
<1> QED
  BY <1>5, <1>6, <1>7, <1>8, <1>9, <1>10, <1>11, <1>12 DEF GitInv

(***************************************************************************)
(* The process stops                                                       *)
(***************************************************************************)

LEMMA KillKeepsInv ==
  ASSUME GitInv, NEW S, Kill(S)
  PROVE  GitInv'
<1>1. Typed /\ UNCHANGED <<branch, want, base, wire, reply>>
  BY DEF GitInv, TypeOK, Typed, Kill
<1>2. \A v \in Writer :
        wphase'[v] = IF v \in S /\ wphase[v] \in Running THEN "crashed" ELSE wphase[v]
  BY DEF Kill
<1>3. TypeOK'
  BY <1>1 DEF GitInv, TypeOK, Typed, WPhase, Kill
<1>4. Asked' /\ Returned'
  BY <1>1, <1>2 DEF GitInv, Asked, Returned, Running
<1>5. Based' /\ OnWire'
  BY <1>1, <1>2, <1>3 DEF GitInv, Based, OnWire, Landed, Running, Typed
<1>6. Owned'
  BY <1>1, <1>2 DEF GitInv, Owned, Running, Written
<1>7. Told'
  BY <1>1, <1>2 DEF GitInv, Told, ToldOf, Made, Cloned, Written
<1>8. (Len(branch) > 0)'
  BY <1>1 DEF GitInv
<1> QED
  BY <1>3, <1>4, <1>5, <1>6, <1>7, <1>8 DEF GitInv

(***************************************************************************)
(* The branch grows                                                        *)
(***************************************************************************)

\* What a longer branch cannot take back.
LEMMA GrowthKeepsMade ==
  ASSUME GitInv, NEW e \in Entry, branch' = Append(branch, e), UNCHANGED <<want, base>>
  PROVE  /\ branch' \in Seq(Entry) /\ Len(branch') = Len(branch) + 1
         /\ \A i \in 1..Len(branch) : branch'[i] = branch[i]
         /\ branch'[Len(branch) + 1] = e
         /\ \A v \in Writer : Made(v) => Made(v)'
         /\ \A v \in Writer : base[v] \in 1..Len(branch) => Cloned(v)' = Cloned(v)
<1>1. branch \in Seq(Entry) /\ base \in [Writer -> Nat]
  BY DEF GitInv, TypeOK, Entry
<1>2. /\ branch' \in Seq(Entry) /\ Len(branch') = Len(branch) + 1
      /\ \A i \in 1..Len(branch) : branch'[i] = branch[i]
      /\ branch'[Len(branch) + 1] = e
  BY <1>1, AppendFacts
<1>3. ASSUME NEW v \in Writer, Made(v)
      PROVE  Made(v)'
  <2>1. \A i \in (base[v] + 1)..Len(branch) :
          /\ i \in (base[v] + 1)..(Len(branch) + 1)
          /\ branch'[i] = branch[i]
    BY <1>1, <1>2
  <2> QED
    BY <1>2, <1>3, <2>1 DEF Made, Written
<1>4. ASSUME NEW v \in Writer, base[v] \in 1..Len(branch)
      PROVE  Cloned(v)' = Cloned(v)
  BY <1>2, <1>4 DEF Cloned
<1> QED
  BY <1>2, <1>3, <1>4

LEMMA LandKeepsInv ==
  ASSUME GitInv, NEW w \in Writer, LandOk(w)
  PROVE  GitInv'
<1>0. Typed /\ UNCHANGED <<want, base, reply>> /\ branch \in Seq(Entry)
  BY DEF GitInv, TypeOK, Typed, LandOk, Entry
<1>1. /\ w \in wire /\ want[w] \in Change /\ base[w] \in 1..Len(branch)
      /\ Len(branch) = base[w]
      /\ wphase[w] \in {"sent", "crashed"} \/ reply[w] = "error"
  BY DEF GitInv, LandOk, Asked, Based, OnWire
<1>2. Patched(w) \in Tree /\ Patched(w)[want[w].cell] = Written(want[w].tag)
  BY <1>1, PatchedType DEF GitInv
<1> DEFINE e == [tree |-> Patched(w), by |-> w]
<1>3. e \in Entry /\ e.by = w /\ e.tree[want[w].cell] = Written(want[w].tag)
  BY <1>2 DEF Entry
<1>4. branch' = Append(branch, e)
  BY DEF LandOk
<1> HIDE DEF e
<1>5. /\ branch' \in Seq(Entry) /\ Len(branch') = Len(branch) + 1
      /\ \A i \in 1..Len(branch) : branch'[i] = branch[i]
      /\ branch'[Len(branch) + 1] = e
      /\ \A v \in Writer : Made(v) => Made(v)'
      /\ \A v \in Writer : base[v] \in 1..Len(branch) => Cloned(v)' = Cloned(v)
  BY <1>0, <1>3, <1>4, GrowthKeepsMade
<1>6. /\ wire' = wire \ {w}
      /\ wphase' \in [Writer -> WPhase]
      /\ \A v \in Writer :
            \/ wphase'[v] = wphase[v]
            \/ v = w /\ wphase[v] = "sent" /\ wphase'[v] = "accepted"
      /\ wphase[w] = "sent" => wphase'[w] = "accepted"
  <2>0. wphase \in [Writer -> WPhase] /\ wire' = wire \ {w}
    BY <1>0 DEF Typed, LandOk, Verdict
  <2>1. wphase' = IF wphase[w] = "sent" THEN [wphase EXCEPT ![w] = "accepted"] ELSE wphase
    BY DEF LandOk, Verdict
  <2>2. "accepted" \in WPhase
    BY DEF WPhase, Running
  <2>3. CASE wphase[w] = "sent"
    BY <2>0, <2>1, <2>2, <2>3
  <2>4. CASE wphase[w] # "sent"
    BY <2>0, <2>1, <2>4
  <2> QED
    BY <2>3, <2>4
<1>7. TypeOK'
  BY <1>0, <1>5, <1>6 DEF Typed, TypeOK, Entry
<1>8. Asked' /\ Returned'
  BY <1>0, <1>6 DEF GitInv, Asked, Returned
<1>9. Based'
  <2>1. \A n \in 1..Len(branch) : n \in 1..Len(branch')
    BY <1>0, <1>5
  <2> QED
    BY <1>0, <1>1, <1>6, <2>1 DEF GitInv, Based
<1>10. OnWire'
  <2> SUFFICES ASSUME NEW v \in wire'
               PROVE  /\ \A i \in 1..Len(branch') : branch'[i].by # v
                      /\ wphase'[v] \in {"sent", "crashed"} \/ reply'[v] = "error"
    BY DEF OnWire, Landed
  <2>1. /\ v \in wire /\ v # w /\ v \in Writer
        /\ wphase[v] \in {"sent", "crashed"} \/ reply[v] = "error"
        /\ \A i \in 1..Len(branch) : branch[i].by # v
    BY <1>0, <1>6 DEF GitInv, OnWire, Landed, Typed
  <2>2. \A i \in 1..Len(branch') : i \in 1..Len(branch) \/ i = Len(branch) + 1
    BY <1>0, <1>5
  <2> QED
    BY <1>0, <1>3, <1>5, <1>6, <2>1, <2>2
<1>11. Owned'
  <2> SUFFICES ASSUME NEW i \in 1..Len(branch'), NEW v \in Writer, branch'[i].by = v
               PROVE  /\ i > base[v]
                      /\ want[v] \in Change
                      /\ branch'[i].tree[want[v].cell] = Written(want[v].tag)
                      /\ wphase'[v] \in {"accepted", "crashed"}
                         \/ reply[v] \in {"commit", "error"}
    BY <1>0 DEF Owned, Written
  <2>1. CASE i \in 1..Len(branch)
    <3>1. branch[i].by = v /\ branch'[i] = branch[i]
      BY <1>5, <2>1
    <3>2. /\ i > base[v]
          /\ want[v] \in Change
          /\ branch[i].tree[want[v].cell] = Written(want[v].tag)
          /\ wphase[v] \in {"accepted", "crashed"} \/ reply[v] \in {"commit", "error"}
      BY <2>1, <3>1 DEF GitInv, Owned
    <3> QED
      BY <1>6, <3>1, <3>2
  <2>2. CASE i = Len(branch) + 1
    <3>1. v = w /\ branch'[i] = e
      BY <1>3, <1>5, <2>2
    <3>2. i > base[w]
      BY <1>0, <1>1, <2>2
    <3> QED
      BY <1>1, <1>3, <1>6, <3>1, <3>2
  <2> QED
    BY <1>0, <1>5, <2>1, <2>2
<1>12. Told'
  <2>1. ASSUME NEW v \in Writer, v # w \/ wphase'[w] # "accepted"
        PROVE  ToldOf(v)'
    <3>1. ToldOf(v) /\ (reply[v] = "empty" => Cloned(v)' = Cloned(v))
      BY <1>5 DEF GitInv, Told, Based
    <3> QED
      BY <1>0, <1>5, <1>6, <2>1, <3>1 DEF ToldOf, Written
  <2>2. Made(w)'
    <3>1. Len(branch) + 1 \in (base[w] + 1)..Len(branch')
      BY <1>0, <1>1, <1>5
    <3> QED
      BY <1>0, <1>3, <1>5, <3>1 DEF Made, Written
  <2>3. reply[w] = "empty" => Cloned(w)'[want[w].cell] = Written(want[w].tag)
    BY <1>1, <1>5 DEF GitInv, Told, ToldOf
  <2>4. ToldOf(w)'
    BY <1>0, <2>2, <2>3 DEF ToldOf, Written
  <2> QED
    BY <2>1, <2>4 DEF Told
<1>13. (Len(branch) > 0)'
  BY <1>0, <1>5
<1> QED
  BY <1>7, <1>8, <1>9, <1>10, <1>11, <1>12, <1>13 DEF GitInv

LEMMA OutsideKeepsInv ==
  ASSUME GitInv, NEW c \in Cell, NEW x \in Text, Outside(c, x)
  PROVE  GitInv'
<1>0. /\ Typed /\ branch \in Seq(Entry) /\ Len(branch) > 0
      /\ UNCHANGED <<wphase, want, base, wire, reply>>
  BY DEF GitInv, TypeOK, Typed, Outside, Entry
<1> DEFINE e == [tree |-> [Tip.tree EXCEPT ![c] = x], by |-> None]
<1>1. Tip \in Entry
  BY <1>0 DEF Tip
<1>2. e \in Entry /\ e.by = None
  BY <1>1 DEF Entry, Tree
<1>3. branch' = Append(branch, e)
  BY DEF Outside
<1> HIDE DEF e
<1>4. /\ branch' \in Seq(Entry) /\ Len(branch') = Len(branch) + 1
      /\ \A i \in 1..Len(branch) : branch'[i] = branch[i]
      /\ branch'[Len(branch) + 1] = e
      /\ \A v \in Writer : Made(v) => Made(v)'
      /\ \A v \in Writer : base[v] \in 1..Len(branch) => Cloned(v)' = Cloned(v)
  BY <1>0, <1>2, <1>3, GrowthKeepsMade
<1>5. \A i \in 1..Len(branch'), v \in Writer :
        branch'[i].by = v => i \in 1..Len(branch) /\ branch'[i] = branch[i]
  <2>1. \A i \in 1..Len(branch') : i \in 1..Len(branch) \/ i = Len(branch) + 1
    BY <1>0, <1>4
  <2> QED
    BY <1>2, <1>4, <2>1, WriterConstants
<1>6. TypeOK'
  BY <1>0, <1>4 DEF Typed, TypeOK, Entry
<1>7. Asked' /\ Returned'
  BY <1>0 DEF GitInv, Asked, Returned
<1>8. Based'
  <2>1. \A n \in 1..Len(branch) : n \in 1..Len(branch')
    BY <1>0, <1>4
  <2> QED
    BY <1>0, <2>1 DEF GitInv, Based
<1>9. OnWire'
  BY <1>0, <1>5 DEF GitInv, OnWire, Landed, Typed
<1>10. Owned'
  BY <1>0, <1>5 DEF GitInv, Owned, Written
<1>11. Told'
  <2> SUFFICES ASSUME NEW v \in Writer PROVE ToldOf(v)'
    BY DEF Told
  <2>1. ToldOf(v) /\ (reply[v] = "empty" => Cloned(v)' = Cloned(v))
    BY <1>4 DEF GitInv, Told, Based
  <2> QED
    BY <1>0, <1>4, <2>1 DEF ToldOf, Written
<1>12. (Len(branch) > 0)'
  BY <1>0, <1>4
<1> QED
  BY <1>6, <1>7, <1>8, <1>9, <1>10, <1>11, <1>12 DEF GitInv

LEMMA StepKeepsInv == GitInv /\ [Next]_gitVars => GitInv'
<1> SUFFICES ASSUME GitInv, [Next]_gitVars PROVE GitInv'
  OBVIOUS
<1>1. CASE \E w \in Writer, c \in Cell, t \in Tag : Begin(w, c, t)
  BY <1>1, CallKeepsInv DEF CallStep
<1>2. CASE \E w \in Writer : Applying(w) \/ Fail(w) \/ LandStale(w) \/ LandSame(w)
  BY <1>2, CallKeepsInv DEF CallStep
<1>3. CASE \E w \in Writer : LandOk(w)
  BY <1>3, LandKeepsInv
<1>4. CASE \E w \in Writer : Kill({w})
  BY <1>4, KillKeepsInv
<1>5. CASE \E c \in Cell, x \in Text : Outside(c, x)
  BY <1>5, OutsideKeepsInv
<1>6. CASE UNCHANGED gitVars
  <2>1. UNCHANGED <<branch, wphase, want, base, wire, reply>>
    BY <1>6 DEF gitVars
  <2>2. TypeOK' /\ (Len(branch) > 0)'
    BY <2>1 DEF GitInv, TypeOK
  <2>3. Asked' /\ Returned' /\ Based' /\ OnWire'
    BY <2>1 DEF GitInv, Asked, Returned, Based, OnWire, Landed
  <2>4. Owned'
    BY <2>1 DEF GitInv, Owned, Written
  <2>5. Told'
    BY <2>1 DEF GitInv, Told, ToldOf, Made, Cloned, Written
  <2> QED
    BY <2>2, <2>3, <2>4, <2>5 DEF GitInv
<1> QED
  BY <1>1, <1>2, <1>3, <1>4, <1>5, <1>6 DEF Next, Land, Quiet

LEMMA InvHolds == Spec => []GitInv
<1> QED
  BY InitGitInv, StepKeepsInv, PTL DEF Spec

(***************************************************************************)
(* What follows                                                            *)
(***************************************************************************)

\* The variables of Apply keep their types.
THEOREM TypeCorrect == Spec => []TypeOK
<1>1. GitInv => TypeOK
  BY DEF GitInv
<1> QED
  BY <1>1, InvHolds, PTL

\* What Apply returns is true of the branch: a hash only for a change that
\* is on it, an empty hash only for a tag that was there.
THEOREM RepliesAreTrue == Spec => []ReplyTruth
<1>1. ASSUME GitInv PROVE ReplyTruth
  <2> SUFFICES ASSUME NEW w \in Writer
               PROVE  /\ reply[w] = "commit" =>
                           \E i \in (base[w] + 1)..Len(branch) :
                               branch[i].by # None /\ want[branch[i].by] = want[w]
                               /\ branch[i].tree[want[w].cell] = Written(want[w].tag)
                      /\ reply[w] = "empty" =>
                           Cloned(w)[want[w].cell] = Written(want[w].tag)
    BY DEF ReplyTruth
  <2>1. ToldOf(w)
    BY <1>1 DEF GitInv, Told
  <2> QED
    BY <2>1, WriterConstants DEF ToldOf, Made
<1> QED
  BY <1>1, InvHolds, PTL

LEMMA InitRefines == Init => Ledger!Init
<1> SUFFICES ASSUME Init PROVE Ledger!Init
  OBVIOUS
<1>1. PICK t \in Tree : branch = <<[tree |-> t, by |-> None]>>
  BY DEF Init
<1>2. Len(branch) = 1 /\ branch[1].by = None /\ Tip.tree = t
  BY <1>1 DEF Tip
<1>3. {w \in Writer : \E i \in 1..Len(branch) : branch[i].by = w} = {}
  BY <1>2, WriterConstants
<1> QED
  BY <1>2, <1>3 DEF Init, Ledger!Init, Tree

LEMMA StepRefines ==
  GitInv /\ [Next]_gitVars => [Ledger!Next]_Ledger!ledgerVars
<1> SUFFICES ASSUME GitInv, [Next]_gitVars PROVE [Ledger!Next]_Ledger!ledgerVars
  OBVIOUS
<1> DEFINE applied == {w \in Writer : \E i \in 1..Len(branch) : branch[i].by = w}
<1>1. ASSUME UNCHANGED <<branch, want, reply>>
      PROVE  UNCHANGED Ledger!ledgerVars
  BY <1>1 DEF Ledger!ledgerVars, Tip
<1>2. ASSUME NEW w \in Writer, NEW c \in Cell, NEW t \in Tag, Begin(w, c, t)
      PROVE  Ledger!Ask(w, c, t)
  BY <1>2 DEF Begin, Ledger!Ask, GitInv, Asked, Tip
<1>3. ASSUME NEW w \in Writer, NEW a \in Reply, Return(w, a), wphase[w] \in Running,
             UNCHANGED <<branch, want>>,
             a = "commit" => wphase[w] = "accepted",
             a \in {"reject", "empty"} => wphase[w] = "patch"
      PROVE  Ledger!Answer(w, a)
  <2>1. want[w] \in Change /\ want[w] # None /\ reply[w] = None
    BY <1>3, WriterConstants DEF GitInv, Asked, Returned, Running
  <2>2. a = "commit" => \E q \in applied : want[q] = want[w]
    <3> SUFFICES ASSUME a = "commit" PROVE \E q \in applied : want[q] = want[w]
      OBVIOUS
    <3>1. Made(w) /\ base[w] \in Nat
      BY <1>3 DEF GitInv, Told, ToldOf, TypeOK
    <3>2. \A i \in (base[w] + 1)..Len(branch) : i \in 1..Len(branch)
      BY <3>1
    <3> QED
      BY <3>1, <3>2 DEF Made
  <2>3. a \in {"reject", "empty"} => w \notin applied
    BY <1>3, <2>1, WriterConstants DEF GitInv, Owned, Reply
  <2> QED
    BY <1>3, <2>1, <2>2, <2>3 DEF Ledger!Answer, Ledger!Refusal, Return, Tip
<1>4. ASSUME NEW w \in Writer, Unpatchable(w) \/ NothingToCommit(w) \/ Answer(w) \/ Fail(w)
      PROVE  \E a \in Reply : Ledger!Answer(w, a)
  BY <1>3, <1>4 DEF Unpatchable, NothingToCommit, Answer, Fail, Running, Reply
<1>5. ASSUME NEW w \in Writer, LandOk(w)
      PROVE  Ledger!Write(w)
  <2>1. /\ want[w] \in Change /\ want[w] # None /\ base[w] \in 1..Len(branch)
        /\ Len(branch) = base[w] /\ w \notin applied
        /\ wphase[w] \in {"sent", "crashed"} \/ reply[w] = "error"
    BY <1>5, WriterConstants DEF GitInv, LandOk, Asked, Based, OnWire, Landed
  <2>2. reply[w] \notin {"reject", "empty"}
    BY <2>1, WriterConstants DEF GitInv, Returned, Reply
  <2>3. /\ Patched(w) \in Tree
        /\ Patched(w) = [Tip.tree EXCEPT ![want[w].cell] = Written(want[w].tag)]
    BY <2>1, PatchedType DEF GitInv, Cloned, Tip
  <2> DEFINE e == [tree |-> Patched(w), by |-> w]
  <2>4. e \in Entry /\ e.by = w /\ e.tree = Patched(w)
    BY <2>3 DEF Entry
  <2>5. branch' = Append(branch, e) /\ UNCHANGED <<want, base, reply>>
    BY <1>5 DEF LandOk
  <2> HIDE DEF e
  <2>6. /\ Len(branch') = Len(branch) + 1
        /\ \A i \in 1..Len(branch) : branch'[i] = branch[i]
        /\ branch'[Len(branch) + 1] = e
    BY <2>4, <2>5, GrowthKeepsMade
  <2>7. Tip' = e
    BY <2>6 DEF Tip
  <2>8. applied' = applied \cup {w}
    <3>1. Len(branch) \in Nat
      BY DEF GitInv, TypeOK
    <3>2. \A i : i \in 1..Len(branch') <=> i \in 1..Len(branch) \/ i = Len(branch) + 1
      BY <2>6, <3>1
    <3> QED
      BY <2>4, <2>6, <3>2
  <2> QED
    BY <2>1, <2>2, <2>3, <2>4, <2>5, <2>7, <2>8 DEF Ledger!Write, Ledger!Refusal
<1>6. ASSUME NEW c \in Cell, NEW x \in Text, Outside(c, x)
      PROVE  Ledger!Outside(c, x)
  <2>1. branch \in Seq(Entry) /\ Len(branch) \in Nat /\ Len(branch) > 0
    BY DEF GitInv, TypeOK, Entry
  <2> DEFINE e == [tree |-> [Tip.tree EXCEPT ![c] = x], by |-> None]
  <2>2. e \in Entry /\ e.by = None /\ e.tree = [Tip.tree EXCEPT ![c] = x]
    <3>1. Tip \in Entry
      BY <2>1 DEF Tip
    <3> QED
      BY <3>1 DEF Entry, Tree
  <2>3. branch' = Append(branch, e) /\ UNCHANGED <<want, base, reply>>
    BY <1>6 DEF Outside
  <2> HIDE DEF e
  <2>4. /\ Len(branch') = Len(branch) + 1
        /\ \A i \in 1..Len(branch) : branch'[i] = branch[i]
        /\ branch'[Len(branch) + 1] = e
    BY <2>2, <2>3, GrowthKeepsMade
  <2>5. Tip' = e
    BY <2>4 DEF Tip
  <2>6. applied' = applied
    <3>1. \A i : i \in 1..Len(branch') <=> i \in 1..Len(branch) \/ i = Len(branch) + 1
      BY <2>1, <2>4
    <3> QED
      BY <2>2, <2>4, <3>1, WriterConstants
  <2> QED
    BY <2>2, <2>3, <2>5, <2>6 DEF Ledger!Outside
<1>7. CASE \E w \in Writer, c \in Cell, t \in Tag : Begin(w, c, t)
  BY <1>2, <1>7 DEF Ledger!Next
<1>8. CASE \E w \in Writer :
             Unpatchable(w) \/ NothingToCommit(w) \/ Answer(w) \/ Fail(w)
  BY <1>4, <1>8 DEF Ledger!Next, Ledger!Refusal, Reply
<1>9. CASE \E w \in Writer :
             \/ Clone(w) \/ Commit(w) \/ Push(w) \/ LandStale(w) \/ LandSame(w)
             \/ Kill({w})
  BY <1>1, <1>9 DEF Clone, Commit, Push, LandStale, LandSame, Kill
<1>10. CASE \E w \in Writer : LandOk(w)
  BY <1>5, <1>10 DEF Ledger!Next
<1>11. CASE \E c \in Cell, x \in Text : Outside(c, x)
  BY <1>6, <1>11 DEF Ledger!Next
<1>12. CASE UNCHANGED gitVars
  BY <1>1, <1>12 DEF gitVars
<1> QED
  BY <1>7, <1>8, <1>9, <1>10, <1>11, <1>12 DEF Next, Applying, Land, Quiet

\* Apply implements the table of tags: whatever the order of the calls, the
\* late pushes and the foreign commits, every write changes its own cell once.
THEOREM LedgerImplemented == Spec => ImplementsLedger
<1> QED
  BY InitRefines, StepRefines, InvHolds, PTL DEF Spec, ImplementsLedger, Ledger!Spec
====
