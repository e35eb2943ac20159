----------------------------- MODULE DeployProofs -----------------------------
(***************************************************************************)
(* Theorems about Deploy: for any number of requests, pairs, replicas and  *)
(* tags, any pool, any faults, and any number of foreign commits.          *)
(***************************************************************************)
EXTENDS Deploy, TLAPS

Entry == [tree : Git!Tree, by : Request \cup {None}]

(***************************************************************************)
(* The lock store                                                          *)
(***************************************************************************)

LockTyped ==
    /\ Lock!TypeOK
    /\ \A r \in Request : phase[r] # "idle" => target[r] \in Pair

\* What every step of the lock store keeps.
LEMMA LockStepTypes ==
  ASSUME LockTyped, Lock!Next
  PROVE  LockTyped' /\ (live' = live \/ \E p \in Pair : Lock!DeletePair(p))
<1> USE DeployConstants
    DEF LockTyped, Lock!TypeOK, Lock!Phase, Lock!Waiting, Lock!Trying, Lock!Locking,
        Lock!Ended, Lock!KeyOf, Lock!Goto, Lock!Hang, Lock!Freed
<1>1. ASSUME NEW r \in Request, NEW p \in Pair, Lock!Start(r, p)
      PROVE  LockTyped' /\ live' = live
  BY <1>1 DEF Lock!Start
<1>2. ASSUME NEW r \in Request, Lock!GetConn(r) \/ Lock!NoConn(r) \/ Lock!Deadline(r) \/ Lock!TimedOut(r)
                                \/ Lock!TryFails(r) \/ Lock!InsertFails(r) \/ Lock!InfoFails(r)
      PROVE  LockTyped' /\ live' = live
  BY <1>2 DEF Lock!GetConn, Lock!NoConn, Lock!Deadline, Lock!TimedOut, Lock!TryFails,
              Lock!InsertFails, Lock!InfoFails
<1>3. ASSUME NEW r \in Request, Lock!TryLock(r) \/ Lock!InsertRow(r)
      PROVE  LockTyped' /\ live' = live
  BY <1>3 DEF Lock!TryLock, Lock!InsertRow
<1>4. ASSUME NEW r \in Request, Lock!InsertCut(r)
      PROVE  LockTyped' /\ live' = live
  BY <1>4 DEF Lock!InsertCut
<1>5. ASSUME NEW r \in Request, Lock!Undo(r) \/ Lock!Unlock(r)
      PROVE  LockTyped' /\ live' = live
  BY <1>5 DEF Lock!Undo, Lock!Unlock
<1>6. ASSUME NEW r \in Request, Lock!Info(r)
      PROVE  LockTyped' /\ live' = live
  BY <1>6 DEF Lock!Info
<1>7. ASSUME NEW r \in Request, Lock!DeleteRow(r)
      PROVE  LockTyped' /\ live' = live
  BY <1>7 DEF Lock!DeleteRow
<1>8. ASSUME NEW r \in Request, Lock!Cancel(r) \/ Lock!LoseSession(r)
      PROVE  LockTyped' /\ live' = live
  BY <1>8 DEF Lock!Cancel, Lock!LoseSession
<1>9. ASSUME NEW s \in Server, Lock!Crash(s)
      PROVE  LockTyped' /\ live' = live
  BY <1>9 DEF Lock!Crash, Lock!Serving
<1>10. ASSUME NEW p \in Pair, Lock!DeletePair(p)
       PROVE  LockTyped'
  BY <1>10 DEF Lock!DeletePair
<1>11. CASE Lock!Quiet
  BY <1>11 DEF Lock!Quiet, Lock!lockVars
<1>12. ASSUME NEW r \in Request, Lock!Acquiring(r) \/ Lock!Releasing(r)
       PROVE  LockTyped' /\ live' = live
  BY <1>2, <1>3, <1>4, <1>5, <1>6, <1>7, <1>12 DEF Lock!Acquiring, Lock!Releasing
<1> QED
  BY <1>1, <1>8, <1>9, <1>10, <1>11, <1>12 DEF Lock!Next

\* A step of Deploy is one of the lock store, or none of its business.
LEMMA StepOfLock ==
  ASSUME [Next]_vars
  PROVE  [Lock!Next]_Lock!lockVars
<1> USE DEF Lock!lockVars, lockVars
<1>1. ASSUME NEW r \in Request, NEW b \in Body, Refuse(r, b) \/ Receive(r, b)
      PROVE  [Lock!Next]_Lock!lockVars
  <2>1. b.pair \in Pair
    BY DeployConstants
  <2> QED
    BY <1>1, <2>1 DEF Refuse, Receive, Lock!Next
<1>2. ASSUME NEW r \in Request, Acquire(r) \/ Release(r) \/ Disturb(r)
      PROVE  [Lock!Next]_Lock!lockVars
  BY <1>2 DEF Acquire, Release, Disturb, Lock!Next
<1>3. ASSUME NEW r \in Request, Create(r) \/ CreateFails(r) \/ Apply(r) \/ Close(r) \/ Land(r)
      PROVE  UNCHANGED Lock!lockVars
  BY <1>3 DEF Create, CreateFails, Apply, Close, Land
<1>4. ASSUME NEW s \in Server, Sweep(s) \/ Crash(s)
      PROVE  [Lock!Next]_Lock!lockVars
  BY <1>4 DEF Sweep, Crash, Lock!Next
<1>5. ASSUME NEW p \in Pair, DeleteEnv(p)
      PROVE  [Lock!Next]_Lock!lockVars
  BY <1>5 DEF DeleteEnv, Lock!Next
<1>6. ASSUME NEW c \in Cell, NEW x \in ForeignText, Outside(c, x)
      PROVE  UNCHANGED Lock!lockVars
  BY <1>6 DEF Outside
<1>7. CASE TimePasses \/ Quiet \/ UNCHANGED vars
  BY <1>7 DEF TimePasses, Quiet, vars
<1> QED
  BY <1>1, <1>2, <1>3, <1>4, <1>5, <1>6, <1>7 DEF Next, Handle

\* The lock store in Deploy behaves as DeploymentLock says, so that what is
\* proved of DeploymentLock holds of the locks the handler takes.
THEOREM LockIsTheStore == Spec => Lock!Spec
<1>1. Init => Lock!Init
  BY DEF Init
<1>2. [Next]_vars => [Lock!Next]_Lock!lockVars
  BY StepOfLock
<1> QED
  BY <1>1, <1>2, PTL DEF Spec, Lock!Spec

(***************************************************************************)
(* The inductive invariant                                                 *)
(***************************************************************************)

\* What a request that is past its first step asks for.
Asked == \A r \in Request : stage[r] # "new" => body[r] \in Body

\* Apply runs for a request that has inserted its record, with what it asked for.
Begun ==
    \A r \in Request : wphase[r] # "idle" =>
        stage[r] \in {"apply", "close"} /\ want[r] = Change(r)

Unrecorded ==
    \A r \in Request : stage[r] \in {"new", "refused", "lock"} => rec[r] = NoRecord

\* Until its handler closes it a record is open, or closed by the sweep.
Open ==
    \A r \in Request : stage[r] = "apply" =>
        /\ wphase[r] # "idle"
        /\ \/ rec[r].outcome = "in_progress"
           \/ rec[r].outcome = "failure" /\ rec[r].err = "stale"

\* Only a refusal takes a record back.
Kept ==
    \A r \in Request : wphase[r] # "idle" /\ reply[r] # "reject" => Recorded(r)

Pinned == \A r \in Request : Recorded(r) => body[r].pair \in live

Returned == \A r \in Request : reply[r] # None <=> wphase[r] = "done"

\* A push leaves a trace only after it was sent, and then is not refused as
\* unpatchable.
Traced ==
    \A r \in Request : Pushed(r) \/ r \in wire =>
        /\ wphase[r] \in {"sent", "accepted", "rejected", "done", "crashed"}
        /\ reply[r] # "reject"

\* Wherever the clone matters, it is a commit of the branch.
Based ==
    \A r \in Request :
        r \in wire \/ wphase[r] \in {"patch", "push", "sent", "accepted", "rejected"}
           => base[r] \in 1..Len(branch)

\* The branch has had the change of r, and a request made that change.
Made(r) ==
    \E i \in 1..Len(branch) : branch[i].tree[want[r].cell] = Git!Written(want[r].tag)
Ours(r) == \E q \in Request : Pushed(q) /\ want[q] = want[r]

Owned == \A r \in Request : Pushed(r) => Made(r)

Told ==
    \A r \in Request :
        /\ wphase[r] = "accepted" \/ reply[r] = "commit" => Made(r) /\ Ours(r)
        /\ reply[r] = "empty" => Made(r)

Succeeded ==
    \A r \in Request : rec[r].outcome = "success" =>
        /\ wphase[r] # "idle"
        /\ Made(r)
        /\ rec[r].sha = "commit" => Ours(r)

HandlerTyped ==
    /\ stage \in [Request -> Stage]
    /\ body \in [Request -> Body \cup {None}]
    /\ rec \in [Request -> Record \cup {NoRecord}]
    /\ clock \in Nat
    /\ horizon \in 0..clock

\* The handlers' side.
HandlerInv ==
    LockTyped /\ HandlerTyped /\ Asked /\ Begun /\ Unrecorded /\ Open /\ Kept /\ Pinned

\* The branch and the calls of Apply.
GitInv ==
    Git!TypeOK /\ Len(branch) > 0 /\ Returned /\ Traced /\ Based /\ Owned /\ Told

DeployInv == HandlerInv /\ GitInv /\ Succeeded

LEMMA InitKeeps == Init => DeployInv
<1> SUFFICES ASSUME Init PROVE DeployInv
  OBVIOUS
<1>1. PICK t \in Git!Tree : branch = <<[tree |-> t, by |-> None]>>
  BY DEF Init, Git!Init
<1>2. branch \in Seq(Entry) /\ Len(branch) = 1 /\ branch[1].by = None
  BY <1>1 DEF Entry
<1>3. \A r \in Request : ~Pushed(r)
  BY <1>2, DeployConstants DEF Pushed
<1>4. Git!TypeOK
  BY <1>2 DEF Init, Git!Init, Git!TypeOK, Git!WPhase, Entry
<1>5. GitInv
  BY <1>2, <1>3, <1>4, NoneIsApart
  DEF Init, Git!Init, GitInv, Returned, Traced, Based, Owned, Told, Git!Reply
<1>6. LockTyped
  BY DEF Init, Lock!Init, LockTyped, Lock!TypeOK, Lock!Phase
<1>7. HandlerInv
  BY <1>6 DEF Init, Git!Init, HandlerInv, HandlerTyped, Asked, Begun, Unrecorded, Open,
              Kept, Pinned, Recorded, NoRecord, Stage
<1>8. Succeeded
  BY DEF Init, Succeeded, NoRecord
<1> QED
  BY <1>5, <1>7, <1>8 DEF DeployInv

(***************************************************************************)
(* The steps of Apply and of the git server                                *)
(***************************************************************************)

\* What a step of Apply leaves to the handler.
HandlerStays == LockTyped' /\ UNCHANGED <<stage, body, rec, clock, horizon, live>>

LEMMA HandlerKeeps ==
  ASSUME DeployInv, HandlerStays, UNCHANGED want,
         \A r \in Request : wphase'[r] = "idle" <=> wphase[r] = "idle",
         \A r \in Request : reply[r] = "reject" => reply'[r] = "reject"
  PROVE  HandlerInv'
<1> USE DEF DeployInv, HandlerInv, HandlerStays
<1>1. HandlerTyped' /\ Asked' /\ Unrecorded'
  BY DEF HandlerTyped, Asked, Unrecorded
<1>2. Begun' /\ Pinned'
  BY DEF Begun, Change, Pinned, Recorded
<1>3. Open' /\ Kept'
  BY DEF Open, Kept, Recorded
<1> QED
  BY <1>1, <1>2, <1>3

\* What the step of one call must see to.
Keeps(w) ==
    /\ wphase[w] # "idle"
    /\ wphase'[w] \in Git!WPhase \ {"idle"}
    /\ base'[w] \in Nat
    /\ reply'[w] \in Git!Reply \cup {None}
    /\ wire' \subseteq Request
    /\ wphase' = [wphase EXCEPT ![w] = wphase'[w]]
    /\ base' = [base EXCEPT ![w] = base'[w]]
    /\ reply' = [reply EXCEPT ![w] = reply'[w]]
    /\ wire' \ {w} = wire \ {w}
    /\ reply'[w] # None <=> wphase'[w] = "done"
    /\ reply[w] = "reject" => reply'[w] = "reject"
    /\ Pushed(w) \/ w \in wire' =>
         /\ wphase'[w] \in {"sent", "accepted", "rejected", "done", "crashed"}
         /\ reply'[w] # "reject"
    /\ w \in wire' \/ wphase'[w] \in {"patch", "push", "sent", "accepted", "rejected"}
         => base'[w] \in 1..Len(branch)
    /\ wphase'[w] = "accepted" \/ reply'[w] = "commit" => Made(w) /\ Ours(w)
    /\ reply'[w] = "empty" => Made(w)

LEMMA OneCall ==
  ASSUME DeployInv, HandlerStays, NEW w \in Request,
         UNCHANGED <<branch, want>>, Keeps(w)
  PROVE  DeployInv'
<1> USE DEF Keeps
<1>0. /\ wphase \in [Request -> Git!WPhase] /\ base \in [Request -> Nat]
      /\ reply \in [Request -> Git!Reply \cup {None}] /\ wire \subseteq Request
  BY DEF DeployInv, GitInv, Git!TypeOK
<1>1. \A v \in Request \ {w} :
        /\ wphase'[v] = wphase[v] /\ base'[v] = base[v] /\ reply'[v] = reply[v]
        /\ v \in wire' <=> v \in wire
  BY <1>0
<1>2. /\ wphase' \in [Request -> Git!WPhase] /\ base' \in [Request -> Nat]
      /\ reply' \in [Request -> Git!Reply \cup {None}] /\ wire' \subseteq Request
  BY <1>0
<1>3. Git!TypeOK' /\ (Len(branch) > 0)'
  BY <1>2 DEF DeployInv, GitInv, Git!TypeOK
<1>4. HandlerInv'
  <2>1. \A r \in Request : /\ (wphase'[r] = "idle" <=> wphase[r] = "idle")
                           /\ (reply[r] = "reject" => reply'[r] = "reject")
    BY <1>1
  <2> QED
    BY <2>1, HandlerKeeps
<1>5. /\ \A r \in Request : Pushed(r)' <=> Pushed(r)
      /\ \A r \in Request : (Made(r)' <=> Made(r)) /\ (Ours(r)' <=> Ours(r))
  BY DEF Pushed, Made, Ours
<1>6. Returned'
  BY <1>1 DEF DeployInv, GitInv, Returned
<1>7. Traced'
  <2>1. \A r \in Request : Pushed(r) \/ r \in wire' =>
            /\ wphase'[r] \in {"sent", "accepted", "rejected", "done", "crashed"}
            /\ reply'[r] # "reject"
    BY <1>1 DEF DeployInv, GitInv, Traced
  <2> QED
    BY <1>5, <2>1 DEF Traced
<1>8. Based'
  BY <1>1 DEF DeployInv, GitInv, Based
<1>9. Owned'
  BY <1>5 DEF DeployInv, GitInv, Owned
<1>10. Told'
  <2>1. \A r \in Request :
          /\ wphase'[r] = "accepted" \/ reply'[r] = "commit" => Made(r) /\ Ours(r)
          /\ reply'[r] = "empty" => Made(r)
    BY <1>1 DEF DeployInv, GitInv, Told
  <2> QED
    BY <1>5, <2>1 DEF Told
<1>11. Succeeded'
  <2>1. \A r \in Request : wphase[r] # "idle" => wphase'[r] # "idle"
    BY <1>1
  <2>2. rec' = rec
    BY DEF HandlerStays
  <2>3. \A r \in Request : rec[r].outcome = "success" =>
          wphase'[r] # "idle" /\ Made(r) /\ (rec[r].sha = "commit" => Ours(r))
    BY <2>1 DEF DeployInv, Succeeded
  <2> QED
    BY <1>5, <2>2, <2>3 DEF Succeeded
<1> QED
  BY <1>3, <1>4, <1>6, <1>7, <1>8, <1>9, <1>10, <1>11 DEF DeployInv, GitInv

\* The steps of one call that leave the branch alone.
CallStep(w) == Git!Applying(w) \/ Git!Fail(w) \/ Git!LandStale(w) \/ Git!LandSame(w)

LEMMA WantTyped ==
  ASSUME DeployInv, NEW w \in Request, wphase[w] # "idle"
  PROVE  want[w] \in Git!Change
<1>1. body[w] \in Body /\ want[w] = Change(w)
  BY DEF DeployInv, HandlerInv, Begun, Asked
<1> QED
  BY <1>1, DeployConstants DEF Change, Git!Change, Cell

LEMMA CallKeeps ==
  ASSUME DeployInv, HandlerStays, NEW w \in Request, CallStep(w)
  PROVE  DeployInv'
<1> USE NoneIsApart DEF Git!Walk, Git!Return, Git!Running, Git!WPhase, Git!Reply
<1>0. /\ branch \in Seq(Entry) /\ Len(branch) \in Nat /\ Len(branch) > 0
      /\ wphase \in [Request -> Git!WPhase] /\ base \in [Request -> Nat]
      /\ wire \subseteq Request /\ reply \in [Request -> Git!Reply \cup {None}]
  BY DEF DeployInv, GitInv, Git!TypeOK, Entry
<1>1. /\ reply[w] # None <=> wphase[w] = "done"
      /\ Pushed(w) \/ w \in wire =>
             /\ wphase[w] \in {"sent", "accepted", "rejected", "done", "crashed"}
             /\ reply[w] # "reject"
      /\ w \in wire \/ wphase[w] \in {"patch", "push", "sent", "accepted", "rejected"}
             => base[w] \in 1..Len(branch)
      /\ wphase[w] = "accepted" \/ reply[w] = "commit" => Made(w) /\ Ours(w)
      /\ reply[w] = "empty" => Made(w)
  BY DEF DeployInv, GitInv, Returned, Traced, Based, Told
<1>2. /\ wphase = [wphase EXCEPT ![w] = wphase[w]] /\ base = [base EXCEPT ![w] = base[w]]
      /\ reply = [reply EXCEPT ![w] = reply[w]] /\ base[w] \in Nat
      /\ reply[w] \in Git!Reply \cup {None} /\ wire \in SUBSET Request
  BY <1>0
<1>3. CASE Git!Clone(w)
  <2>1. Len(branch) \in 1..Len(branch)
    BY <1>0
  <2>2. Keeps(w)
    BY <1>0, <1>1, <1>2, <1>3, <2>1 DEF Git!Clone, Keeps
  <2> QED
    BY <1>3, <2>2, OneCall DEF Git!Clone
<1>4. CASE Git!Unpatchable(w)
  <2>1. Keeps(w)
    BY <1>0, <1>1, <1>2, <1>4 DEF Git!Unpatchable, Keeps
  <2> QED
    BY <1>4, <2>1, OneCall DEF Git!Unpatchable
<1>5. CASE Git!NothingToCommit(w)
  <2>1. wphase[w] = "patch" /\ Git!Patched(w) = Git!Cloned(w) /\ base[w] \in 1..Len(branch)
    BY <1>1, <1>5 DEF Git!NothingToCommit
  <2>2. want[w].cell \in Cell /\ want[w].tag \in Tag
    BY <2>1, WantTyped DEF Git!Change
  <2>3. branch[base[w]].tree \in [Cell -> Git!Text]
    <3>1. branch[base[w]] \in Entry
      BY <1>0, <2>1
    <3> QED
      BY <3>1 DEF Entry, Git!Tree
  <2>4. branch[base[w]].tree[want[w].cell] = Git!Written(want[w].tag)
    BY <2>1, <2>2, <2>3 DEF Git!Patched, Git!Cloned
  <2>5. Made(w)
    BY <2>1, <2>4 DEF Made
  <2>6. Keeps(w)
    BY <1>0, <1>1, <1>2, <1>5, <2>5 DEF Git!NothingToCommit, Keeps
  <2> QED
    BY <1>5, <2>6, OneCall DEF Git!NothingToCommit
<1>6. CASE Git!Commit(w)
  <2>1. Keeps(w)
    BY <1>0, <1>1, <1>2, <1>6 DEF Git!Commit, Keeps
  <2> QED
    BY <1>6, <2>1, OneCall DEF Git!Commit
<1>7. CASE Git!Push(w)
  <2>1. wire \cup {w} \in SUBSET Request /\ (wire \cup {w}) \ {w} = wire \ {w}
    BY <1>0
  <2>2. Keeps(w)
    BY <1>0, <1>1, <1>2, <1>7, <2>1 DEF Git!Push, Keeps
  <2> QED
    BY <1>7, <2>2, OneCall DEF Git!Push
<1>8. CASE Git!Answer(w)
  <2>1. Keeps(w)
    BY <1>0, <1>1, <1>2, <1>8 DEF Git!Answer, Keeps
  <2> QED
    BY <1>8, <2>1, OneCall DEF Git!Answer
<1>9. CASE Git!Fail(w)
  <2>1. Keeps(w)
    BY <1>0, <1>1, <1>2, <1>9 DEF Git!Fail, Keeps
  <2> QED
    BY <1>9, <2>1, OneCall DEF Git!Fail
<1>10. ASSUME NEW v \in {"accepted", "rejected"}, w \in wire, Git!Verdict(w, v),
              UNCHANGED <<branch, want, base, reply>>,
              v = "accepted" => Made(w) /\ Ours(w)
       PROVE  DeployInv'
  <2>1. wire' = wire \ {w} /\ wire \ {w} \in SUBSET Request
    BY <1>0, <1>10 DEF Git!Verdict
  <2>2. wphase[w] # "idle"
    BY <1>1, <1>10
  <2>3. ASSUME wphase[w] = "sent" PROVE Keeps(w)
    BY <1>0, <1>1, <1>2, <1>10, <2>1, <2>3 DEF Git!Verdict, Keeps
  <2>4. ASSUME wphase[w] # "sent" PROVE Keeps(w)
    BY <1>0, <1>1, <1>2, <1>10, <2>1, <2>2, <2>4 DEF Git!Verdict, Keeps
  <2> QED
    BY <1>10, <2>3, <2>4, OneCall
<1>11. CASE Git!LandStale(w)
  BY <1>10, <1>11 DEF Git!LandStale
<1>12. CASE Git!LandSame(w)
  <2>1. PICK q \in Request : branch[Len(branch)].by = q /\ want[q] = want[w]
    BY <1>12 DEF Git!LandSame, Git!Tip
  <2>2. Pushed(q)
    BY <1>0, <2>1 DEF Pushed
  <2>3. Made(q)
    BY <2>2 DEF DeployInv, GitInv, Owned
  <2>4. Made(w) /\ Ours(w)
    BY <2>1, <2>2, <2>3 DEF Made, Ours
  <2> QED
    BY <1>10, <1>12, <2>4 DEF Git!LandSame
<1> QED
  BY <1>3, <1>4, <1>5, <1>6, <1>7, <1>8, <1>9, <1>11, <1>12 DEF CallStep, Git!Applying

\* A commit more on the branch: by a call that keeps its own word, or by
\* somebody else.
Grown(e) ==
    /\ Len(branch') = Len(branch) + 1
    /\ \A i \in 1..Len(branch) : i \in 1..Len(branch') /\ branch'[i] = branch[i]
    /\ \A i \in 1..Len(branch') : i \in 1..Len(branch) \/ i = Len(branch')
    /\ branch'[Len(branch')] = e

LEMMA Grows ==
  ASSUME branch \in Seq(Entry), NEW e \in Entry, branch' = Append(branch, e), want' = want
  PROVE  /\ Grown(e)
         /\ branch' \in Seq(Entry)
         /\ \A r \in Request : Made(r) => Made(r)'
         /\ \A r \in Request : Pushed(r) => Pushed(r)'
         /\ \A r \in Request : Pushed(r)' => Pushed(r) \/ e.by = r
         /\ \A r \in Request : Ours(r) => Ours(r)'
<1>1. Grown(e) /\ branch' \in Seq(Entry)
  BY DEF Grown
<1>2. \A r \in Request : Made(r) => Made(r)'
  BY <1>1 DEF Grown, Made
<1>3. \A r \in Request : Pushed(r) => Pushed(r)'
  BY <1>1 DEF Grown, Pushed
<1>4. \A r \in Request : Pushed(r)' => Pushed(r) \/ e.by = r
  BY <1>1 DEF Grown, Pushed
<1>5. \A r \in Request : Ours(r) => Ours(r)'
  BY <1>3 DEF Ours
<1> QED
  BY <1>1, <1>2, <1>3, <1>4, <1>5

\* What a commit w put on the branch, or one of somebody else (w is None then),
\* must see to.
LEMMA OneCommit ==
  ASSUME DeployInv, HandlerStays, UNCHANGED <<want, base, reply>>,
         NEW e \in Entry, branch' = Append(branch, e),
         wphase' \in [Request -> Git!WPhase], wire' \subseteq wire,
         \A r \in Request :
            \/ wphase'[r] = wphase[r]
            \/ e.by = r /\ wphase[r] = "sent" /\ wphase'[r] = "accepted",
         \A r \in Request : e.by = r =>
            /\ r \in wire
            /\ e.tree[want[r].cell] = Git!Written(want[r].tag)
  PROVE  DeployInv'
<1>0. /\ branch \in Seq(Entry) /\ Len(branch) \in Nat /\ Len(branch) > 0
      /\ wphase \in [Request -> Git!WPhase] /\ base \in [Request -> Nat]
      /\ wire \subseteq Request /\ reply \in [Request -> Git!Reply \cup {None}]
  BY DEF DeployInv, GitInv, Git!TypeOK, Entry
<1>1. /\ Grown(e)
      /\ branch' \in Seq(Entry)
      /\ \A r \in Request : Made(r) => Made(r)'
      /\ \A r \in Request : Pushed(r) => Pushed(r)'
      /\ \A r \in Request : Pushed(r)' => Pushed(r) \/ e.by = r
      /\ \A r \in Request : Ours(r) => Ours(r)'
  BY <1>0, Grows
<1>2. Git!TypeOK' /\ (Len(branch) > 0)'
  BY <1>0, <1>1 DEF DeployInv, GitInv, Git!TypeOK, Entry, Grown
<1>3. HandlerInv'
  BY HandlerKeeps
<1>4. Returned'
  BY DEF DeployInv, GitInv, Returned
<1>5. Traced'
  <2>1. \A r \in Request : Pushed(r)' \/ r \in wire' =>
            /\ wphase[r] \in {"sent", "accepted", "rejected", "done", "crashed"}
            /\ reply[r] # "reject"
    BY <1>1 DEF DeployInv, GitInv, Traced
  <2> QED
    BY <2>1 DEF Traced
<1>6. Based'
  BY <1>0, <1>1 DEF DeployInv, GitInv, Based, Grown
<1>7. ASSUME NEW r \in Request, e.by = r
      PROVE  Made(r)' /\ Ours(r)'
  <2>1. Len(branch') \in 1..Len(branch')
    BY <1>0, <1>1 DEF Grown
  <2>2. Made(r)'
    BY <1>1, <1>7, <2>1 DEF Made, Grown
  <2>3. Pushed(r)'
    BY <1>1, <1>7, <2>1 DEF Pushed, Grown
  <2> QED
    BY <2>2, <2>3 DEF Ours
<1>8. Owned'
  BY <1>1, <1>7 DEF DeployInv, GitInv, Owned
<1>9. Told'
  <2>1. \A r \in Request :
          /\ wphase[r] = "accepted" \/ reply[r] = "commit" => Made(r)' /\ Ours(r)'
          /\ reply[r] = "empty" => Made(r)'
    BY <1>1 DEF DeployInv, GitInv, Told
  <2>2. \A r \in Request : wphase'[r] = "accepted" => Made(r)' /\ Ours(r)'
    BY <1>7, <2>1
  <2> QED
    BY <2>1, <2>2 DEF Told
<1>10. Succeeded'
  <2>1. \A r \in Request : rec[r].outcome = "success" =>
          wphase'[r] # "idle" /\ Made(r)' /\ (rec[r].sha = "commit" => Ours(r)')
    BY <1>1 DEF DeployInv, Succeeded
  <2> QED
    BY <2>1 DEF Succeeded, HandlerStays
<1> QED
  BY <1>2, <1>3, <1>4, <1>5, <1>6, <1>8, <1>9, <1>10 DEF DeployInv, GitInv

LEMMA PatchTyped ==
  ASSUME DeployInv, NEW w \in Request, wphase[w] # "idle", base[w] \in 1..Len(branch)
  PROVE  /\ Git!Patched(w) \in Git!Tree
         /\ Git!Patched(w) = [branch[base[w]].tree EXCEPT ![want[w].cell] = Git!Written(want[w].tag)]
         /\ Git!Patched(w)[want[w].cell] = Git!Written(want[w].tag)
<1>1. want[w].cell \in Cell /\ want[w].tag \in Tag
  BY WantTyped DEF Git!Change
<1>2. branch[base[w]].tree \in [Cell -> Git!Text]
  <2>1. branch \in Seq(Entry)
    BY DEF DeployInv, GitInv, Git!TypeOK, Entry
  <2>2. branch[base[w]] \in Entry
    BY <2>1
  <2> QED
    BY <2>2 DEF Entry, Git!Tree
<1>3. Git!Written(want[w].tag) \in Git!Text
  BY <1>1 DEF Git!Written, Git!Text
<1> QED
  BY <1>1, <1>2, <1>3 DEF Git!Patched, Git!Cloned, Git!Tree

LEMMA OutsideTyped ==
  ASSUME DeployInv, NEW c \in Cell, NEW x \in ForeignText
  PROVE  [Git!Tip.tree EXCEPT ![c] = x] \in Git!Tree
<1>1. branch \in Seq(Entry) /\ Len(branch) > 0
  BY DEF DeployInv, GitInv, Git!TypeOK, Entry
<1>2. Git!Tip \in Entry
  BY <1>1 DEF Git!Tip
<1> QED
  BY <1>2, ForeignTextBound DEF Entry, Git!Tree

LEMMA LandKeeps ==
  ASSUME DeployInv, HandlerStays, NEW w \in Request, Git!LandOk(w)
  PROVE  DeployInv'
<1>0. /\ branch \in Seq(Entry) /\ Len(branch) \in Nat
      /\ wphase \in [Request -> Git!WPhase] /\ wire \subseteq Request
  BY DEF DeployInv, GitInv, Git!TypeOK, Entry
<1>1. w \in wire /\ wphase[w] # "idle" /\ base[w] \in 1..Len(branch)
  BY DEF Git!LandOk, DeployInv, GitInv, Traced, Based
<1>5. /\ Git!Patched(w) \in Git!Tree
      /\ Git!Patched(w)[want[w].cell] = Git!Written(want[w].tag)
  BY <1>1, PatchTyped
<1> DEFINE e == [tree |-> Git!Patched(w), by |-> w]
<1>6. e \in Entry /\ e.by = w /\ e.tree[want[w].cell] = Git!Written(want[w].tag)
  BY <1>5 DEF Entry
<1>7. branch' = Append(branch, e) /\ UNCHANGED <<want, base, reply>>
  BY DEF Git!LandOk
<1> HIDE DEF e
<1>8. /\ wphase' \in [Request -> Git!WPhase] /\ wire' \subseteq wire
      /\ \A r \in Request :
            \/ wphase'[r] = wphase[r]
            \/ e.by = r /\ wphase[r] = "sent" /\ wphase'[r] = "accepted"
  BY <1>0, <1>6 DEF Git!LandOk, Git!Verdict, Git!WPhase, Git!Running
<1> QED
  BY <1>1, <1>6, <1>7, <1>8, OneCommit

LEMMA OutsideKeeps ==
  ASSUME DeployInv, HandlerStays, NEW c \in Cell, NEW x \in ForeignText, Git!Outside(c, x)
  PROVE  DeployInv'
<1>0. /\ branch \in Seq(Entry) /\ Len(branch) \in Nat /\ Len(branch) > 0
      /\ wphase \in [Request -> Git!WPhase] /\ wire \subseteq Request
  BY DEF DeployInv, GitInv, Git!TypeOK, Entry
<1> DEFINE e == [tree |-> [Git!Tip.tree EXCEPT ![c] = x], by |-> None]
<1>2. e \in Entry /\ \A r \in Request : e.by # r
  BY OutsideTyped, DeployConstants DEF Entry
<1>3. branch' = Append(branch, e) /\ UNCHANGED <<wphase, want, base, wire, reply>>
  BY DEF Git!Outside
<1> HIDE DEF e
<1> QED
  BY <1>0, <1>2, <1>3, OneCommit

LEMMA KillKeeps ==
  ASSUME DeployInv, HandlerStays, NEW S, Git!Kill(S)
  PROVE  DeployInv'
<1>0. /\ wphase \in [Request -> Git!WPhase]
      /\ UNCHANGED <<branch, want, base, wire, reply>>
  BY DEF DeployInv, GitInv, Git!TypeOK, Git!Kill
<1>1. /\ wphase' \in [Request -> Git!WPhase]
      /\ \A r \in Request :
            \/ wphase'[r] = wphase[r]
            \/ wphase[r] \notin {"idle", "done"} /\ wphase'[r] = "crashed"
  BY <1>0 DEF Git!Kill, Git!WPhase, Git!Running
<1>2. Git!TypeOK' /\ (Len(branch) > 0)'
  BY <1>0, <1>1 DEF DeployInv, GitInv, Git!TypeOK
<1>3. HandlerInv'
  BY <1>0, <1>1, HandlerKeeps
<1>4. Returned' /\ Based'
  BY <1>0, <1>1 DEF DeployInv, GitInv, Returned, Based
<1>5. /\ \A r \in Request : Pushed(r)' <=> Pushed(r)
      /\ \A r \in Request : (Made(r)' <=> Made(r)) /\ (Ours(r)' <=> Ours(r))
  BY <1>0 DEF Pushed, Made, Ours
<1>6. Traced' /\ Owned' /\ Told'
  BY <1>0, <1>1, <1>5 DEF DeployInv, GitInv, Traced, Owned, Told
<1>7. Succeeded'
  BY <1>1, <1>5 DEF DeployInv, Succeeded, HandlerStays
<1> QED
  BY <1>2, <1>3, <1>4, <1>6, <1>7 DEF DeployInv, GitInv

(***************************************************************************)
(* The steps of the handler, the sweep and the surroundings                *)
(***************************************************************************)

LEMMA GitStays ==
  ASSUME GitInv, UNCHANGED <<branch, wphase, want, base, wire, reply>>
  PROVE  /\ GitInv'
         /\ \A r \in Request : (Made(r)' <=> Made(r)) /\ (Ours(r)' <=> Ours(r))
<1>1. /\ \A r \in Request : Pushed(r)' <=> Pushed(r)
      /\ \A r \in Request : (Made(r)' <=> Made(r)) /\ (Ours(r)' <=> Ours(r))
  BY DEF Pushed, Made, Ours
<1>2. Git!TypeOK' /\ (Len(branch) > 0)' /\ Returned' /\ Based'
  BY DEF GitInv, Git!TypeOK, Returned, Based
<1>3. Traced' /\ Owned' /\ Told'
  BY <1>1 DEF GitInv, Traced, Owned, Told
<1> QED
  BY <1>1, <1>2, <1>3 DEF GitInv

\* What a step of the handler of r must see to.
Handles(r) ==
    /\ stage' = [stage EXCEPT ![r] = stage'[r]] /\ stage'[r] \in Stage
    /\ body' = [body EXCEPT ![r] = body'[r]] /\ body'[r] \in Body \cup {None}
    /\ rec' = [rec EXCEPT ![r] = rec'[r]] /\ rec'[r] \in Record \cup {NoRecord}
    /\ clock' \in Nat /\ horizon' \in 0..clock'
    /\ body'[r] = body[r] \/ wphase[r] = "idle"
    /\ stage'[r] # "new" => body'[r] \in Body
    /\ wphase[r] # "idle" => stage'[r] \in {"apply", "close"}
    /\ stage'[r] \in {"new", "refused", "lock"} => rec'[r] = NoRecord
    /\ stage'[r] # "apply"
    /\ wphase[r] # "idle" /\ reply[r] # "reject" => rec'[r].outcome # "none"
    /\ rec'[r].outcome # "none" => body'[r].pair \in live
    /\ rec'[r].outcome = "success" =>
         /\ wphase[r] # "idle" /\ Made(r)
         /\ rec'[r].sha = "commit" => Ours(r)

LEMMA OneHandler ==
  ASSUME DeployInv, LockTyped', live' = live, NEW r \in Request, Handles(r),
         UNCHANGED <<branch, wphase, want, base, wire, reply>>
  PROVE  DeployInv'
<1>0. /\ stage \in [Request -> Stage] /\ body \in [Request -> Body \cup {None}]
      /\ rec \in [Request -> Record \cup {NoRecord}]
  BY DEF DeployInv, HandlerInv, HandlerTyped
<1>1. \A q \in Request \ {r} : stage'[q] = stage[q] /\ body'[q] = body[q] /\ rec'[q] = rec[q]
  BY <1>0 DEF Handles
<1>2. HandlerTyped'
  BY <1>0 DEF HandlerTyped, Handles
<1>3. Asked' /\ Unrecorded'
  BY <1>1 DEF DeployInv, HandlerInv, Asked, Unrecorded, Handles
<1>4. Begun'
  BY <1>1 DEF DeployInv, HandlerInv, Begun, Change, Handles
<1>5. Open'
  BY <1>1 DEF DeployInv, HandlerInv, Open, Handles
<1>6. Kept' /\ Pinned'
  BY <1>1 DEF DeployInv, HandlerInv, Kept, Pinned, Recorded, Handles
<1>7. GitInv' /\ \A q \in Request : (Made(q)' <=> Made(q)) /\ (Ours(q)' <=> Ours(q))
  BY GitStays DEF DeployInv
<1>8. Succeeded'
  BY <1>1, <1>7 DEF DeployInv, Succeeded, Handles
<1> QED
  BY <1>2, <1>3, <1>4, <1>5, <1>6, <1>7, <1>8 DEF DeployInv, HandlerInv

\* The steps that leave the handlers' variables and the branch as they are.
LEMMA Still ==
  ASSUME DeployInv, LockTyped', UNCHANGED <<stage, body, rec, clock, live>>,
         horizon' \in 0..clock,
         UNCHANGED <<branch, wphase, want, base, wire, reply>>
  PROVE  DeployInv'
<1> USE DEF DeployInv, HandlerInv
<1>1. HandlerTyped' /\ Asked' /\ Unrecorded'
  BY DEF HandlerTyped, Asked, Unrecorded
<1>2. Begun' /\ Open'
  BY DEF Begun, Change, Open
<1>3. Kept' /\ Pinned'
  BY DEF Kept, Pinned, Recorded
<1>4. GitInv' /\ \A q \in Request : (Made(q)' <=> Made(q)) /\ (Ours(q)' <=> Ours(q))
  BY GitStays
<1>5. Succeeded'
  BY <1>4 DEF Succeeded
<1> QED
  BY <1>1, <1>2, <1>3, <1>4, <1>5

LEMMA LockStepKeepsLive ==
  ASSUME NEW r \in Request,
         Lock!Acquiring(r) \/ Lock!Releasing(r) \/ Lock!Cancel(r) \/ Lock!LoseSession(r)
  PROVE  live' = live
<1>1. CASE Lock!GetConn(r) \/ Lock!NoConn(r) \/ Lock!Deadline(r) \/ Lock!TryLock(r)
  BY <1>1 DEF Lock!GetConn, Lock!NoConn, Lock!Deadline, Lock!TryLock
<1>2. CASE Lock!TimedOut(r) \/ Lock!TryFails(r) \/ Lock!InsertRow(r) \/ Lock!InsertFails(r)
  BY <1>2 DEF Lock!TimedOut, Lock!TryFails, Lock!InsertRow, Lock!InsertFails
<1>3. CASE Lock!InsertCut(r) \/ Lock!Undo(r) \/ Lock!Info(r) \/ Lock!InfoFails(r)
  BY <1>3 DEF Lock!InsertCut, Lock!Undo, Lock!Info, Lock!InfoFails
<1>4. CASE Lock!Releasing(r) \/ Lock!Cancel(r) \/ Lock!LoseSession(r)
  BY <1>4 DEF Lock!Releasing, Lock!DeleteRow, Lock!Unlock, Lock!Cancel, Lock!LoseSession
<1> QED
  BY <1>1, <1>2, <1>3, <1>4 DEF Lock!Acquiring

LEMMA RefuseKeeps ==
  ASSUME DeployInv, LockTyped', NEW r \in Request, NEW b \in Body, Refuse(r, b) \/ Receive(r, b)
  PROVE  DeployInv'
<1>0. /\ stage \in [Request -> Stage] /\ body \in [Request -> Body \cup {None}]
      /\ rec \in [Request -> Record \cup {NoRecord}] /\ clock \in Nat /\ horizon \in 0..clock
  BY DEF DeployInv, HandlerInv, HandlerTyped
<1>1. stage[r] = "new" /\ wphase[r] = "idle" /\ rec[r] = NoRecord
  BY DEF Refuse, Receive, DeployInv, HandlerInv, Begun, Unrecorded
<1>2. /\ live' = live
      /\ UNCHANGED <<branch, wphase, want, base, wire, reply>>
  BY DEF Refuse, Receive, Lock!Start, lockVars, gitVars
<1>3. Handles(r)
  BY <1>0, <1>1 DEF Refuse, Receive, Go, Handles, Stage, NoRecord, gitVars, lockVars
<1> QED
  BY <1>2, <1>3, OneHandler

LEMMA CreateFailsKeeps ==
  ASSUME DeployInv, LockTyped', NEW r \in Request, CreateFails(r)
  PROVE  DeployInv'
<1>0. /\ stage \in [Request -> Stage] /\ body \in [Request -> Body \cup {None}]
      /\ rec \in [Request -> Record \cup {NoRecord}] /\ clock \in Nat /\ horizon \in 0..clock
  BY DEF DeployInv, HandlerInv, HandlerTyped
<1>1. stage[r] = "lock" /\ wphase[r] = "idle" /\ rec[r] = NoRecord /\ body[r] \in Body
  BY DEF CreateFails, DeployInv, HandlerInv, Asked, Begun, Unrecorded
<1>2. /\ live' = live /\ stage'[r] = "close" /\ stage' = [stage EXCEPT ![r] = "close"]
      /\ UNCHANGED <<body, horizon, branch, wphase, want, base, wire, reply>>
  BY <1>0 DEF CreateFails, Go, lockVars, gitVars
<1>3. \/ rec' = rec /\ clock' = clock
      \/ Insert(r) /\ body[r].pair \in live
  BY DEF CreateFails
<1>4. CASE rec' = rec /\ clock' = clock
  <2>1. Handles(r)
    BY <1>0, <1>1, <1>2, <1>4 DEF Handles, Stage, NoRecord
  <2> QED
    BY <1>2, <2>1, OneHandler
<1>5. CASE Insert(r) /\ body[r].pair \in live
  <2>1. /\ rec'[r] = [outcome |-> "in_progress", sha |-> "nil", err |-> "nil", at |-> clock + 1]
        /\ rec' = [rec EXCEPT ![r] = rec'[r]] /\ clock' = clock + 1
    BY <1>0, <1>5 DEF Insert
  <2>2. rec'[r] \in Record
    BY <1>0, <2>1 DEF Record
  <2>3. Handles(r)
    BY <1>0, <1>1, <1>2, <1>5, <2>1, <2>2 DEF Handles, Stage
  <2> QED
    BY <1>2, <2>3, OneHandler
<1> QED
  BY <1>3, <1>4, <1>5

LEMMA CloseKeeps ==
  ASSUME DeployInv, LockTyped', NEW r \in Request, Close(r)
  PROVE  DeployInv'
<1>0. /\ stage \in [Request -> Stage] /\ body \in [Request -> Body \cup {None}]
      /\ rec \in [Request -> Record \cup {NoRecord}] /\ clock \in Nat /\ horizon \in 0..clock
      /\ reply[r] \in Git!Reply
  BY DEF Close, DeployInv, HandlerInv, HandlerTyped, GitInv, Git!TypeOK, Returned
<1>1. /\ stage[r] = "apply" /\ wphase[r] = "done" /\ body[r] \in Body
      /\ rec[r].outcome \in {"in_progress", "failure"}
      /\ body[r].pair \in live
      /\ reply[r] = "commit" => Made(r) /\ Ours(r)
      /\ reply[r] = "empty" => Made(r)
  BY DEF Close, DeployInv, HandlerInv, GitInv, Asked, Open, Pinned, Recorded, Told
<1>2. rec[r] \in Record
  BY <1>0, <1>1 DEF NoRecord
<1>3. /\ live' = live /\ stage'[r] = "close" /\ stage' = [stage EXCEPT ![r] = "close"]
      /\ UNCHANGED <<body, clock, horizon, branch, wphase, want, base, wire, reply>>
  BY <1>0 DEF Close, Go, lockVars, gitVars
<1>4. rec' = rec \/ rec' = [rec EXCEPT ![r] = Closed(r)]
  BY DEF Close
<1>5. CASE rec' = rec
  <2>1. Handles(r)
    BY <1>0, <1>1, <1>2, <1>3, <1>5 DEF Handles, Stage
  <2> QED
    BY <1>3, <2>1, OneHandler
<1>6. CASE rec' = [rec EXCEPT ![r] = Closed(r)]
  <2>0. rec'[r] = Closed(r) /\ rec' = [rec EXCEPT ![r] = rec'[r]]
    BY <1>0, <1>6
  <2>1. CASE reply[r] = "reject"
    <3>1. rec'[r] = NoRecord
      BY <2>0, <2>1 DEF Closed
    <3>2. Handles(r)
      BY <1>0, <1>1, <1>3, <2>0, <2>1, <3>1 DEF Handles, Stage, NoRecord
    <3> QED
      BY <1>3, <3>2, OneHandler
  <2>2. CASE reply[r] = "error"
    <3>1. rec'[r] \in Record /\ rec'[r].outcome = "failure"
      BY <1>2, <2>0, <2>2 DEF Closed, Record
    <3>2. Handles(r)
      BY <1>0, <1>1, <1>3, <2>0, <2>2, <3>1 DEF Handles, Stage
    <3> QED
      BY <1>3, <3>2, OneHandler
  <2>3. CASE reply[r] \in {"commit", "empty"}
    <3>1. /\ rec'[r] \in Record /\ rec'[r].outcome = "success" /\ rec'[r].sha = reply[r]
      BY <1>2, <2>0, <2>3 DEF Closed, Record
    <3>2. Handles(r)
      BY <1>0, <1>1, <1>3, <2>0, <2>3, <3>1 DEF Handles, Stage
    <3> QED
      BY <1>3, <3>2, OneHandler
  <2> QED
    BY <1>0, <2>1, <2>2, <2>3 DEF Git!Reply
<1> QED
  BY <1>4, <1>5, <1>6

LEMMA SweepKeeps ==
  ASSUME DeployInv, LockTyped', NEW s \in Server, Sweep(s)
  PROVE  DeployInv'
<1> USE DEF DeployInv, HandlerInv
<1>0. /\ rec \in [Request -> Record \cup {NoRecord}]
      /\ UNCHANGED <<stage, body, clock, horizon, live, branch, wphase, want, base, wire, reply>>
  BY DEF HandlerTyped, Sweep, lockVars, gitVars
<1>1. \A r \in Request :
        \/ rec'[r] = rec[r]
        \/ /\ rec[r].outcome = "in_progress" /\ rec[r] \in Record
           /\ rec'[r] = [rec[r] EXCEPT !.outcome = "failure", !.err = "stale"]
  <2> SUFFICES ASSUME NEW r \in Request
               PROVE  \/ rec'[r] = rec[r]
                      \/ /\ rec[r].outcome = "in_progress" /\ rec[r] \in Record
                         /\ rec'[r] = [rec[r] EXCEPT !.outcome = "failure", !.err = "stale"]
    OBVIOUS
  <2>1. rec[r].outcome = "in_progress" => rec[r] \in Record
    BY <1>0 DEF NoRecord
  <2>2. rec'[r] = IF Stale(r) THEN [rec[r] EXCEPT !.outcome = "failure", !.err = "stale"]
                  ELSE rec[r]
    BY DEF Sweep
  <2> QED
    BY <2>1, <2>2 DEF Stale
<1>2. \A r \in Request :
        \/ rec'[r] = rec[r]
        \/ /\ rec[r].outcome = "in_progress" /\ rec'[r] \in Record
           /\ rec'[r].outcome = "failure" /\ rec'[r].err = "stale"
  <2> HIDE DEF DeployInv, HandlerInv
  <2> SUFFICES ASSUME NEW r \in Request, rec'[r] # rec[r]
               PROVE  /\ rec[r].outcome = "in_progress" /\ rec'[r] \in Record
                      /\ rec'[r].outcome = "failure" /\ rec'[r].err = "stale"
    OBVIOUS
  <2>1. /\ rec[r].outcome = "in_progress" /\ rec[r] \in Record
        /\ rec'[r] = [rec[r] EXCEPT !.outcome = "failure", !.err = "stale"]
    BY <1>1
  <2>2. rec'[r] = [outcome |-> "failure", sha |-> rec[r].sha, err |-> "stale", at |-> rec[r].at]
    BY <2>1 DEF Record
  <2> QED
    BY <2>1, <2>2 DEF Record
<1>3. rec' \in [Request -> Record \cup {NoRecord}]
  <2>1. \A r \in Request : rec'[r] \in Record \cup {NoRecord}
    BY <1>0, <1>2
  <2>2. rec' = [r \in Request |-> rec'[r]]
    BY DEF Sweep
  <2> QED
    BY <2>1, <2>2
<1>4. HandlerTyped' /\ Asked' /\ Begun'
  BY <1>0, <1>3 DEF HandlerTyped, Asked, Begun, Change
<1>5. Unrecorded' /\ Open'
  BY <1>0, <1>2 DEF Unrecorded, Open, NoRecord
<1>6. Kept' /\ Pinned'
  BY <1>0, <1>2 DEF Kept, Pinned, Recorded
<1>7. GitInv' /\ \A q \in Request : (Made(q)' <=> Made(q)) /\ (Ours(q)' <=> Ours(q))
  BY <1>0, GitStays
<1>8. Succeeded'
  BY <1>0, <1>2, <1>7 DEF Succeeded
<1> QED
  BY <1>4, <1>5, <1>6, <1>7, <1>8

LEMMA DeleteKeeps ==
  ASSUME DeployInv, LockTyped', NEW p \in Pair, DeleteEnv(p)
  PROVE  DeployInv'
<1> USE DEF DeployInv, HandlerInv
<1>0. /\ UNCHANGED <<stage, body, rec, clock, horizon, branch, wphase, want, base, wire, reply>>
      /\ live' = live \ {p}
      /\ \A r \in Request : Recorded(r) => body[r].pair # p
  BY DEF DeleteEnv, Lock!DeletePair, gitVars
<1>1. HandlerTyped' /\ Asked' /\ Begun'
  BY <1>0 DEF HandlerTyped, Asked, Begun, Change
<1>2. Unrecorded' /\ Open' /\ Kept'
  BY <1>0 DEF Unrecorded, Open, Kept, Recorded
<1>3. Pinned'
  BY <1>0 DEF Pinned, Recorded
<1>4. GitInv' /\ \A q \in Request : (Made(q)' <=> Made(q)) /\ (Ours(q)' <=> Ours(q))
  BY <1>0, GitStays
<1>5. Succeeded'
  BY <1>0, <1>4 DEF Succeeded
<1> QED
  BY <1>1, <1>2, <1>3, <1>4, <1>5

\* The record is inserted before the call of Apply begins.
LEMMA CreateKeeps ==
  ASSUME DeployInv, LockTyped', NEW r \in Request, Create(r)
  PROVE  DeployInv'
<1>0. /\ stage \in [Request -> Stage] /\ body \in [Request -> Body \cup {None}]
      /\ rec \in [Request -> Record \cup {NoRecord}] /\ clock \in Nat /\ horizon \in 0..clock
      /\ wphase \in [Request -> Git!WPhase] /\ want \in [Request -> Git!Change \cup {None}]
      /\ reply \in [Request -> Git!Reply \cup {None}]
  BY DEF DeployInv, HandlerInv, HandlerTyped, GitInv, Git!TypeOK
<1>1. /\ stage[r] = "lock" /\ wphase[r] = "idle" /\ rec[r] = NoRecord /\ body[r] \in Body
      /\ ~Pushed(r) /\ r \notin wire /\ reply[r] = None /\ body[r].pair \in live
  BY DEF Create, Git!Begin, DeployInv, HandlerInv, GitInv, Asked, Unrecorded, Traced, Returned
<1>2. /\ stage' = [stage EXCEPT ![r] = "apply"] /\ wphase' = [wphase EXCEPT ![r] = "clone"]
      /\ want' = [want EXCEPT ![r] = Change(r)]
      /\ clock' = clock + 1
      /\ rec' = [rec EXCEPT ![r] = [outcome |-> "in_progress", sha |-> "nil",
                                    err |-> "nil", at |-> clock + 1]]
      /\ UNCHANGED <<body, horizon, live, branch, base, wire, reply>>
  BY DEF Create, Insert, Go, Git!Begin, Git!Walk, Change, lockVars
<1>3. Change(r) \in Git!Change
  BY <1>1, DeployConstants DEF Change, Git!Change, Cell
<1>4. /\ \A q \in Request \ {r} :
           /\ stage'[q] = stage[q] /\ wphase'[q] = wphase[q] /\ want'[q] = want[q]
           /\ rec'[q] = rec[q]
      /\ stage'[r] = "apply" /\ wphase'[r] = "clone" /\ want'[r] = Change(r)
      /\ rec'[r].outcome = "in_progress" /\ rec'[r] \in Record
  <2>1. [outcome |-> "in_progress", sha |-> "nil", err |-> "nil", at |-> clock + 1] \in Record
    BY <1>0 DEF Record
  <2> QED
    BY <1>0, <1>2, <2>1
<1>5. HandlerTyped'
  BY <1>0, <1>2, <1>4 DEF HandlerTyped, Stage
<1>6. Asked' /\ Begun'
  BY <1>1, <1>2, <1>4 DEF DeployInv, HandlerInv, Asked, Begun, Change
<1>7. Unrecorded' /\ Open'
  BY <1>1, <1>2, <1>4 DEF DeployInv, HandlerInv, Unrecorded, Open
<1>8. Kept' /\ Pinned'
  BY <1>1, <1>2, <1>4 DEF DeployInv, HandlerInv, Kept, Pinned, Recorded
<1>9. Git!TypeOK' /\ (Len(branch) > 0)'
  BY <1>0, <1>2, <1>3 DEF DeployInv, GitInv, Git!TypeOK, Git!WPhase, Git!Running
<1>10. /\ \A q \in Request : Pushed(q)' <=> Pushed(q)
       /\ \A q \in Request \ {r} : (Made(q)' <=> Made(q)) /\ (Ours(q) => Ours(q)')
  BY <1>1, <1>2, <1>4 DEF Pushed, Made, Ours
<1>11. Returned' /\ Based'
  BY <1>1, <1>2, <1>4 DEF DeployInv, GitInv, Returned, Based
<1>12. Traced' /\ Owned'
  BY <1>1, <1>2, <1>4, <1>10 DEF DeployInv, GitInv, Traced, Owned
<1>13. Told'
  BY <1>1, <1>2, <1>4, <1>10, NoneIsApart DEF DeployInv, GitInv, Told, Git!Reply
<1>14. Succeeded'
  BY <1>1, <1>4, <1>10 DEF DeployInv, Succeeded
<1> QED
  BY <1>5, <1>6, <1>7, <1>8, <1>9, <1>11, <1>12, <1>13, <1>14
  DEF DeployInv, HandlerInv, GitInv

LEMMA StepKeeps == DeployInv /\ [Next]_vars => DeployInv'
<1> SUFFICES ASSUME DeployInv, [Next]_vars PROVE DeployInv'
  OBVIOUS
<1>1. LockTyped'
  <2>1. LockTyped
    BY DEF DeployInv, HandlerInv
  <2>2. CASE Lock!Next
    BY <2>1, <2>2, LockStepTypes
  <2>3. CASE UNCHANGED Lock!lockVars
    BY <2>1, <2>3 DEF LockTyped, Lock!lockVars, Lock!TypeOK
  <2> QED
    BY <2>2, <2>3, StepOfLock
<1>2. horizon \in 0..clock
  BY DEF DeployInv, HandlerInv, HandlerTyped
<1>3. ASSUME NEW r \in Request, Acquire(r) \/ Release(r) \/ Disturb(r)
      PROVE  DeployInv'
  <2>1. live' = live
    BY <1>3, LockStepKeepsLive DEF Acquire, Release, Disturb
  <2>2. UNCHANGED <<stage, body, rec, clock, horizon, branch, wphase, want, base, wire, reply>>
    BY <1>3 DEF Acquire, Release, Disturb, gitVars
  <2> QED
    BY <1>1, <1>2, <2>1, <2>2, Still
<1>4. ASSUME NEW r \in Request, Apply(r) \/ Land(r)
      PROVE  DeployInv'
  <2>1. HandlerStays
    BY <1>1, <1>4 DEF Apply, Land, HandlerStays, lockVars
  <2>2. CallStep(r) \/ Git!LandOk(r)
    BY <1>4 DEF Apply, Land, CallStep, Git!Land
  <2> QED
    BY <2>1, <2>2, CallKeeps, LandKeeps
<1>5. ASSUME NEW c \in Cell, NEW x \in ForeignText, Outside(c, x)
      PROVE  DeployInv'
  BY <1>1, <1>5, OutsideKeeps DEF Outside, HandlerStays, lockVars
<1>6. ASSUME NEW s \in Server, Crash(s)
      PROVE  DeployInv'
  <2>1. HandlerStays
    BY <1>1, <1>6 DEF Crash, Lock!Crash, HandlerStays
  <2> QED
    BY <1>6, <2>1, KillKeeps DEF Crash
<1>7. CASE TimePasses \/ Quiet \/ UNCHANGED vars
  <2>1. /\ horizon' \in 0..clock
        /\ UNCHANGED <<stage, body, rec, clock, live, branch, wphase, want, base, wire, reply>>
    BY <1>2, <1>7 DEF TimePasses, Quiet, vars, lockVars, gitVars, DeployInv, HandlerInv, HandlerTyped
  <2> QED
    BY <1>1, <2>1, Still
<1> QED
  BY <1>1, <1>3, <1>4, <1>5, <1>6, <1>7, RefuseKeeps, CreateKeeps, CreateFailsKeeps,
     CloseKeeps, SweepKeeps, DeleteKeeps DEF Next, Handle

LEMMA InvHolds == Spec => []DeployInv
<1> QED
  BY InitKeeps, StepKeeps, PTL DEF Spec

(***************************************************************************)
(* What follows                                                            *)
(***************************************************************************)

\* The variables of the handler, of its lock and of Apply keep their types.
THEOREM TypeCorrect == Spec => []TypeOK
<1>1. DeployInv => TypeOK
  BY DEF DeployInv, HandlerInv, HandlerTyped, LockTyped, GitInv, TypeOK
<1> QED
  BY <1>1, InvHolds, PTL

\* Every commit of a request has a record that says what was deployed: the
\* record comes before the push, and only a refusal, which pushes nothing,
\* takes it back.
THEOREM AuditIsComplete == Spec => []AuditComplete
<1>1. DeployInv => AuditComplete
  BY DEF DeployInv, HandlerInv, GitInv, Traced, Kept, Begun, AuditComplete
<1> QED
  BY <1>1, InvHolds, PTL

\* No commit is made for an environment that was deleted: its record pins it.
THEOREM EnvironmentIsPinned == Spec => []EnvironmentPinned
<1>1. DeployInv => EnvironmentPinned
  BY DEF DeployInv, HandlerInv, GitInv, Traced, Kept, Pinned, EnvironmentPinned
<1> QED
  BY <1>1, InvHolds, PTL

\* What the history calls a success has been on the branch, and a hash in the
\* history is that of a commit of some request for the same change.
THEOREM SuccessIsDeployed == Spec => []SuccessMeansDeployed
<1>1. ASSUME DeployInv PROVE SuccessMeansDeployed
  <2>1. \A q \in Request : Pushed(q) => want[q] = Change(q)
    BY <1>1 DEF DeployInv, HandlerInv, GitInv, Traced, Begun
  <2>2. ASSUME NEW r \in Request, rec[r].outcome = "success"
        PROVE  /\ want[r] = Change(r) /\ Made(r)
               /\ rec[r].sha = "commit" => Ours(r)
    BY <1>1, <2>2 DEF DeployInv, HandlerInv, Begun, Succeeded
  <2>3. ASSUME NEW r \in Request, rec[r].outcome = "success"
        PROVE  \E i \in 1..Len(branch) :
                 branch[i].tree[Change(r).cell] = Git!Written(Change(r).tag)
    BY <2>2, <2>3 DEF Made
  <2>4. ASSUME NEW r \in Request, rec[r].outcome = "success", rec[r].sha = "commit"
        PROVE  \E q \in Request : Pushed(q) /\ Change(q) = Change(r)
    BY <2>1, <2>2, <2>4 DEF Ours
  <2> QED
    BY <2>3, <2>4 DEF SuccessMeansDeployed
<1> QED
  BY <1>1, InvHolds, PTL

\* A closed record changes only when its own handler replaces the verdict of
\* the sweep; nothing else rewrites or removes it.
THEOREM ClosedStay == Spec => ClosedRecordsStay
<1>1. ASSUME DeployInv, [Next]_vars, NEW r \in Request,
             rec[r].outcome \in {"success", "failure"}, rec'[r] # rec[r]
      PROVE  rec[r].err = "stale" /\ stage[r] = "apply" /\ stage'[r] = "close"
  <2>0. rec \in [Request -> Record \cup {NoRecord}] /\ stage \in [Request -> Stage]
    BY <1>1 DEF DeployInv, HandlerInv, HandlerTyped
  <2>1. rec' # rec /\ rec[r] # NoRecord
    BY <1>1 DEF NoRecord
  <2>2. ASSUME NEW q \in Request, Create(q) \/ CreateFails(q)
        PROVE  q = r
    BY <1>1, <2>0, <2>2 DEF Create, CreateFails, Insert
  <2>3. ASSUME NEW q \in Request, Create(q) \/ CreateFails(q)
        PROVE  FALSE
    BY <1>1, <2>1, <2>2, <2>3 DEF Create, CreateFails, DeployInv, HandlerInv, Unrecorded
  <2>4. ASSUME NEW s \in Server, Sweep(s)
        PROVE  FALSE
    BY <1>1, <2>4 DEF Sweep, Stale
  <2>5. ASSUME NEW q \in Request, Close(q)
        PROVE  rec[r].err = "stale" /\ stage[r] = "apply" /\ stage'[r] = "close"
    <3>1. q = r
      BY <1>1, <2>0, <2>5 DEF Close
    <3>2. stage[r] = "apply" /\ stage'[r] = "close"
      BY <2>0, <2>5, <3>1 DEF Close, Go
    <3> QED
      BY <1>1, <3>2 DEF DeployInv, HandlerInv, Open
  <2>6. ASSUME NEW q \in Request, NEW b \in Body, Refuse(q, b) \/ Receive(q, b)
        PROVE  FALSE
    BY <2>1, <2>6 DEF Refuse, Receive
  <2>7. ASSUME NEW q \in Request,
               Acquire(q) \/ Apply(q) \/ Release(q) \/ Land(q) \/ Disturb(q)
        PROVE  FALSE
    BY <2>1, <2>7 DEF Acquire, Apply, Release, Land, Disturb
  <2>8. ~(TimePasses \/ Quiet \/ UNCHANGED vars)
    BY <2>1 DEF TimePasses, Quiet, vars
  <2>9. /\ \A s \in Server : ~Crash(s)
        /\ \A p \in Pair : ~DeleteEnv(p)
        /\ \A c \in Cell, x \in ForeignText : ~Outside(c, x)
    BY <2>1 DEF Crash, DeleteEnv, Outside
  <2> QED
    BY <1>1, <2>3, <2>4, <2>5, <2>6, <2>7, <2>8, <2>9 DEF Next, Handle
<1>2. DeployInv /\ [Next]_vars =>
        [\A r \in Request :
            rec[r].outcome \in {"success", "failure"} /\ rec'[r] # rec[r] =>
              rec[r].err = "stale" /\ stage[r] = "apply" /\ stage'[r] = "close"]_vars
  BY <1>1
<1> QED
  BY <1>2, InvHolds, PTL DEF Spec, ClosedRecordsStay

(***************************************************************************)
(* Deploys as writes to the table of tags                                  *)
(***************************************************************************)

Pushers == {r \in Request : Pushed(r)}

\* What the gitops writer promises (TagLedger), asked of the whole: the table of
\* tags is the tree at the tip, and a request's write has taken effect when its
\* commit is on the branch.
Ledger == INSTANCE TagLedger
            WITH Writer <- Request, Text <- Git!Text, Written <- Git!Written,
                 tags <- Git!Tip.tree, applied <- Pushers

Unasked == \A r \in Request : wphase[r] = "idle" => want[r] = None

\* A push under way has not landed, and its caller waits for it, has given up
\* with an error, or is gone.
OnWire ==
    \A r \in wire :
        /\ ~Pushed(r)
        /\ wphase[r] \in {"sent", "crashed"} \/ reply[r] = "error"

\* Whose commit landed was not told otherwise.
Informed ==
    \A r \in Request : Pushed(r) =>
        wphase[r] \in {"accepted", "crashed"} \/ reply[r] \in {"commit", "error"}

WireSide == Unasked /\ OnWire /\ Informed

\* A step of one request that puts nothing on the branch, or none.
LEMMA WireStays ==
  ASSUME DeployInv, WireSide, UNCHANGED branch, NEW w \in Request,
         \A v \in Request \ {w} :
            /\ wphase'[v] = wphase[v] /\ want'[v] = want[v] /\ reply'[v] = reply[v]
            /\ v \in wire' <=> v \in wire,
         wire' \subseteq Request,
         wphase'[w] = "idle" => want'[w] = None,
         w \in wire' => /\ ~Pushed(w)
                        /\ wphase'[w] \in {"sent", "crashed"} \/ reply'[w] = "error",
         Pushed(w) => wphase'[w] \in {"accepted", "crashed"}
                      \/ reply'[w] \in {"commit", "error"}
  PROVE  WireSide'
<1>1. \A r \in Request : Pushed(r)' <=> Pushed(r)
  BY DEF Pushed
<1>2. Unasked'
  BY DEF WireSide, Unasked
<1>3. OnWire'
  BY <1>1 DEF WireSide, OnWire
<1>4. Informed'
  BY <1>1 DEF WireSide, Informed
<1> QED
  BY <1>2, <1>3, <1>4 DEF WireSide

LEMMA CallWires ==
  ASSUME DeployInv, WireSide, NEW w \in Request, CallStep(w)
  PROVE  WireSide'
<1> USE NoneIsApart
    DEF CallStep, Git!Applying, Git!Clone, Git!Unpatchable, Git!NothingToCommit,
        Git!Commit, Git!Push, Git!Answer, Git!Fail, Git!LandStale, Git!LandSame,
        Git!Verdict, Git!Walk, Git!Return, Git!Running, Git!Reply
<1>0. /\ wphase \in [Request -> Git!WPhase] /\ wire \subseteq Request
      /\ reply \in [Request -> Git!Reply \cup {None}]
      /\ UNCHANGED <<branch, want>>
  BY DEF DeployInv, GitInv, Git!TypeOK
<1>1. \A v \in Request \ {w} :
        /\ wphase'[v] = wphase[v] /\ want'[v] = want[v] /\ reply'[v] = reply[v]
        /\ v \in wire' <=> v \in wire
  BY <1>0
<1>2. /\ reply[w] # None <=> wphase[w] = "done"
      /\ Pushed(w) => wphase[w] \in {"accepted", "crashed"} \/ reply[w] \in {"commit", "error"}
      /\ w \in wire => ~Pushed(w)
      /\ w \in wire => wphase[w] \in {"sent", "crashed"} \/ reply[w] = "error"
  BY DEF DeployInv, GitInv, Returned, WireSide, OnWire, Informed
<1>3. wire' \subseteq Request /\ wphase'[w] # "idle"
  BY <1>0, <1>2
<1>4. w \in wire' => /\ ~Pushed(w)
                     /\ wphase'[w] \in {"sent", "crashed"} \/ reply'[w] = "error"
  BY <1>0, <1>2
<1>5. Pushed(w) => wphase'[w] \in {"accepted", "crashed"}
                   \/ reply'[w] \in {"commit", "error"}
  BY <1>0, <1>2
<1> QED
  BY <1>0, <1>1, <1>3, <1>4, <1>5, WireStays

\* A commit: by a call whose push was under way, or by somebody else.
LEMMA CommitWires ==
  ASSUME DeployInv, WireSide, UNCHANGED <<want, reply>>,
         NEW e \in Entry, branch' = Append(branch, e),
         wire' = {r \in wire : e.by # r},
         \A r \in Request :
            wphase'[r] = IF e.by = r /\ wphase[r] = "sent" THEN "accepted" ELSE wphase[r],
         \A r \in Request : e.by = r => r \in wire
  PROVE  WireSide'
<1>0. branch \in Seq(Entry) /\ wire \subseteq Request
  BY DEF DeployInv, GitInv, Git!TypeOK, Entry
<1>1. \A r \in Request : Pushed(r)' => Pushed(r) \/ e.by = r
  BY <1>0, Grows
<1>2. Unasked'
  BY DEF WireSide, Unasked
<1>3. OnWire'
  BY <1>0, <1>1 DEF WireSide, OnWire
<1>4. Informed'
  BY <1>1 DEF WireSide, OnWire, Informed
<1> QED
  BY <1>2, <1>3, <1>4 DEF WireSide

LEMMA KillWires ==
  ASSUME DeployInv, WireSide, NEW S, Git!Kill(S)
  PROVE  WireSide'
<1>1. /\ UNCHANGED <<branch, want, wire, reply>> /\ wire \subseteq Request
      /\ \A r \in Request :
            \/ wphase'[r] = wphase[r]
            \/ wphase[r] # "idle" /\ wphase'[r] = "crashed"
  BY DEF Git!Kill, Git!Running, DeployInv, GitInv, Git!TypeOK
<1>2. \A r \in Request : Pushed(r)' <=> Pushed(r)
  BY <1>1 DEF Pushed
<1>3. Unasked' /\ OnWire' /\ Informed'
  BY <1>1, <1>2 DEF WireSide, Unasked, OnWire, Informed
<1> QED
  BY <1>3 DEF WireSide

\* What the steps of Deploy do to the branch and to the calls of Apply.
LEMMA StepOfGit ==
  ASSUME DeployInv, [Next]_vars
  PROVE  \/ UNCHANGED <<branch, wphase, want, base, wire, reply>>
         \/ \E w \in Request, c \in Cell, t \in Tag : Git!Begin(w, c, t)
         \/ \E w \in Request : CallStep(w) \/ Git!LandOk(w)
         \/ \E S \in SUBSET Request : Git!Kill(S)
         \/ \E c \in Cell, x \in Git!Text : Git!Outside(c, x)
<1> USE DEF gitVars
<1>1. ASSUME NEW r \in Request, Create(r)
      PROVE  \E w \in Request, c \in Cell, t \in Tag : Git!Begin(w, c, t)
  <2>1. body[r] \in Body
    BY <1>1 DEF Create, DeployInv, HandlerInv, Asked
  <2>2. <<body[r].pair, body[r].workload>> \in Cell /\ body[r].tag \in Tag
    BY <2>1, DeployConstants DEF Cell
  <2> QED
    BY <1>1, <2>2 DEF Create
<1>2. ASSUME NEW r \in Request, Apply(r) \/ Land(r)
      PROVE  CallStep(r) \/ Git!LandOk(r)
  BY <1>2 DEF Apply, Land, CallStep, Git!Land
<1>3. ASSUME NEW r \in Request, Acquire(r) \/ CreateFails(r) \/ Close(r) \/ Release(r)
                                \/ Disturb(r)
      PROVE  UNCHANGED <<branch, wphase, want, base, wire, reply>>
  BY <1>3 DEF Acquire, CreateFails, Close, Release, Disturb
<1>4. ASSUME NEW r \in Request, NEW b \in Body, Refuse(r, b) \/ Receive(r, b)
      PROVE  UNCHANGED <<branch, wphase, want, base, wire, reply>>
  BY <1>4 DEF Refuse, Receive
<1>5. ASSUME NEW s \in Server, Crash(s)
      PROVE  \E S \in SUBSET Request : Git!Kill(S)
  <2>1. Lock!Serving(s) \in SUBSET Request
    BY DEF Lock!Serving
  <2> QED
    BY <1>5, <2>1 DEF Crash
<1>6. CASE \/ \E s \in Server : Sweep(s)
           \/ \E p \in Pair : DeleteEnv(p)
           \/ TimePasses \/ Quiet \/ UNCHANGED vars
  BY <1>6 DEF Sweep, DeleteEnv, TimePasses, Quiet, vars
<1>7. CASE \E c \in Cell, x \in ForeignText : Outside(c, x)
  BY <1>7, ForeignTextBound DEF Outside
<1> QED
  BY <1>1, <1>2, <1>3, <1>4, <1>5, <1>6, <1>7 DEF Next, Handle

\* The commit a call puts on the branch is its change to the tree at the tip.
LEMMA Commits ==
  ASSUME DeployInv, NEW w \in Request, Git!LandOk(w)
  PROVE  \E e \in Entry :
           /\ e.by = w
           /\ e.tree = [Git!Tip.tree EXCEPT ![want[w].cell] = Git!Written(want[w].tag)]
           /\ branch' = Append(branch, e)
           /\ UNCHANGED <<want, base, reply>>
<1>1. w \in wire /\ wphase[w] # "idle" /\ base[w] \in 1..Len(branch)
      /\ Len(branch) = base[w]
  BY DEF Git!LandOk, DeployInv, GitInv, Traced, Based
<1>2. /\ Git!Patched(w) \in Git!Tree
      /\ Git!Patched(w) = [Git!Tip.tree EXCEPT ![want[w].cell] = Git!Written(want[w].tag)]
  BY <1>1, PatchTyped DEF Git!Tip
<1> DEFINE e == [tree |-> Git!Patched(w), by |-> w]
<1>3. e \in Entry /\ e.by = w /\ e.tree = Git!Patched(w)
  BY <1>2 DEF Entry
<1>4. branch' = Append(branch, e) /\ UNCHANGED <<want, base, reply>>
  BY DEF Git!LandOk
<1> HIDE DEF e
<1> QED
  BY <1>2, <1>3, <1>4

LEMMA Intrudes ==
  ASSUME DeployInv, NEW c \in Cell, NEW x \in Git!Text, Git!Outside(c, x)
  PROVE  \E e \in Entry :
           /\ e.by = None /\ e.tree = [Git!Tip.tree EXCEPT ![c] = x]
           /\ branch' = Append(branch, e)
           /\ UNCHANGED <<wphase, want, base, wire, reply>>
<1>1. branch \in Seq(Entry) /\ Len(branch) > 0
  BY DEF DeployInv, GitInv, Git!TypeOK, Entry
<1>2. Git!Tip \in Entry
  BY <1>1 DEF Git!Tip
<1> DEFINE e == [tree |-> [Git!Tip.tree EXCEPT ![c] = x], by |-> None]
<1>3. e \in Entry /\ e.by = None /\ e.tree = [Git!Tip.tree EXCEPT ![c] = x]
  BY <1>2 DEF Entry, Git!Tree
<1>4. branch' = Append(branch, e) /\ UNCHANGED <<wphase, want, base, wire, reply>>
  BY DEF Git!Outside
<1> HIDE DEF e
<1> QED
  BY <1>3, <1>4

LEMMA WiresKept ==
  ASSUME DeployInv, WireSide, [Next]_vars
  PROVE  WireSide'
<1>0. /\ wphase \in [Request -> Git!WPhase] /\ want \in [Request -> Git!Change \cup {None}]
      /\ wire \subseteq Request
  BY DEF DeployInv, GitInv, Git!TypeOK
<1>1. CASE UNCHANGED <<branch, wphase, want, base, wire, reply>>
  <2>1. \A r \in Request : Pushed(r)' <=> Pushed(r)
    BY <1>1 DEF Pushed
  <2> QED
    BY <1>0, <1>1, <2>1 DEF WireSide, Unasked, OnWire, Informed
<1>2. ASSUME NEW w \in Request, NEW c \in Cell, NEW t \in Tag, Git!Begin(w, c, t)
      PROVE  WireSide'
  <2>1. /\ wphase[w] = "idle" /\ wphase' = [wphase EXCEPT ![w] = "clone"]
        /\ want' = [want EXCEPT ![w] = [cell |-> c, tag |-> t]]
        /\ UNCHANGED <<branch, base, wire, reply>>
    BY <1>2 DEF Git!Begin, Git!Walk
  <2>2. ~Pushed(w) /\ w \notin wire
    BY <2>1 DEF DeployInv, GitInv, Traced
  <2>3. /\ wphase'[w] = "clone"
        /\ \A v \in Request \ {w} : wphase'[v] = wphase[v] /\ want'[v] = want[v]
    BY <1>0, <2>1
  <2> QED
    BY <1>0, <2>1, <2>2, <2>3, WireStays
<1>3. ASSUME NEW w \in Request, Git!LandOk(w)
      PROVE  WireSide'
  <2>1. PICK e \in Entry : /\ e.by = w /\ branch' = Append(branch, e)
                           /\ UNCHANGED <<want, base, reply>>
    BY <1>3, Commits
  <2>2. /\ w \in wire /\ wire' = wire \ {w}
        /\ wphase' = IF wphase[w] = "sent" THEN [wphase EXCEPT ![w] = "accepted"] ELSE wphase
    BY <1>3 DEF Git!LandOk, Git!Verdict
  <2>3. /\ wire' = {r \in wire : e.by # r}
        /\ \A r \in Request :
            wphase'[r] = IF e.by = r /\ wphase[r] = "sent" THEN "accepted" ELSE wphase[r]
    BY <1>0, <2>1, <2>2
  <2> QED
    BY <2>1, <2>2, <2>3, CommitWires
<1>4. ASSUME NEW c \in Cell, NEW x \in Git!Text, Git!Outside(c, x)
      PROVE  WireSide'
  <2>1. PICK e \in Entry : /\ e.by = None /\ branch' = Append(branch, e)
                           /\ UNCHANGED <<wphase, want, base, wire, reply>>
    BY <1>4, Intrudes
  <2>2. \A r \in Request : e.by # r
    BY <2>1, DeployConstants
  <2>3. wire' = {r \in wire : e.by # r}
    BY <1>0, <2>1, <2>2
  <2> QED
    BY <2>1, <2>2, <2>3, CommitWires
<1> QED
  BY <1>1, <1>2, <1>3, <1>4, StepOfGit, CallWires, KillWires

LEMMA WriteLedger ==
  ASSUME DeployInv, WireSide, NEW w \in Request, Git!LandOk(w)
  PROVE  Ledger!Write(w)
<1>1. PICK e \in Entry :
        /\ e.by = w
        /\ e.tree = [Git!Tip.tree EXCEPT ![want[w].cell] = Git!Written(want[w].tag)]
        /\ branch' = Append(branch, e) /\ UNCHANGED <<want, base, reply>>
  BY Commits
<1>2. /\ w \in wire /\ ~Pushed(w) /\ wphase[w] # "idle"
      /\ wphase[w] \in {"sent", "crashed"} \/ reply[w] = "error"
  BY DEF Git!LandOk, WireSide, OnWire, DeployInv, GitInv, Traced
<1>3. want[w] # None
  BY <1>2, WantTyped, NoneIsApart
<1>4. reply[w] \notin {"reject", "empty"}
  BY <1>2, NoneIsApart DEF DeployInv, GitInv, Returned, Git!Reply
<1>5. branch \in Seq(Entry)
  BY DEF DeployInv, GitInv, Git!TypeOK, Entry
<1>6. /\ Grown(e) /\ branch' \in Seq(Entry)
      /\ \A r \in Request : Pushed(r) => Pushed(r)'
      /\ \A r \in Request : Pushed(r)' => Pushed(r) \/ e.by = r
  BY <1>1, <1>5, Grows
<1>7. Git!Tip' = e /\ Len(branch') \in 1..Len(branch')
  BY <1>5, <1>6 DEF Git!Tip, Grown
<1>8. Pushed(w)'
  BY <1>1, <1>7 DEF Pushed, Git!Tip
<1>9. Pushers' = Pushers \cup {w}
  BY <1>1, <1>6, <1>8 DEF Pushers
<1> QED
  BY <1>1, <1>2, <1>3, <1>4, <1>7, <1>9 DEF Ledger!Write, Ledger!Refusal, Pushers

LEMMA OutsideLedger ==
  ASSUME DeployInv, NEW c \in Cell, NEW x \in Git!Text, Git!Outside(c, x)
  PROVE  Ledger!Outside(c, x)
<1>1. PICK e \in Entry :
        /\ e.by = None /\ e.tree = [Git!Tip.tree EXCEPT ![c] = x]
        /\ branch' = Append(branch, e) /\ UNCHANGED <<wphase, want, base, wire, reply>>
  BY Intrudes
<1>2. branch \in Seq(Entry)
  BY DEF DeployInv, GitInv, Git!TypeOK, Entry
<1>3. /\ Grown(e) /\ branch' \in Seq(Entry)
      /\ \A r \in Request : Pushed(r) => Pushed(r)'
      /\ \A r \in Request : Pushed(r)' => Pushed(r) \/ e.by = r
  BY <1>1, <1>2, Grows
<1>4. Git!Tip' = e
  BY <1>3 DEF Git!Tip, Grown
<1>5. Pushers' = Pushers
  BY <1>1, <1>3, DeployConstants DEF Pushers
<1> QED
  BY <1>1, <1>4, <1>5 DEF Ledger!Outside

LEMMA CallLedger ==
  ASSUME DeployInv, WireSide, NEW w \in Request, CallStep(w)
  PROVE  [Ledger!Next]_Ledger!ledgerVars
<1>0. /\ reply \in [Request -> Git!Reply \cup {None}]
      /\ reply[w] # None <=> wphase[w] = "done"
      /\ UNCHANGED <<branch, want>>
  BY DEF CallStep, Git!Applying, Git!Clone, Git!Unpatchable, Git!NothingToCommit, Git!Commit,
     Git!Push, Git!Answer, Git!Fail, Git!LandStale, Git!LandSame, DeployInv, GitInv,
     Git!TypeOK, Returned
<1>1. Git!Tip' = Git!Tip /\ Pushers' = Pushers
  BY <1>0 DEF Git!Tip, Pushers, Pushed
<1>2. CASE reply' = reply
  BY <1>0, <1>1, <1>2 DEF Ledger!ledgerVars
<1>3. ASSUME NEW a \in Git!Reply, Git!Return(w, a), wphase[w] \in Git!Running,
             a = "commit" => wphase[w] = "accepted",
             a \in {"reject", "empty"} => wphase[w] = "patch"
      PROVE  Ledger!Answer(w, a)
  <2>1. reply[w] = None /\ wphase[w] # "idle" /\ reply' = [reply EXCEPT ![w] = a]
    BY <1>0, <1>3 DEF Git!Return, Git!Running
  <2>2. want[w] # None
    BY <2>1, WantTyped, NoneIsApart
  <2>3. a = "commit" => \E q \in Pushers : want[q] = want[w]
    BY <1>3 DEF DeployInv, GitInv, Told, Ours, Pushers
  <2>4. a \in {"reject", "empty"} => w \notin Pushers
    BY <1>3, <2>1, NoneIsApart DEF WireSide, Informed, Pushers, Git!Reply
  <2> QED
    BY <1>0, <1>1, <2>1, <2>2, <2>3, <2>4 DEF Ledger!Answer, Ledger!Refusal
<1>4. CASE Git!Unpatchable(w) \/ Git!NothingToCommit(w) \/ Git!Answer(w) \/ Git!Fail(w)
  <2>1. \E a \in Git!Reply : Ledger!Answer(w, a)
    BY <1>3, <1>4 DEF Git!Unpatchable, Git!NothingToCommit, Git!Answer, Git!Fail,
       Git!Running, Git!Reply
  <2> QED
    BY <2>1 DEF Ledger!Next, Ledger!Refusal, Git!Reply
<1>5. CASE \/ Git!Clone(w) \/ Git!Commit(w) \/ Git!Push(w)
           \/ Git!LandStale(w) \/ Git!LandSame(w)
  BY <1>2, <1>5 DEF Git!Clone, Git!Commit, Git!Push, Git!LandStale, Git!LandSame
<1> QED
  BY <1>4, <1>5 DEF CallStep, Git!Applying

LEMMA StepOfLedger ==
  ASSUME DeployInv, WireSide, [Next]_vars
  PROVE  [Ledger!Next]_Ledger!ledgerVars
<1>1. ASSUME UNCHANGED <<branch, want, reply>>
      PROVE  UNCHANGED Ledger!ledgerVars
  BY <1>1 DEF Ledger!ledgerVars, Git!Tip, Pushers, Pushed
<1>2. ASSUME NEW w \in Request, NEW c \in Cell, NEW t \in Tag, Git!Begin(w, c, t)
      PROVE  Ledger!Next
  <2>1. Ledger!Ask(w, c, t)
    BY <1>2 DEF Git!Begin, Ledger!Ask, WireSide, Unasked, Git!Tip, Pushers, Pushed
  <2> QED
    BY <2>1 DEF Ledger!Next
<1>3. ASSUME NEW w \in Request, Git!LandOk(w)
      PROVE  Ledger!Next
  BY <1>3, WriteLedger DEF Ledger!Next
<1>4. ASSUME NEW c \in Cell, NEW x \in Git!Text, Git!Outside(c, x)
      PROVE  Ledger!Next
  BY <1>4, OutsideLedger DEF Ledger!Next
<1>5. ASSUME NEW S, Git!Kill(S)
      PROVE  UNCHANGED Ledger!ledgerVars
  BY <1>1, <1>5 DEF Git!Kill
<1> QED
  BY <1>1, <1>2, <1>3, <1>4, <1>5, StepOfGit, CallLedger

LEMMA InitLedger == Init => Ledger!Init /\ WireSide
<1> SUFFICES ASSUME Init PROVE Ledger!Init /\ WireSide
  OBVIOUS
<1>1. PICK t \in Git!Tree : branch = <<[tree |-> t, by |-> None]>>
  BY DEF Init, Git!Init
<1>2. Git!Tip.tree = t /\ \A r \in Request : ~Pushed(r)
  BY <1>1, DeployConstants DEF Git!Tip, Pushed
<1>3. Pushers = {}
  BY <1>2 DEF Pushers
<1> QED
  BY <1>2, <1>3 DEF Init, Git!Init, Ledger!Init, Git!Tree, WireSide, Unasked, OnWire, Informed

\* Whatever fails, all deploys together, with the other committers, are writes
\* to a table of tags: each request writes its own workload, at most once, and
\* what Apply told its handler is true of the table.
THEOREM DeploysAreWrites == Spec => Ledger!Spec
<1>1. Init => Ledger!Init /\ WireSide
  BY InitLedger
<1>2. DeployInv /\ WireSide /\ [Next]_vars => WireSide' /\ [Ledger!Next]_Ledger!ledgerVars
  BY WiresKept, StepOfLedger
<1> QED
  BY <1>1, <1>2, InvHolds, PTL DEF Spec, Ledger!Spec

(***************************************************************************)
(* As long as no session is lost: what the lock of the pair is good for    *)
(***************************************************************************)

\* A request keeps its session from the poll to the unlock, and past the poll
\* it owns the advisory lock of its pair.
Sessions ==
    \A r \in Request :
        /\ phase[r] \in Lock!Trying \cup {"insert", "held", "unlock"} => session[r] = "open"
        /\ phase[r] \in Lock!Locking /\ session[r] = "open" =>
             advisory[Lock!KeyOf(r)] = r

Sought ==
    \A r \in Request : phase[r] # "idle" =>
        stage[r] \in {"lock", "apply", "close"} /\ target[r] = body[r].pair

Within == \A r \in Request : stage[r] = "apply" => phase[r] \in {"held", "crashed"}

\* Apply runs inside its handler, which holds the lock.
Runs ==
    \A r \in Request : wphase[r] \in Git!Running => stage[r] = "apply" /\ phase[r] = "held"

LockSide == Sessions /\ Sought /\ Within /\ Runs

LEMMA SessionsKept ==
  ASSUME "session" \notin Faults, LockTyped, Sessions, [Lock!Next]_Lock!lockVars
  PROVE  Sessions'
<1> USE DeployConstants
    DEF LockTyped, Lock!TypeOK, Sessions, Lock!KeyOf, Lock!Trying, Lock!Locking,
        Lock!Ended, Lock!Goto, Lock!Hang, Lock!Freed
<1>1. ASSUME NEW r \in Request, Lock!GetConn(r) \/ Lock!NoConn(r) \/ Lock!Deadline(r)
             \/ Lock!TimedOut(r) \/ Lock!TryFails(r) \/ Lock!Info(r) \/ Lock!InfoFails(r)
      PROVE  Sessions'
  BY <1>1 DEF Lock!GetConn, Lock!NoConn, Lock!Deadline, Lock!TimedOut, Lock!TryFails,
              Lock!Info, Lock!InfoFails
<1>2. ASSUME NEW r \in Request, Lock!TryLock(r)
      PROVE  Sessions'
  BY <1>2 DEF Lock!TryLock
<1>3. ASSUME NEW r \in Request, Lock!InsertRow(r) \/ Lock!InsertFails(r) \/ Lock!InsertCut(r)
      PROVE  Sessions'
  BY <1>3 DEF Lock!InsertRow, Lock!InsertFails, Lock!InsertCut
<1>4. ASSUME NEW r \in Request, Lock!Undo(r) \/ Lock!DeleteRow(r) \/ Lock!Unlock(r)
      PROVE  Sessions'
  BY <1>4 DEF Lock!Undo, Lock!DeleteRow, Lock!Unlock
<1>5. ASSUME NEW r \in Request, Lock!Cancel(r) \/ Lock!LoseSession(r)
      PROVE  Sessions'
  BY <1>5 DEF Lock!Cancel, Lock!LoseSession
<1>6. ASSUME NEW r \in Request, NEW p \in Pair, Lock!Start(r, p)
      PROVE  Sessions'
  BY <1>6 DEF Lock!Start
<1>7. ASSUME NEW s \in Server, Lock!Crash(s)
      PROVE  Sessions'
  BY <1>7 DEF Lock!Crash, Lock!Serving
<1>8. CASE Lock!Quiet \/ UNCHANGED Lock!lockVars \/ \E p \in Pair : Lock!DeletePair(p)
  BY <1>8 DEF Lock!Quiet, Lock!lockVars, Lock!DeletePair
<1> QED
  BY <1>1, <1>2, <1>3, <1>4, <1>5, <1>6, <1>7, <1>8
  DEF Lock!Next, Lock!Acquiring, Lock!Releasing

\* Deploys of one pair come one after the other.
LEMMA OneHolder ==
  ASSUME LockSide, NEW r \in Request, NEW q \in Request,
         phase[r] = "held", phase[q] = "held", body[r].pair = body[q].pair
  PROVE  r = q
<1>1. target[r] = target[q]
  BY DEF LockSide, Sought
<1>2. session[r] = "open" /\ session[q] = "open"
  BY DEF LockSide, Sessions
<1> QED
  BY <1>1, <1>2 DEF LockSide, Sessions, Lock!Locking, Lock!KeyOf

\* The links between the handler, its lock and its call of Apply.
Links == Sought /\ Within /\ Runs

LEMMA LinksKept ==
  ASSUME DeployInv, Links, [Next]_vars
  PROVE  Links'
<1> USE DEF Links
<1>0. /\ phase \in [Request -> Lock!Phase] /\ target \in [Request -> Pair \cup {None}]
      /\ stage \in [Request -> Stage] /\ body \in [Request -> Body \cup {None}]
      /\ wphase \in [Request -> Git!WPhase]
  BY DEF DeployInv, HandlerInv, HandlerTyped, LockTyped, Lock!TypeOK, GitInv, Git!TypeOK
<1>1. ASSUME NEW r \in Request, NEW b \in Body, Refuse(r, b) \/ Receive(r, b)
      PROVE  Links'
  <2>1. /\ stage[r] = "new" /\ phase[r] = "idle" /\ wphase[r] = "idle"
        /\ body' = [body EXCEPT ![r] = b] /\ UNCHANGED wphase
    BY <1>1 DEF Refuse, Receive, gitVars, DeployInv, HandlerInv, Begun, Sought
  <2>2. CASE stage' = [stage EXCEPT ![r] = "refused"] /\ UNCHANGED <<phase, target>>
    BY <1>0, <2>1, <2>2 DEF Sought, Within, Runs, Git!Running
  <2>3. CASE /\ stage' = [stage EXCEPT ![r] = "lock"]
             /\ phase' = [phase EXCEPT ![r] = "pool"]
             /\ target' = [target EXCEPT ![r] = b.pair]
    BY <1>0, <2>1, <2>3 DEF Sought, Within, Runs, Git!Running
  <2> QED
    BY <1>1, <2>2, <2>3 DEF Refuse, Receive, Go, lockVars, Lock!Start, Lock!Goto
<1>2. ASSUME NEW r \in Request, Create(r)
      PROVE  Links'
  <2>1. /\ phase[r] = "held" /\ stage' = [stage EXCEPT ![r] = "apply"]
        /\ wphase' = [wphase EXCEPT ![r] = "clone"]
        /\ UNCHANGED <<body, phase, target>>
    BY <1>2 DEF Create, Go, Git!Begin, Git!Walk, lockVars
  <2> QED
    BY <1>0, <2>1 DEF Sought, Within, Runs
<1>3. ASSUME NEW r \in Request, CreateFails(r) \/ Close(r)
      PROVE  Links'
  <2>1. /\ phase[r] = "held" /\ stage' = [stage EXCEPT ![r] = "close"]
        /\ wphase[r] \notin Git!Running
        /\ UNCHANGED <<body, phase, target, wphase>>
    BY <1>3 DEF CreateFails, Close, Go, lockVars, gitVars, DeployInv, HandlerInv, Begun,
       Git!Running
  <2> QED
    BY <1>0, <2>1 DEF Sought, Within, Runs
<1>4. ASSUME UNCHANGED <<stage, body, phase, target>>,
             \A r \in Request : wphase'[r] \in Git!Running => wphase[r] \in Git!Running
      PROVE  Links'
  BY <1>4 DEF Sought, Within, Runs
<1>5. ASSUME NEW r \in Request, Acquire(r)
      PROVE  Links'
  <2>1. /\ phase[r] \notin {"idle", "held", "crashed"}
        /\ UNCHANGED <<stage, body, target, wphase>>
    BY <1>5 DEF Acquire, gitVars, Lock!Acquiring, Lock!GetConn, Lock!NoConn,
       Lock!Deadline, Lock!TryLock, Lock!TimedOut, Lock!TryFails, Lock!InsertRow,
       Lock!InsertFails, Lock!InsertCut, Lock!Undo, Lock!Info, Lock!InfoFails, Lock!Trying
  <2>2. \A q \in Request \ {r} : phase'[q] = phase[q]
    BY <1>0, <1>5 DEF Acquire, Lock!Acquiring, Lock!GetConn, Lock!NoConn,
       Lock!Deadline, Lock!TryLock, Lock!TimedOut, Lock!TryFails, Lock!InsertRow,
       Lock!InsertFails, Lock!InsertCut, Lock!Undo, Lock!Info, Lock!InfoFails, Lock!Goto
  <2>3. stage[r] # "apply" /\ wphase[r] \notin Git!Running
    BY <2>1 DEF Within, Runs
  <2> QED
    BY <2>1, <2>2, <2>3 DEF Sought, Within, Runs
<1>6. ASSUME NEW r \in Request, Release(r)
      PROVE  Links'
  <2>1. /\ stage[r] = "close" /\ phase[r] \in {"held", "unlock"}
        /\ UNCHANGED <<stage, body, target, wphase>>
        /\ \E p \in Lock!Phase : phase' = [phase EXCEPT ![r] = p]
    BY <1>6 DEF Release, gitVars, Lock!Releasing, Lock!DeleteRow, Lock!Unlock, Lock!Goto,
       Lock!Phase, Lock!Locking, Lock!Ended
  <2>2. \A q \in Request \ {r} : phase'[q] = phase[q]
    BY <1>0, <2>1
  <2> QED
    BY <2>1, <2>2 DEF Sought, Within, Runs
<1>7. ASSUME NEW r \in Request, Disturb(r)
      PROVE  Links'
  BY <1>4, <1>7 DEF Disturb, Lock!Cancel, Lock!LoseSession, gitVars
<1>8. ASSUME NEW s \in Server, Crash(s)
      PROVE  Links'
  <2>1. /\ UNCHANGED <<stage, body, target>>
        /\ \A r \in Request :
             /\ phase'[r] = IF r \in Lock!Serving(s) THEN "crashed" ELSE phase[r]
             /\ wphase'[r] = IF r \in Lock!Serving(s) /\ wphase[r] \in Git!Running
                             THEN "crashed" ELSE wphase[r]
    BY <1>8 DEF Crash, Lock!Crash, Git!Kill
  <2>2. \A r \in Lock!Serving(s) : phase[r] # "idle"
    BY DEF Lock!Serving
  <2> QED
    BY <2>1, <2>2 DEF Sought, Within, Runs, Git!Running
<1>9. ASSUME NEW w \in Request, Apply(w) \/ Land(w)
      PROVE  Links'
  <2>1. UNCHANGED <<stage, body, phase, target>>
    BY <1>9 DEF Apply, Land, lockVars
  <2>2. \A r \in Request : wphase'[r] \in Git!Running => wphase[r] \in Git!Running
    BY <1>0, <1>9 DEF Apply, Land, Git!Applying, Git!Clone, Git!Unpatchable,
       Git!NothingToCommit, Git!Commit, Git!Push, Git!Answer, Git!Fail, Git!Land, Git!LandOk,
       Git!LandStale, Git!LandSame, Git!Verdict, Git!Walk, Git!Return, Git!Running
  <2> QED
    BY <1>4, <2>1, <2>2
<1>10. CASE \/ \E s \in Server : Sweep(s)
            \/ \E p \in Pair : DeleteEnv(p)
            \/ \E c \in Cell, x \in ForeignText : Outside(c, x)
  BY <1>4, <1>10 DEF Sweep, DeleteEnv, Lock!DeletePair, Outside, Git!Outside, lockVars, gitVars
<1>11. CASE TimePasses \/ Quiet \/ UNCHANGED vars
  BY <1>4, <1>11 DEF TimePasses, Quiet, vars, lockVars, gitVars
<1>12. ASSUME NEW r \in Request, Handle(r)
       PROVE  Links'
  BY <1>2, <1>3, <1>5, <1>6, <1>9, <1>12 DEF Handle
<1>13. CASE Next
  BY <1>1, <1>7, <1>8, <1>9, <1>10, <1>11, <1>12, <1>13 DEF Next
<1> QED
  BY <1>11, <1>13

LEMMA LockSideKept ==
  ASSUME "session" \notin Faults, DeployInv, LockSide, [Next]_vars
  PROVE  LockSide'
<1>1. LockTyped /\ [Lock!Next]_Lock!lockVars
  BY StepOfLock DEF DeployInv, HandlerInv
<1>2. Sessions'
  BY <1>1, SessionsKept DEF LockSide
<1>3. Links'
  BY LinksKept DEF LockSide, Links
<1> QED
  BY <1>2, <1>3 DEF LockSide, Links

LEMMA InitLockSide == Init => LockSide
<1> QED
  BY DEF Init, Lock!Init, Git!Init, LockSide, Sessions, Sought, Within, Runs,
     Lock!Trying, Lock!Locking, Git!Running

\* "Ensures at-most-one in-flight deployment per product-environment pair", of the
\* deployments themselves: while no session is lost two calls of Apply for one pair
\* never run at once, whoever disconnects or stops and however the keys collide.
THEOREM ApplyAlone ==
  ASSUME "session" \notin Faults
  PROVE  Spec => [](\A r, q \in Request :
                      /\ wphase[r] \in Git!Running /\ wphase[q] \in Git!Running
                      /\ body[r].pair = body[q].pair
                      => r = q)
<1>1. ASSUME LockSide, NEW r \in Request, NEW q \in Request,
             wphase[r] \in Git!Running, wphase[q] \in Git!Running,
             body[r].pair = body[q].pair
      PROVE  r = q
  BY <1>1, OneHolder DEF LockSide, Runs
<1>2. LockSide => \A r, q \in Request :
                      /\ wphase[r] \in Git!Running /\ wphase[q] \in Git!Running
                      /\ body[r].pair = body[q].pair
                      => r = q
  BY <1>1
<1>3. DeployInv /\ LockSide /\ [Next]_vars => LockSide'
  BY LockSideKept
<1> QED
  BY <1>2, <1>3, InitLockSide, InvHolds, PTL DEF Spec

(***************************************************************************)
(* Without faults, or with none but those of single statements             *)
(***************************************************************************)

Calm == \A r \in Request : ~gone[r] /\ phase[r] # "crashed"

LEMMA CalmKept ==
  ASSUME Faults \subseteq {"db"}, DeployInv, Calm, [Next]_vars
  PROVE  Calm'
<1>0. phase \in [Request -> Lock!Phase]
  BY DEF DeployInv, HandlerInv, LockTyped, Lock!TypeOK
<1>1. [Lock!Next]_Lock!lockVars
  BY StepOfLock
<1>2. ASSUME NEW r \in Request, Lock!Acquiring(r) \/ Lock!Releasing(r)
      PROVE  Calm'
  BY <1>0, <1>2 DEF Calm, Lock!Acquiring, Lock!Releasing, Lock!GetConn, Lock!NoConn,
     Lock!Deadline, Lock!TryLock, Lock!TimedOut, Lock!TryFails, Lock!InsertRow,
     Lock!InsertFails, Lock!InsertCut, Lock!Undo, Lock!Info, Lock!InfoFails,
     Lock!DeleteRow, Lock!Unlock, Lock!Goto
<1>3. ASSUME NEW r \in Request, NEW p \in Pair, Lock!Start(r, p)
      PROVE  Calm'
  BY <1>0, <1>3 DEF Calm, Lock!Start, Lock!Goto
<1>4. ASSUME UNCHANGED <<gone, phase>>
      PROVE  Calm'
  BY <1>4 DEF Calm
<1> QED
  BY <1>1, <1>2, <1>3, <1>4
  DEF Lock!Next, Lock!Cancel, Lock!LoseSession, Lock!Crash, Lock!DeletePair, Lock!Quiet,
      Lock!lockVars

Sent == \A r \in wire : wphase[r] = "sent"

\* Who pushed knows it, and nobody else is told so.
Lands == \A r \in Request : Pushed(r) <=> wphase[r] = "accepted" \/ reply[r] = "commit"

\* Between the clone of a request and its push nobody else commits for its
\* pair, but for the outsiders.
Since ==
    \A r \in Request : wphase[r] \in {"patch", "push", "sent", "rejected"} =>
        \A i \in (base[r] + 1)..Len(branch) :
            branch[i].by = None \/ body[branch[i].by].pair # body[r].pair

Late == \A r \in Request : wphase[r] = "rejected" => Len(branch) > base[r]

GitSide == Sent /\ Lands /\ Since /\ Late

\* A step that leaves Apply and the branch alone.
LEMMA GitSideStays ==
  ASSUME DeployInv, GitSide, UNCHANGED <<branch, wphase, want, base, wire, reply>>,
         \A r \in Request : wphase[r] # "idle" => body'[r] = body[r]
  PROVE  GitSide'
<1>1. Sent' /\ Late'
  BY DEF GitSide, Sent, Late
<1>2. \A r \in Request : Pushed(r)' <=> Pushed(r)
  BY DEF Pushed
<1>3. Lands'
  BY <1>2 DEF GitSide, Lands
<1>4. Since'
  <2> SUFFICES ASSUME NEW r \in Request, wphase[r] \in {"patch", "push", "sent", "rejected"},
                      NEW i \in (base[r] + 1)..Len(branch), branch[i].by # None
               PROVE  body'[branch[i].by].pair # body'[r].pair
    BY DEF Since
  <2>1. branch[i].by \in Request /\ Pushed(branch[i].by)
    <3>1. branch \in Seq(Entry) /\ base[r] \in Nat
      BY DEF DeployInv, GitInv, Git!TypeOK, Entry
    <3>2. i \in 1..Len(branch)
      BY <3>1
    <3>3. branch[i] \in Entry
      BY <3>1, <3>2
    <3> QED
      BY <3>2, <3>3 DEF Entry, Pushed
  <2>2. wphase[branch[i].by] # "idle" /\ wphase[r] # "idle"
    BY <2>1 DEF DeployInv, GitInv, Traced
  <2>3. body[branch[i].by].pair # body[r].pair
    BY DEF GitSide, Since
  <2> QED
    BY <2>1, <2>2, <2>3
<1> QED
  BY <1>1, <1>3, <1>4 DEF GitSide

\* What a step of the call w that leaves the branch alone must see to.
Follows(w) ==
    /\ UNCHANGED <<branch, want, stage, body>>
    /\ \A v \in Request \ {w} :
         /\ wphase'[v] = wphase[v] /\ base'[v] = base[v] /\ reply'[v] = reply[v]
         /\ v \in wire' <=> v \in wire
    /\ wire' \subseteq Request
    /\ w \in wire' => wphase'[w] = "sent"
    /\ wphase'[w] = "accepted" \/ reply'[w] = "commit"
         <=> wphase[w] = "accepted" \/ reply[w] = "commit"
    /\ wphase'[w] \in {"patch", "push", "sent", "rejected"} =>
         \/ base'[w] = Len(branch)
         \/ base'[w] = base[w] /\ wphase[w] \in {"patch", "push", "sent"}
    /\ wphase'[w] = "rejected" => Len(branch) > base'[w]

LEMMA CallFollows ==
  ASSUME DeployInv, GitSide, NEW w \in Request, Follows(w)
  PROVE  GitSide'
<1>0. branch \in Seq(Entry) /\ Len(branch) \in Nat /\ base \in [Request -> Nat]
  BY DEF DeployInv, GitInv, Git!TypeOK, Entry
<1>1. Sent' /\ Late'
  BY DEF Follows, GitSide, Sent, Late
<1>2. \A r \in Request : Pushed(r)' <=> Pushed(r)
  BY DEF Follows, Pushed
<1>3. Lands'
  BY <1>2 DEF Follows, GitSide, Lands
<1>4. Since'
  <2> SUFFICES ASSUME NEW r \in Request,
                      wphase'[r] \in {"patch", "push", "sent", "rejected"},
                      NEW i \in (base'[r] + 1)..Len(branch)
               PROVE  branch[i].by = None \/ body[branch[i].by].pair # body[r].pair
    BY DEF Since, Follows
  <2>1. CASE r = w /\ base'[w] = Len(branch)
    BY <1>0, <2>1
  <2>2. CASE /\ base'[r] = base[r]
             /\ wphase[r] \in {"patch", "push", "sent", "rejected"}
    BY <2>2 DEF GitSide, Since
  <2> QED
    BY <2>1, <2>2 DEF Follows
<1> QED
  BY <1>1, <1>3, <1>4 DEF GitSide

\* Every commit of a request during a deploy of the pair is another pair's.
LEMMA CommitFollows ==
  ASSUME DeployInv, LockSide, GitSide, UNCHANGED <<want, base, reply, stage, body>>,
         NEW e \in Entry, branch' = Append(branch, e),
         wphase' \in [Request -> Git!WPhase], wire' \subseteq wire,
         \A r \in Request : e.by # r => wphase'[r] = wphase[r],
         \A r \in Request : e.by = r => wphase'[r] = "accepted" /\ r \notin wire',
         \A r \in Request : e.by = r => wphase[r] = "sent",
         \A r \in Request : e.by \in Request /\ e.by # r /\ stage[r] = "apply"
                               => body[e.by].pair # body[r].pair
  PROVE  GitSide'
<1>0. branch \in Seq(Entry) /\ Len(branch) \in Nat /\ base \in [Request -> Nat]
      /\ wire \subseteq Request
  BY DEF DeployInv, GitInv, Git!TypeOK, Entry
<1>1. /\ Grown(e)
      /\ \A r \in Request : Pushed(r) => Pushed(r)'
      /\ \A r \in Request : Pushed(r)' => Pushed(r) \/ e.by = r
  BY <1>0, Grows
<1>2. Sent'
  BY <1>0 DEF GitSide, Sent
<1>3. Late'
  BY <1>0, <1>1 DEF GitSide, Late, Grown
<1>4. ASSUME NEW r \in Request PROVE (Pushed(r) <=> wphase[r] = "accepted" \/ reply[r] = "commit")'
  <2>1. CASE e.by = r
    <3>1. Len(branch') \in 1..Len(branch')
      BY <1>0, <1>1 DEF Grown
    <3> QED
      BY <1>1, <2>1, <3>1 DEF Grown, Pushed
  <2>2. CASE e.by # r
    BY <1>1, <2>2 DEF GitSide, Lands
  <2> QED
    BY <2>1, <2>2
<1>5. Since'
  <2> SUFFICES ASSUME NEW r \in Request,
                      wphase'[r] \in {"patch", "push", "sent", "rejected"},
                      NEW i \in (base[r] + 1)..Len(branch')
               PROVE  branch'[i].by = None \/ body[branch'[i].by].pair # body[r].pair
    BY DEF Since
  <2>1. e.by # r /\ wphase[r] \in {"patch", "push", "sent", "rejected"} /\ stage[r] = "apply"
    BY DEF GitSide, Sent, LockSide, Runs, Git!Running
  <2>2. CASE i \in 1..Len(branch)
    <3>1. i \in (base[r] + 1)..Len(branch) /\ branch'[i] = branch[i]
      BY <1>0, <1>1, <2>2 DEF Grown
    <3> QED
      BY <2>1, <3>1 DEF GitSide, Since
  <2>3. CASE i = Len(branch')
    <3>1. branch'[i] = e /\ e.by \in Request \cup {None}
      BY <1>1, <2>3 DEF Grown, Entry
    <3> QED
      BY <2>1, <3>1
  <2> QED
    BY <1>0, <1>1, <2>2, <2>3 DEF Grown
<1> QED
  BY <1>2, <1>3, <1>4, <1>5 DEF GitSide, Lands

\* Who applies keeps everybody else of the pair out.
LEMMA Alone ==
  ASSUME LockSide, Calm, NEW r \in Request, NEW q \in Request, q # r,
         wphase[q] \in Git!Running, stage[r] = "apply"
  PROVE  body[q].pair # body[r].pair
<1>1. phase[q] = "held" /\ phase[r] = "held"
  BY DEF LockSide, Within, Runs, Calm
<1> QED
  BY <1>1, OneHolder

\* A twin cannot have pushed the same commit.
LEMMA NoTwin ==
  ASSUME DeployInv, GitSide, NEW w \in Request
  PROVE  ~Git!LandSame(w)
<1> SUFFICES ASSUME Git!LandSame(w) PROVE FALSE
  OBVIOUS
<1>1. PICK q \in Request : branch[Len(branch)].by = q /\ want[q] = want[w]
  BY DEF Git!LandSame, Git!Tip
<1>2. Len(branch) \in 1..Len(branch) /\ Len(branch) \in (base[w] + 1)..Len(branch)
  BY DEF Git!LandSame, DeployInv, GitInv, Git!TypeOK
<1>3. Pushed(q)
  BY <1>1, <1>2 DEF Pushed
<1>4. w \in wire /\ wphase[w] = "sent" /\ wphase[q] # "idle"
  BY <1>3 DEF Git!LandSame, GitSide, Sent, DeployInv, GitInv, Traced
<1>5. body[q].pair # body[w].pair
  BY <1>1, <1>2, <1>4, DeployConstants DEF GitSide, Since
<1>6. want[q] = Change(q) /\ want[w] = Change(w)
  BY <1>4 DEF DeployInv, HandlerInv, Begun
<1>7. Change(q).cell[1] = body[q].pair /\ Change(w).cell[1] = body[w].pair
  BY DEF Change
<1> QED
  BY <1>1, <1>5, <1>6, <1>7

LEMMA CallStepFollows ==
  ASSUME Faults \subseteq {"db"}, DeployInv, LockSide, Calm, GitSide, NEW w \in Request,
         Apply(w) \/ (Land(w) /\ ~Git!LandOk(w))
  PROVE  Follows(w)
<1> USE DEF Git!Walk, Git!Return
<1>0. /\ wphase \in [Request -> Git!WPhase] /\ base \in [Request -> Nat]
      /\ reply \in [Request -> Git!Reply \cup {None}] /\ wire \subseteq Request
      /\ Len(branch) \in Nat /\ None # "commit"
      /\ UNCHANGED <<stage, body>>
      /\ reply[w] # None <=> wphase[w] = "done"
      /\ w \in wire \/ wphase[w] \in {"patch", "push", "sent", "accepted", "rejected"}
             => base[w] \in 1..Len(branch)
      /\ w \in wire => wphase[w] = "sent"
  BY NoneIsApart DEF DeployInv, GitInv, Git!TypeOK, Returned, Based, GitSide, Sent, Apply,
     Land, Git!Reply
<1>1. CASE Git!Clone(w)
  BY <1>0, <1>1 DEF Git!Clone, Follows, Git!Running
<1>2. CASE Git!Unpatchable(w)
  BY <1>0, <1>2 DEF Git!Unpatchable, Follows, Git!Running
<1>3. CASE Git!NothingToCommit(w)
  BY <1>0, <1>3 DEF Git!NothingToCommit, Follows, Git!Running
<1>4. CASE Git!Commit(w)
  BY <1>0, <1>4 DEF Git!Commit, Follows, Git!Running
<1>5. CASE Git!Push(w)
  BY <1>0, <1>5 DEF Git!Push, Follows, Git!Running
<1>6. CASE Git!Answer(w)
  BY <1>0, <1>6 DEF Git!Answer, Follows, Git!Running
<1>7. CASE Git!LandStale(w)
  BY <1>0, <1>7 DEF Git!LandStale, Git!Verdict, Follows, Git!Running
<1>8. ~((gone[w] \/ "net" \in Faults) /\ Git!Fail(w))
  BY DEF Calm
<1> QED
  BY <1>1, <1>2, <1>3, <1>4, <1>5, <1>6, <1>7, <1>8, NoTwin
  DEF Apply, Git!Applying, Land, Git!Land

LEMMA GitSideKept ==
  ASSUME Faults \subseteq {"db"}, DeployInv, LockSide, Calm, GitSide, [Next]_vars
  PROVE  GitSide'
<1>1. CASE \E r \in Request, b \in Body : Refuse(r, b) \/ Receive(r, b)
  <2>1. PICK r \in Request, b \in Body : Refuse(r, b) \/ Receive(r, b)
    BY <1>1
  <2>2. stage[r] = "new" /\ wphase[r] = "idle"
    BY <2>1 DEF Refuse, Receive, DeployInv, HandlerInv, Begun
  <2>3. /\ UNCHANGED <<branch, wphase, want, base, wire, reply>>
        /\ \E s \in Stage : stage' = [stage EXCEPT ![r] = s]
        /\ body' = [body EXCEPT ![r] = b]
    BY <2>1 DEF Refuse, Receive, Go, gitVars, Stage
  <2>4. stage \in [Request -> Stage] /\ body \in [Request -> Body \cup {None}]
    BY DEF DeployInv, HandlerInv, HandlerTyped
  <2>5. \A q \in Request \ {r} : stage'[q] = stage[q] /\ body'[q] = body[q]
    BY <2>3, <2>4
  <2> QED
    BY <2>2, <2>3, <2>5, GitSideStays DEF Git!Running
<1>2. ASSUME NEW r \in Request, CreateFails(r) \/ Close(r)
      PROVE  GitSide'
  <2>1. wphase[r] \notin Git!Running
    BY <1>2 DEF CreateFails, Close, DeployInv, HandlerInv, Begun, Git!Running
  <2>2. /\ UNCHANGED <<body, branch, wphase, want, base, wire, reply>>
        /\ stage' = [stage EXCEPT ![r] = "close"]
    BY <1>2 DEF CreateFails, Close, Go, gitVars
  <2>3. stage \in [Request -> Stage]
    BY DEF DeployInv, HandlerInv, HandlerTyped
  <2>4. \A q \in Request \ {r} : stage'[q] = stage[q]
    BY <2>2, <2>3
  <2> QED
    BY <2>1, <2>2, <2>4, GitSideStays
<1>3. ASSUME NEW r \in Request, Create(r)
      PROVE  GitSide'
  <2>0. wphase \in [Request -> Git!WPhase] /\ stage \in [Request -> Stage]
        /\ want \in [Request -> Git!Change \cup {None}] /\ None # "commit"
    BY NoneIsApart DEF DeployInv, HandlerInv, HandlerTyped, GitInv, Git!TypeOK, Git!Reply
  <2>1. /\ wphase[r] = "idle" /\ stage[r] = "lock" /\ r \notin wire /\ reply[r] = None
    BY <1>3 DEF Create, Git!Begin, DeployInv, GitInv, Traced, Returned
  <2>2. /\ wphase' = [wphase EXCEPT ![r] = "clone"] /\ stage' = [stage EXCEPT ![r] = "apply"]
        /\ UNCHANGED <<body, branch, base, wire, reply>>
    BY <1>3 DEF Create, Go, Git!Begin, Git!Walk
  <2>3. /\ \A q \in Request \ {r} : wphase'[q] = wphase[q] /\ stage'[q] = stage[q]
        /\ wphase'[r] = "clone" /\ stage'[r] = "apply"
    BY <2>0, <2>2
  <2>4. \A q \in Request : Pushed(q)' <=> Pushed(q)
    BY <2>2 DEF Pushed
  <2>5. Sent' /\ Late'
    BY <2>1, <2>2, <2>3 DEF GitSide, Sent, Late
  <2>6. Lands'
    BY <2>0, <2>1, <2>2, <2>3, <2>4 DEF GitSide, Lands
  <2>7. Since'
    BY <2>2, <2>3 DEF GitSide, Since
  <2> QED
    BY <2>5, <2>6, <2>7 DEF GitSide
<1>4. ASSUME UNCHANGED <<stage, body, branch, wphase, want, base, wire, reply>>
      PROVE  GitSide'
  BY <1>4, GitSideStays
<1>5. ASSUME NEW r \in Request, Acquire(r) \/ Release(r) \/ Disturb(r)
      PROVE  GitSide'
  BY <1>4, <1>5 DEF Acquire, Release, Disturb, gitVars
<1>6. ASSUME NEW r \in Request, Apply(r) \/ (Land(r) /\ ~Git!LandOk(r))
      PROVE  GitSide'
  BY <1>6, CallStepFollows, CallFollows
<1>7. ASSUME NEW r \in Request, Land(r), Git!LandOk(r)
      PROVE  GitSide'
  <2>0. /\ wphase \in [Request -> Git!WPhase] /\ wire \subseteq Request
        /\ r \in wire /\ wphase[r] = "sent" /\ base[r] \in 1..Len(branch)
        /\ branch \in Seq(Entry)
    BY <1>7 DEF Git!LandOk, DeployInv, GitInv, Git!TypeOK, GitSide, Sent, Based, Entry
  <2> DEFINE e == [tree |-> Git!Patched(r), by |-> r]
  <2>1. e \in Entry /\ e.by = r
    BY <2>0, PatchTyped DEF Entry
  <2>2. branch' = Append(branch, e) /\ UNCHANGED <<want, base, reply, stage, body>>
    BY <1>7 DEF Land, Git!LandOk
  <2> HIDE DEF e
  <2>3. wire' = wire \ {r} /\ wphase' = [wphase EXCEPT ![r] = "accepted"]
    BY <1>7, <2>0 DEF Git!LandOk, Git!Verdict
  <2>4. wphase' \in [Request -> Git!WPhase]
    BY <2>0, <2>3 DEF Git!WPhase, Git!Running
  <2>5. \A q \in Request : stage[q] = "apply" /\ q # r => body[r].pair # body[q].pair
    BY <2>0, Alone DEF Git!Running
  <2> QED
    BY <2>0, <2>1, <2>2, <2>3, <2>4, <2>5, CommitFollows
<1>8. ASSUME NEW c \in Cell, NEW x \in ForeignText, Outside(c, x)
      PROVE  GitSide'
  <2> DEFINE e == [tree |-> [Git!Tip.tree EXCEPT ![c] = x], by |-> None]
  <2>1. e \in Entry /\ e.by = None
    BY OutsideTyped DEF Entry
  <2>2. /\ branch' = Append(branch, e)
        /\ UNCHANGED <<wphase, want, base, wire, reply, stage, body>>
    BY <1>8 DEF Outside, Git!Outside
  <2> HIDE DEF e
  <2>3. wphase' \in [Request -> Git!WPhase]
    BY <2>2 DEF DeployInv, GitInv, Git!TypeOK
  <2> QED
    BY <2>1, <2>2, <2>3, CommitFollows, DeployConstants
<1>9. \A s \in Server : ~Crash(s)
  BY DEF Crash, Lock!Crash
<1>10. CASE \/ \E s \in Server : Sweep(s)
            \/ \E p \in Pair : DeleteEnv(p)
            \/ TimePasses \/ Quiet \/ UNCHANGED vars
  BY <1>4, <1>10 DEF Sweep, DeleteEnv, TimePasses, Quiet, vars, gitVars
<1>11. ASSUME NEW r \in Request, Handle(r) \/ Land(r) \/ Disturb(r)
       PROVE  GitSide'
  BY <1>2, <1>3, <1>5, <1>6, <1>7, <1>11 DEF Handle
<1>12. CASE Next
  BY <1>1, <1>8, <1>9, <1>10, <1>11, <1>12 DEF Next
<1> QED
  BY <1>10, <1>12

\* A push is refused only because of a commit for another pair or by an
\* outsider, if nothing but statements of the handler fails: the lock of the
\* pair keeps the rest away.
THEOREM ConflictsExplained ==
  ASSUME Faults \subseteq {"db"}
  PROVE  Spec => []ConflictsComeFromElsewhere
<1> DEFINE Inv == DeployInv /\ LockSide /\ Calm /\ GitSide
<1>1. Init => Inv
  <2> SUFFICES ASSUME Init PROVE Calm /\ GitSide
    BY InitKeeps, InitLockSide
  <2>1. PICK t \in Git!Tree : branch = <<[tree |-> t, by |-> None]>>
    BY DEF Init, Git!Init
  <2>2. \A r \in Request : ~Pushed(r)
    BY <2>1, DeployConstants DEF Pushed
  <2>3. Calm
    BY DEF Init, Lock!Init, Calm
  <2>4. GitSide
    BY <2>2, NoneIsApart
    DEF Init, Git!Init, GitSide, Sent, Lands, Since, Late, Git!Reply
  <2> QED
    BY <2>3, <2>4
<1>2. Inv /\ [Next]_vars => Inv'
  BY StepKeeps, LockSideKept, CalmKept, GitSideKept
<1>3. Inv => ConflictsComeFromElsewhere
  <2> SUFFICES ASSUME Inv, NEW r \in Request, wphase[r] = "rejected"
               PROVE  \E i \in (base[r] + 1)..Len(branch) :
                        branch[i].by = None \/ body[branch[i].by].pair # body[r].pair
    BY DEF ConflictsComeFromElsewhere
  <2>1. Len(branch) \in (base[r] + 1)..Len(branch)
    BY DEF GitSide, Late, DeployInv, GitInv, Git!TypeOK
  <2> QED
    BY <2>1 DEF GitSide, Since
<1> QED
  BY <1>1, <1>2, <1>3, PTL DEF Spec

(***************************************************************************)
(* Without faults and foreign commits: the history and the branch          *)
(***************************************************************************)

NoForeign == \A i \in 2..Len(branch) : branch[i].by # None

TipOf(c) == branch[Len(branch)].tree[c]

\* The deploy under way is the youngest of its pair.
Young ==
    /\ \A q \in Request : rec[q].at \in 0..clock
    /\ \A r, q \in Request :
         stage[r] = "apply" /\ q # r /\ Recorded(q) /\ body[q].pair = body[r].pair
           => rec[q].at < rec[r].at

\* The clone of a deploy under way shows its pair as the branch does.
Same ==
    NoForeign => \A r \in Request : wphase[r] \in {"patch", "push", "sent"} =>
        \A c \in Cell : c[1] = body[r].pair => TipOf(c) = branch[base[r]].tree[c]

\* What a deploy under way has done is what the branch shows.
Shown ==
    NoForeign => \A r \in Request :
        stage[r] = "apply" /\ (Pushed(r) \/ reply[r] = "empty") =>
            TipOf(want[r].cell) = Git!Written(want[r].tag)

Newest(r, c) == r \in SuccessesOf(c) /\ \A q \in SuccessesOf(c) : rec[q].at <= rec[r].at

Busy(c) == \E q \in Request : stage[q] = "apply" /\ Pushed(q) /\ want[q].cell = c

Agrees ==
    NoForeign => \A c \in Cell, r \in Request :
        Newest(r, c) /\ ~Busy(c) => TipOf(c) = Git!Written(body[r].tag)

HistorySide == Young /\ Same /\ Shown /\ Agrees

SerialInv == DeployInv /\ LockSide /\ Calm /\ GitSide /\ HistorySide

\* What a step that leaves the branch and the records alone must see to.
LEMMA HistoryStays ==
  ASSUME SerialInv, LockSide', UNCHANGED <<branch, want>>, clock' = clock,
         \A r \in Request : Recorded(r) => body'[r] = body[r],
         \A r \in Request : stage'[r] = "apply" <=> stage[r] = "apply",
         \A r \in Request : rec'[r].at = rec[r].at,
         \A r \in Request : Recorded(r)' <=> Recorded(r),
         \A r \in Request : rec'[r].outcome = "success" <=> rec[r].outcome = "success",
         \A r \in Request : wphase'[r] \in {"patch", "push", "sent"} =>
            \/ base'[r] = Len(branch)
            \/ base'[r] = base[r] /\ wphase[r] \in {"patch", "push", "sent"},
         \A r \in Request : NoForeign /\ reply'[r] = "empty" /\ stage[r] = "apply" =>
            reply[r] = "empty" \/ TipOf(want[r].cell) = Git!Written(want[r].tag),
         \A r \in Request : stage[r] = "apply" => body'[r] = body[r]
  PROVE  HistorySide'
<1>1. /\ \A r \in Request : Pushed(r)' <=> Pushed(r)
      /\ NoForeign' <=> NoForeign
      /\ \A c \in Cell : TipOf(c)' = TipOf(c)
      /\ \A c \in Cell : Busy(c)' <=> Busy(c)
  BY DEF Pushed, NoForeign, TipOf, Busy
<1>2. Young'
  BY DEF SerialInv, HistorySide, Young
<1>3. ASSUME NEW r \in Request, wphase'[r] \in {"patch", "push", "sent"}
      PROVE  body'[r] = body[r]
  BY <1>3 DEF LockSide, Runs, Git!Running
<1>4. Same'
  <2> SUFFICES ASSUME NoForeign, NEW r \in Request, wphase'[r] \in {"patch", "push", "sent"},
                      NEW c \in Cell, c[1] = body[r].pair
               PROVE  TipOf(c) = branch[base'[r]].tree[c]
    BY <1>1, <1>3 DEF Same
  <2>1. CASE base'[r] = Len(branch)
    BY <2>1 DEF TipOf
  <2>2. CASE base'[r] = base[r] /\ wphase[r] \in {"patch", "push", "sent"}
    BY <2>2 DEF SerialInv, HistorySide, Same
  <2> QED
    BY <2>1, <2>2
<1>5. Shown'
  <2> SUFFICES ASSUME NoForeign, NEW r \in Request, stage[r] = "apply",
                      Pushed(r) \/ reply'[r] = "empty"
               PROVE  TipOf(want[r].cell) = Git!Written(want[r].tag)
    BY <1>1 DEF Shown, TipOf
  <2> QED
    BY DEF SerialInv, HistorySide, Shown
<1>6. \A c \in Cell : SuccessesOf(c)' = SuccessesOf(c)
  BY DEF SuccessesOf, Change, Recorded
<1>7. \A c \in Cell, r \in Request : Newest(r, c)' => Newest(r, c) /\ body'[r] = body[r]
  <2> SUFFICES ASSUME NEW c \in Cell, NEW r \in Request, Newest(r, c)'
               PROVE  Newest(r, c) /\ body'[r] = body[r]
    OBVIOUS
  <2>1. Newest(r, c)
    BY <1>6 DEF Newest, SuccessesOf
  <2> QED
    BY <2>1 DEF Newest, SuccessesOf, Recorded
<1>8. Agrees'
  BY <1>1, <1>7 DEF SerialInv, HistorySide, Agrees
<1> QED
  BY <1>2, <1>4, <1>5, <1>8 DEF HistorySide

LEMMA CreateAgrees ==
  ASSUME SerialInv, LockSide', NEW r \in Request, Create(r)
  PROVE  HistorySide'
<1> USE DEF SerialInv, HistorySide
<1>0. /\ stage \in [Request -> Stage] /\ clock \in Nat
      /\ rec \in [Request -> Record \cup {NoRecord}]
      /\ wphase \in [Request -> Git!WPhase] /\ want \in [Request -> Git!Change \cup {None}]
  BY DEF DeployInv, HandlerInv, HandlerTyped, GitInv, Git!TypeOK
<1>1. /\ phase[r] = "held" /\ stage[r] = "lock" /\ wphase[r] = "idle" /\ ~Pushed(r)
      /\ reply[r] = None /\ rec[r] = NoRecord
  BY DEF Create, Git!Begin, DeployInv, HandlerInv, GitInv, Traced, Returned, Unrecorded
<1>2. /\ stage' = [stage EXCEPT ![r] = "apply"] /\ wphase' = [wphase EXCEPT ![r] = "clone"]
      /\ clock' = clock + 1
      /\ rec' = [rec EXCEPT ![r] = [outcome |-> "in_progress", sha |-> "nil",
                                    err |-> "nil", at |-> clock + 1]]
      /\ UNCHANGED <<body, branch, base, wire, reply>>
      /\ \E w \in Git!Change \cup {None} : want' = [want EXCEPT ![r] = w]
      /\ UNCHANGED phase
  <2>1. Change(r) \in Git!Change
    <3>1. body[r] \in Body
      BY <1>1 DEF DeployInv, HandlerInv, Asked
    <3> QED
      BY <3>1, DeployConstants DEF Change, Git!Change, Cell
  <2> QED
    BY <2>1 DEF Create, Insert, Go, Git!Begin, Git!Walk, Change, lockVars
<1>3. /\ \A q \in Request \ {r} :
           /\ stage'[q] = stage[q] /\ wphase'[q] = wphase[q] /\ want'[q] = want[q]
           /\ rec'[q] = rec[q]
      /\ stage'[r] = "apply" /\ wphase'[r] = "clone"
      /\ rec'[r].outcome = "in_progress" /\ rec'[r].at = clock + 1
  BY <1>0, <1>2
<1>4. /\ \A q \in Request : Pushed(q)' <=> Pushed(q)
      /\ NoForeign' <=> NoForeign
      /\ \A c \in Cell : TipOf(c)' = TipOf(c)
  BY <1>2 DEF Pushed, NoForeign, TipOf
<1>5. \A c \in Cell : Busy(c)' <=> Busy(c)
  BY <1>1, <1>3, <1>4 DEF Busy
<1>6. Young'
  <2>1. \A q \in Request : rec'[q].at \in 0..clock'
    BY <1>0, <1>2, <1>3 DEF Young
  <2>2. ASSUME NEW v \in Request, NEW q \in Request, stage'[v] = "apply", q # v,
               Recorded(q)', body[q].pair = body[v].pair
        PROVE  rec'[q].at < rec'[v].at
    <3>1. CASE v = r
      BY <1>0, <1>3, <2>2, <3>1 DEF Young
    <3>2. CASE v # r
      <4>1. stage[v] = "apply" /\ phase[v] = "held"
        BY <1>3, <2>2, <3>2 DEF LockSide, Within, Calm
      <4>2. q # r
        BY <1>1, <2>2, <3>2, <4>1, OneHolder
      <4> QED
        BY <1>3, <2>2, <3>2, <4>1, <4>2 DEF Young, Recorded
    <3> QED
      BY <3>1, <3>2
  <2> QED
    BY <1>2, <2>1, <2>2 DEF Young
<1>7. Same'
  BY <1>2, <1>3, <1>4 DEF Same
<1>8. Shown'
  <2> SUFFICES ASSUME NoForeign, NEW q \in Request, stage'[q] = "apply",
                      Pushed(q) \/ reply[q] = "empty"
               PROVE  TipOf(want'[q].cell) = Git!Written(want'[q].tag)
    BY <1>2, <1>4 DEF Shown, TipOf
  <2>1. q # r
    BY <1>1, NoneIsApart DEF Git!Reply
  <2> QED
    BY <1>3, <2>1 DEF Shown
<1>9. \A c \in Cell : SuccessesOf(c)' = SuccessesOf(c) /\ r \notin SuccessesOf(c)
  BY <1>1, <1>2, <1>3 DEF SuccessesOf, Change, NoRecord
<1>10. Agrees'
  <2>1. \A c \in Cell, q \in Request : Newest(q, c)' => Newest(q, c)
    <3> SUFFICES ASSUME NEW c \in Cell, NEW q \in Request, Newest(q, c)'
                 PROVE  Newest(q, c)
      OBVIOUS
    <3> QED
      BY <1>3, <1>9 DEF Newest, SuccessesOf
  <2> QED
    BY <1>2, <1>4, <1>5, <2>1 DEF Agrees
<1> QED
  BY <1>6, <1>7, <1>8, <1>10

LEMMA CloseAgrees ==
  ASSUME Faults = {}, SerialInv, NEW r \in Request, Close(r)
  PROVE  HistorySide'
<1> USE DEF SerialInv, HistorySide
<1>0. /\ stage \in [Request -> Stage]
      /\ rec \in [Request -> Record \cup {NoRecord}] /\ reply[r] \in Git!Reply
      /\ clock \in Nat
  BY DEF Close, DeployInv, HandlerInv, HandlerTyped, GitInv, Git!TypeOK, Returned
<1>1. /\ stage[r] = "apply" /\ wphase[r] = "done" /\ rec[r] \in Record
      /\ rec[r].outcome \in {"in_progress", "failure"}
      /\ Pushed(r) <=> reply[r] = "commit"
      /\ want[r] = Change(r) /\ body[r] \in Body
  <2>1. rec[r].outcome \in {"in_progress", "failure"} /\ stage[r] = "apply"
    BY DEF Close, DeployInv, HandlerInv, Open
  <2> QED
    BY <1>0, <2>1 DEF Close, DeployInv, HandlerInv, Asked, Begun, NoRecord, GitSide, Lands
<1>2. /\ stage' = [stage EXCEPT ![r] = "close"]
      /\ UNCHANGED <<body, clock, branch, wphase, want, base, wire, reply>>
      /\ rec' = [rec EXCEPT ![r] = Closed(r)]
  BY DEF Close, Go, lockVars, gitVars, Calm, DbError
<1>3. /\ \A q \in Request \ {r} : stage'[q] = stage[q] /\ rec'[q] = rec[q]
      /\ stage'[r] = "close" /\ rec'[r] = Closed(r)
  BY <1>0, <1>2
<1>4. /\ \A q \in Request : Pushed(q)' <=> Pushed(q)
      /\ NoForeign' <=> NoForeign
      /\ \A c \in Cell : TipOf(c)' = TipOf(c)
  BY <1>2 DEF Pushed, NoForeign, TipOf
<1>5. /\ rec'[r].at \in 0..clock
      /\ rec'[r].outcome # "none" => rec'[r].at = rec[r].at
      /\ rec'[r].outcome = "success" <=> reply[r] \in {"commit", "empty"}
  <2>0. rec[r].at \in 0..clock
    BY DEF Young
  <2>1. CASE reply[r] = "reject"
    <3>1. rec'[r] = NoRecord
      BY <1>3, <2>1 DEF Closed
    <3>2. 0 \in 0..clock
      BY <1>0
    <3> QED
      BY <2>1, <3>1, <3>2 DEF NoRecord
  <2>2. CASE reply[r] = "error"
    <3>1. rec'[r].outcome = "failure" /\ rec'[r].at = rec[r].at
      BY <1>1, <1>3, <2>2 DEF Closed, Record
    <3> QED
      BY <2>0, <2>2, <3>1
  <2>3. CASE reply[r] \in {"commit", "empty"}
    <3>1. rec'[r].outcome = "success" /\ rec'[r].at = rec[r].at
      BY <1>1, <1>3, <2>3 DEF Closed, Record
    <3> QED
      BY <2>0, <2>3, <3>1
  <2> QED
    BY <1>0, <2>1, <2>2, <2>3 DEF Git!Reply
<1>6. Young'
  <2>1. ASSUME NEW v \in Request, NEW q \in Request, stage'[v] = "apply", q # v,
               Recorded(q)', body[q].pair = body[v].pair
        PROVE  rec'[q].at < rec'[v].at
    <3>1. v # r /\ stage[v] = "apply"
      BY <1>3, <2>1
    <3>2. Recorded(q) /\ rec'[q].at = rec[q].at
      BY <1>1, <1>3, <1>5, <2>1 DEF Recorded
    <3> QED
      BY <1>3, <2>1, <3>1, <3>2 DEF Young
  <2> QED
    BY <1>2, <1>3, <1>5, <2>1 DEF Young
<1>7. Same'
  BY <1>2, <1>4 DEF Same
<1>8. Shown'
  <2> SUFFICES ASSUME NoForeign, NEW q \in Request, stage'[q] = "apply",
                      Pushed(q) \/ reply[q] = "empty"
               PROVE  TipOf(want[q].cell) = Git!Written(want[q].tag)
    BY <1>2, <1>4 DEF Shown, TipOf
  <2> QED
    BY <1>3 DEF Shown
<1>9. \A c \in Cell : SuccessesOf(c) \subseteq SuccessesOf(c)'
  BY <1>1, <1>2, <1>3 DEF SuccessesOf, Change
<1>10. \A c \in Cell : SuccessesOf(c)' \subseteq SuccessesOf(c) \cup {r}
  BY <1>2, <1>3 DEF SuccessesOf, Change
<1>11. ASSUME NoForeign, NEW c \in Cell, NEW q \in Request, Newest(q, c)', ~Busy(c)'
       PROVE  TipOf(c) = Git!Written(body[q].tag)
  <2>1. CASE rec'[r].outcome = "success" /\ Change(r).cell = c
    <3>1. r \in SuccessesOf(c)'
      BY <1>2, <2>1 DEF SuccessesOf, Change
    <3>2. rec'[r].at <= rec'[q].at /\ q \in SuccessesOf(c)'
      BY <1>11, <3>1 DEF Newest
    <3>3. q = r
      <4> SUFFICES ASSUME q # r PROVE FALSE
        OBVIOUS
      <4>1. q \in SuccessesOf(c)
        BY <1>10, <3>2
      <4>2. Recorded(q) /\ Change(q).cell = c
        BY <4>1 DEF SuccessesOf, Recorded
      <4>3. body[q].pair = body[r].pair
        <5>1. Change(q).cell[1] = body[q].pair /\ Change(r).cell[1] = body[r].pair
          BY DEF Change
        <5> QED
          BY <2>1, <4>2, <5>1
      <4>4. rec[q].at < rec[r].at
        BY <1>1, <4>2, <4>3 DEF Young
      <4>5. rec'[q].at = rec[q].at /\ rec'[r].at = rec[r].at
        BY <1>3, <1>5, <2>1
      <4>6. rec[q].at \in Nat /\ rec[r].at \in Nat
        BY DEF Young
      <4> QED
        BY <3>2, <4>4, <4>5, <4>6
    <3>4. Pushed(r) \/ reply[r] = "empty"
      BY <1>1, <1>5, <2>1
    <3>5. TipOf(want[r].cell) = Git!Written(want[r].tag)
      BY <1>1, <1>11, <3>4 DEF Shown
    <3>6. Change(r).tag = body[r].tag
      BY DEF Change
    <3> QED
      BY <1>1, <2>1, <3>3, <3>5, <3>6
  <2>2. CASE ~(rec'[r].outcome = "success" /\ Change(r).cell = c)
    <3>1. r \notin SuccessesOf(c)'
      BY <1>2, <2>2 DEF SuccessesOf, Change
    <3>2. q \in SuccessesOf(c) /\ q # r
      BY <1>10, <1>11, <3>1 DEF Newest
    <3>3. \A v \in SuccessesOf(c) : v # r /\ rec[v].at <= rec[q].at
      BY <1>3, <1>9, <1>11, <3>1, <3>2 DEF Newest, SuccessesOf
    <3>4. Newest(q, c)
      BY <3>2, <3>3 DEF Newest
    <3>5. ~Busy(c)
      <4> SUFFICES ASSUME NEW v \in Request, stage[v] = "apply", Pushed(v), want[v].cell = c
                   PROVE  FALSE
        BY DEF Busy
      <4>1. v = r
        BY <1>2, <1>3, <1>4, <1>11 DEF Busy
      <4> QED
        BY <1>1, <1>5, <2>2, <4>1
    <3> QED
      BY <1>11, <3>4, <3>5 DEF Agrees
  <2> QED
    BY <2>1, <2>2
<1>12. Agrees'
  BY <1>2, <1>4, <1>11 DEF Agrees
<1> QED
  BY <1>6, <1>7, <1>8, <1>12

\* A commit for a pair shows what it says, and leaves the other pairs alone.
LEMMA LandAgrees ==
  ASSUME SerialInv, NEW w \in Request, Land(w), Git!LandOk(w)
  PROVE  HistorySide'
<1> USE DEF SerialInv, HistorySide
<1>0. /\ branch \in Seq(Entry) /\ Len(branch) \in Nat
      /\ wphase \in [Request -> Git!WPhase]
      /\ w \in wire /\ wphase[w] = "sent" /\ base[w] \in 1..Len(branch)
      /\ stage[w] = "apply"
  BY DEF Git!LandOk, DeployInv, GitInv, Git!TypeOK, GitSide, Sent, Based, LockSide, Runs,
     Entry, Git!Running
<1> DEFINE e == [tree |-> Git!Patched(w), by |-> w]
<1>1. /\ e \in Entry /\ e.by = w
      /\ e.tree = [branch[base[w]].tree EXCEPT ![want[w].cell] = Git!Written(want[w].tag)]
      /\ e.tree[want[w].cell] = Git!Written(want[w].tag)
  BY <1>0, PatchTyped DEF Entry
<1>2. /\ branch' = Append(branch, e) /\ base[w] = Len(branch)
      /\ UNCHANGED <<stage, body, rec, clock, want, base, reply>>
      /\ wphase' = [wphase EXCEPT ![w] = "accepted"]
  BY <1>0 DEF Land, Git!LandOk, Git!Verdict
<1> HIDE DEF e
<1>3. /\ Grown(e)
      /\ \A r \in Request : Pushed(r) => Pushed(r)'
      /\ \A r \in Request : Pushed(r)' => Pushed(r) \/ e.by = r
  BY <1>0, <1>1, <1>2, Grows
<1>4. TipOf(want[w].cell)' = Git!Written(want[w].tag)
  BY <1>1, <1>2, <1>3 DEF TipOf, Grown
<1>5. \A c \in Cell : c # want[w].cell => TipOf(c)' = TipOf(c)
  <2>1. Len(branch) \in 1..Len(branch)
    BY <1>0
  <2>2. branch[Len(branch)] \in Entry
    BY <1>0, <2>1
  <2>3. branch[Len(branch)].tree \in [Cell -> Git!Text]
    BY <2>2 DEF Entry, Git!Tree
  <2> QED
    BY <1>1, <1>2, <1>3, <2>3 DEF TipOf, Grown
<1>6. NoForeign' => NoForeign
  BY <1>0, <1>3 DEF NoForeign, Grown
<1>7. want[w] = Change(w) /\ want[w].cell[1] = body[w].pair
  BY <1>0 DEF DeployInv, HandlerInv, Begun, Change
<1>8. \A r \in Request : r # w /\ stage[r] = "apply" => body[r].pair # body[w].pair
  BY <1>0, Alone DEF Git!Running
<1>9. Pushed(w)'
  <2>1. Len(branch') \in 1..Len(branch') /\ branch'[Len(branch')].by = w
    BY <1>0, <1>1, <1>3 DEF Grown
  <2> QED
    BY <2>1 DEF Pushed
<1>10. Young'
  BY <1>2 DEF Young, Recorded
<1>11. Same'
  <2> SUFFICES ASSUME NoForeign', NEW r \in Request, wphase'[r] \in {"patch", "push", "sent"},
                      NEW c \in Cell, c[1] = body[r].pair
               PROVE  TipOf(c)' = branch'[base[r]].tree[c]
    BY <1>2 DEF Same
  <2>1. r # w /\ wphase[r] \in {"patch", "push", "sent"}
    BY <1>0, <1>2
  <2>2. stage[r] = "apply" /\ base[r] \in 1..Len(branch)
    BY <2>1 DEF LockSide, Runs, Git!Running, DeployInv, GitInv, Based
  <2>3. c # want[w].cell
    BY <1>7, <1>8, <2>1, <2>2
  <2>4. TipOf(c) = branch[base[r]].tree[c]
    BY <1>6, <2>1 DEF Same
  <2> QED
    BY <1>3, <1>5, <2>2, <2>3, <2>4 DEF Grown
<1>12. Shown'
  <2> SUFFICES ASSUME NoForeign', NEW r \in Request, stage[r] = "apply",
                      Pushed(r)' \/ reply[r] = "empty"
               PROVE  TipOf(want[r].cell)' = Git!Written(want[r].tag)
    BY <1>2 DEF Shown, TipOf
  <2>1. CASE r = w
    BY <1>4, <2>1
  <2>2. CASE r # w
    <3>1. Pushed(r) \/ reply[r] = "empty"
      BY <1>1, <1>3, <2>2
    <3>2. wphase[r] # "idle"
      BY NoneIsApart DEF DeployInv, HandlerInv, Open
    <3>3. want[r].cell \in Cell /\ want[r] = Change(r)
      BY <3>2, WantTyped DEF Git!Change, DeployInv, HandlerInv, Begun
    <3>4. want[r].cell # want[w].cell
      BY <1>7, <1>8, <2>2, <3>3 DEF Change
    <3> QED
      BY <1>2, <1>5, <1>6, <3>1, <3>3, <3>4 DEF Shown
  <2> QED
    BY <2>1, <2>2
<1>13. Agrees'
  <2> SUFFICES ASSUME NoForeign', NEW c \in Cell, NEW r \in Request,
                      Newest(r, c)', ~Busy(c)'
               PROVE  TipOf(c)' = Git!Written(body[r].tag)
    BY <1>2 DEF Agrees, TipOf
  <2>1. Newest(r, c)
    BY <1>2 DEF Newest, SuccessesOf, Change
  <2>2. ~Busy(c) /\ c # want[w].cell
    BY <1>0, <1>2, <1>3, <1>9 DEF Busy
  <2> QED
    BY <1>5, <1>6, <2>1, <2>2 DEF Agrees
<1> QED
  BY <1>10, <1>11, <1>12, <1>13

\* A foreign commit ends the comparison.
LEMMA OutsideAgrees ==
  ASSUME SerialInv, NEW c \in Cell, NEW x \in ForeignText, Outside(c, x)
  PROVE  HistorySide'
<1> DEFINE e == [tree |-> [Git!Tip.tree EXCEPT ![c] = x], by |-> None]
<1>1. e \in Entry /\ e.by = None
  BY OutsideTyped DEF Entry, SerialInv
<1>2. branch' = Append(branch, e) /\ UNCHANGED <<stage, body, rec, clock, want>>
  BY DEF Outside, Git!Outside
<1> HIDE DEF e
<1>3. branch \in Seq(Entry) /\ Len(branch) \in Nat /\ Len(branch) > 0
  BY DEF SerialInv, DeployInv, GitInv, Git!TypeOK, Entry
<1>4. Grown(e)
  BY <1>1, <1>2, <1>3, Grows
<1>5. ~NoForeign'
  <2>1. Len(branch') \in 2..Len(branch') /\ branch'[Len(branch')].by = None
    BY <1>1, <1>3, <1>4 DEF Grown
  <2> QED
    BY <2>1 DEF NoForeign
<1>6. Young'
  BY <1>2 DEF SerialInv, HistorySide, Young, Recorded
<1> QED
  BY <1>5, <1>6 DEF HistorySide, Same, Shown, Agrees

\* A step of Apply that leaves the branch alone.
LEMMA CallAgrees ==
  ASSUME Faults = {}, SerialInv, LockSide', NEW w \in Request,
         Apply(w) \/ (Land(w) /\ ~Git!LandOk(w))
  PROVE  HistorySide'
<1>0. /\ Follows(w)
      /\ UNCHANGED <<stage, body, rec, clock>>
  BY CallStepFollows DEF SerialInv, Apply, Land
<1>1. ASSUME NoForeign, reply'[w] = "empty", stage[w] = "apply"
      PROVE  reply[w] = "empty" \/ TipOf(want[w].cell) = Git!Written(want[w].tag)
  <2>0. reply \in [Request -> Git!Reply \cup {None}]
    BY DEF SerialInv, DeployInv, GitInv, Git!TypeOK
  <2>1. CASE Git!NothingToCommit(w)
    <3>1. wphase[w] = "patch" /\ Git!Patched(w) = Git!Cloned(w)
      BY <2>1 DEF Git!NothingToCommit
    <3>2. base[w] \in 1..Len(branch) /\ want[w] = Change(w) /\ want[w].cell \in Cell
      BY <3>1, WantTyped
      DEF SerialInv, DeployInv, HandlerInv, Begun, GitInv, Based, Git!Change
    <3>3. want[w].cell[1] = body[w].pair
      BY <3>2 DEF Change
    <3>4. branch[base[w]].tree[want[w].cell] = Git!Written(want[w].tag)
      BY <3>1, <3>2, PatchTyped DEF Git!Cloned, SerialInv
    <3> QED
      BY <1>1, <3>1, <3>2, <3>3, <3>4 DEF SerialInv, HistorySide, Same
  <2>2. CASE ~Git!NothingToCommit(w)
    <3>1. ~((gone[w] \/ "net" \in Faults) /\ Git!Fail(w))
      BY DEF SerialInv, Calm
    <3> QED
      BY <1>1, <2>0, <2>2, <3>1
      DEF Apply, Land, Git!Applying, Git!Land, Git!Clone, Git!Unpatchable, Git!Commit,
          Git!Push, Git!Answer, Git!LandStale, Git!LandSame, Git!Return
  <2> QED
    BY <2>1, <2>2
<1>2. \A r \in Request : Recorded(r)' <=> Recorded(r)
  BY <1>0 DEF Recorded
<1> QED
  BY <1>0, <1>1, <1>2, HistoryStays DEF Follows

LEMMA HistoryKept ==
  ASSUME Faults = {}, SerialInv, DeployInv', LockSide', [Next]_vars
  PROVE  HistorySide'
<1>0. /\ stage \in [Request -> Stage] /\ body \in [Request -> Body \cup {None}]
      /\ rec \in [Request -> Record \cup {NoRecord}]
  BY DEF SerialInv, DeployInv, HandlerInv, HandlerTyped
<1>1. ASSUME NEW r \in Request, NEW b \in Body, Refuse(r, b) \/ Receive(r, b)
      PROVE  HistorySide'
  <2>1. stage[r] = "new" /\ ~Recorded(r)
    BY <1>1 DEF Refuse, Receive, SerialInv, DeployInv, HandlerInv, Unrecorded, Recorded,
       NoRecord
  <2>2. /\ UNCHANGED <<rec, clock, branch, wphase, want, base, wire, reply>>
        /\ \E s \in {"refused", "lock"} : stage' = [stage EXCEPT ![r] = s]
        /\ body' = [body EXCEPT ![r] = b]
    BY <1>1 DEF Refuse, Receive, Go, gitVars
  <2>3. /\ \A q \in Request \ {r} : stage'[q] = stage[q] /\ body'[q] = body[q]
        /\ stage'[r] # "apply"
    BY <1>0, <2>2
  <2>4. \A q \in Request : Recorded(q)' <=> Recorded(q)
    BY <2>2 DEF Recorded
  <2> QED
    BY <2>1, <2>2, <2>3, <2>4, HistoryStays
<1>2. ASSUME UNCHANGED <<stage, body, rec, clock, branch, wphase, want, base, wire, reply>>
      PROVE  HistorySide'
  <2>1. \A q \in Request : Recorded(q)' <=> Recorded(q)
    BY <1>2 DEF Recorded
  <2> QED
    BY <1>2, <2>1, HistoryStays
<1>3. ASSUME NEW r \in Request, CreateFails(r)
      PROVE  HistorySide'
  <2>1. stage[r] = "lock" /\ ~DbError(r)
    BY <1>3 DEF CreateFails, DbError, SerialInv, Calm
  <2>2. /\ UNCHANGED <<body, rec, clock, branch, wphase, want, base, wire, reply>>
        /\ stage' = [stage EXCEPT ![r] = "close"]
    BY <1>3, <2>1 DEF CreateFails, Go, gitVars
  <2>3. \A q \in Request : stage'[q] = "apply" <=> stage[q] = "apply"
    BY <1>0, <2>1, <2>2
  <2>4. \A q \in Request : Recorded(q)' <=> Recorded(q)
    BY <2>2 DEF Recorded
  <2> QED
    BY <2>2, <2>3, <2>4, HistoryStays
<1>4. ASSUME NEW s \in Server, Sweep(s)
      PROVE  HistorySide'
  <2>1. UNCHANGED <<stage, body, clock, branch, wphase, want, base, wire, reply>>
    BY <1>4 DEF Sweep, gitVars
  <2>2. ASSUME NEW q \in Request
        PROVE  /\ rec'[q].at = rec[q].at
               /\ rec'[q].outcome = "success" <=> rec[q].outcome = "success"
               /\ rec'[q].outcome # "none" <=> rec[q].outcome # "none"
    <3>1. rec'[q] = IF Stale(q) THEN [rec[q] EXCEPT !.outcome = "failure", !.err = "stale"]
                    ELSE rec[q]
      BY <1>4 DEF Sweep
    <3>2. CASE Stale(q)
      <4>1. rec[q].outcome = "in_progress" /\ rec[q] \in Record
        BY <1>0, <3>2 DEF Stale, NoRecord
      <4> QED
        BY <3>1, <3>2, <4>1 DEF Record
    <3>3. CASE ~Stale(q)
      BY <3>1, <3>3
    <3> QED
      BY <3>2, <3>3
  <2>3. \A q \in Request : Recorded(q)' <=> Recorded(q)
    BY <2>2 DEF Recorded
  <2> QED
    BY <2>1, <2>2, <2>3, HistoryStays
<1>5. ASSUME NEW r \in Request, Handle(r) \/ Land(r) \/ Disturb(r)
      PROVE  HistorySide'
  <2>1. CASE Acquire(r) \/ Release(r) \/ Disturb(r)
    BY <1>2, <2>1 DEF Acquire, Release, Disturb, gitVars
  <2>2. CASE Apply(r) \/ (Land(r) /\ ~Git!LandOk(r))
    BY <2>2, CallAgrees
  <2>3. CASE Land(r) /\ Git!LandOk(r)
    BY <2>3, LandAgrees
  <2> QED
    BY <1>3, <1>5, <2>1, <2>2, <2>3, CreateAgrees, CloseAgrees DEF Handle
<1>6. \A s \in Server : ~Crash(s)
  BY DEF Crash, Lock!Crash
<1>7. CASE \/ \E p \in Pair : DeleteEnv(p)
           \/ TimePasses \/ Quiet \/ UNCHANGED vars
  BY <1>2, <1>7 DEF DeleteEnv, TimePasses, Quiet, vars, gitVars
<1>8. CASE Next
  BY <1>1, <1>4, <1>5, <1>6, <1>7, <1>8, OutsideAgrees DEF Next
<1> QED
  BY <1>7, <1>8

\* If nothing fails and nobody else commits, the newest success of a workload
\* is what the branch says it runs, whenever no deploy of its pair is under
\* way: the history of the deploys and the history of the commits agree.
THEOREM HistoryAgrees ==
  ASSUME Faults = {}
  PROVE  Spec => []HistoryAgreesWithGit
<1>1. Init => SerialInv
  <2> SUFFICES ASSUME Init PROVE Calm /\ GitSide /\ HistorySide
    BY InitKeeps, InitLockSide DEF SerialInv
  <2>1. PICK t \in Git!Tree : branch = <<[tree |-> t, by |-> None]>>
    BY DEF Init, Git!Init
  <2>2. \A r \in Request : ~Pushed(r)
    BY <2>1, DeployConstants DEF Pushed
  <2>3. Calm
    BY DEF Init, Lock!Init, Calm
  <2>4. GitSide
    BY <2>2, NoneIsApart
    DEF Init, Git!Init, GitSide, Sent, Lands, Since, Late, Git!Reply
  <2>5. HistorySide
    BY DEF Init, Git!Init, HistorySide, Young, Same, Shown, Agrees, Newest, SuccessesOf,
       NoRecord, Recorded
  <2> QED
    BY <2>3, <2>4, <2>5
<1>2. SerialInv /\ [Next]_vars => SerialInv'
  BY StepKeeps, LockSideKept, CalmKept, GitSideKept, HistoryKept DEF SerialInv
<1>3. SerialInv => HistoryAgreesWithGit
  <2> SUFFICES ASSUME SerialInv, NEW c \in Cell, NEW r \in Request,
                      NoForeign, Newest(r, c),
                      \A q \in Request :
                        body[q] # None /\ body[q].pair = c[1] => stage[q] # "apply"
               PROVE  TipOf(c).tag = body[r].tag
    BY DEF HistoryAgreesWithGit, NoForeign, Newest, TipOf
  <2>1. ~Busy(c)
    <3> SUFFICES ASSUME NEW q \in Request, stage[q] = "apply", Pushed(q), want[q].cell = c
                 PROVE  FALSE
      BY DEF Busy
    <3>1. wphase[q] # "idle" /\ body[q] \in Body
      BY DEF SerialInv, DeployInv, HandlerInv, Open, Asked
    <3>2. want[q] = Change(q)
      BY <3>1 DEF SerialInv, DeployInv, HandlerInv, Begun
    <3>3. body[q].pair = c[1]
      BY <3>2 DEF Change
    <3>4. body[q] = None
      BY <3>3
    <3> QED
      BY <3>1, <3>4, DeployConstants
  <2>2. TipOf(c) = Git!Written(body[r].tag)
    BY <2>1 DEF SerialInv, HistorySide, Agrees
  <2> QED
    BY <2>2 DEF Git!Written
<1> QED
  BY <1>1, <1>2, <1>3, PTL DEF Spec
=============================================================================
