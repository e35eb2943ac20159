------------------------------- MODULE Deploy -------------------------------
(***************************************************************************)
(* internal/api/handlers/deploy.go, Deploy, composed with the lock it      *)
(* takes (DeploymentLock), the gitops writer it calls (GitOpsWriter), the  *)
(* deployments table of internal/store/deployment_store.go, and the sweep  *)
(* of cmd/server/main.go that closes records left in progress.             *)
(*                                                                         *)
(* A request looks its targets up, takes the lock of the pair, inserts an  *)
(* in_progress record, applies the tag, closes the record by what Apply    *)
(* returned, and releases the lock.  Every access to the database goes     *)
(* through the pool of the request's replica, in which the lock already    *)
(* keeps one connection, and under the request's context: a client that    *)
(* disconnects makes the accesses that follow fail.                        *)
(***************************************************************************)
EXTENDS Naturals, Sequences, FiniteSets

CONSTANTS
    Request, Pair, Key, LockKey, Server, Host, PoolSize, Faults, None,
    Workload, Tag, OciTag, MaxOutside, NoTag,
    Body,           \* what clients ask for: a pair, a workload and a tag
    Conforming,     \* the <<pair, tag>> the tag convention admits
    ForeignText     \* bound on what other committers write

ASSUME DeployConstants ==
    /\ Body \subseteq [pair : Pair, workload : Workload, tag : Tag]
    /\ Conforming \subseteq Pair \X Tag
    /\ LockKey \in [Pair -> Key]
    /\ None \notin Request \cup Body

Cell == Pair \X Workload

VARIABLES
    stage,          \* where the handler stands, per request
    body,           \* what the request asks for
    rec,            \* the deployments table, by the request that inserted
    clock,          \* how many records have been inserted: the deployed_at
    horizon,        \* records up to this one are older than the stale timeout
    phase, target, session, gone, shown, advisory, row, live,
    branch, wphase, want, base, wire, reply

Lock == INSTANCE DeploymentLock
Git == INSTANCE GitOpsWriter WITH Writer <- Request

ASSUME ForeignTextBound == ForeignText \subseteq Git!Text
ASSUME NoneIsApart == None \notin Git!Reply \cup Git!Change

lockVars == <<phase, target, session, gone, shown, advisory, row, live>>
gitVars == <<branch, wphase, want, base, wire, reply>>
vars == <<stage, body, rec, clock, horizon, lockVars, gitVars>>

NoRecord == [outcome |-> "none", sha |-> "nil", err |-> "nil", at |-> 0]
Record == [outcome : {"in_progress", "success", "failure"},
           sha : {"nil", "commit", "empty"},
           err : {"nil", "gitops", "stale"},
           at : Nat \ {0}]

Stage == {"new", "refused", "lock", "apply", "close"}

TypeOK ==
    /\ Lock!TypeOK
    /\ Git!TypeOK
    /\ stage \in [Request -> Stage]
    /\ body \in [Request -> Body \cup {None}]
    /\ rec \in [Request -> Record \cup {NoRecord}]
    /\ clock \in Nat
    /\ horizon \in 0..clock

Init ==
    /\ Lock!Init
    /\ Git!Init
    /\ stage = [r \in Request |-> "new"]
    /\ body = [r \in Request |-> None]
    /\ rec = [r \in Request |-> NoRecord]
    /\ clock = 0
    /\ horizon = 0

Go(r, s) == stage' = [stage EXCEPT ![r] = s]

Recorded(r) == rec[r].outcome # "none"

\* A statement under the request's context comes back with an error.
DbError(r) == gone[r] \/ "db" \in Faults

(***************************************************************************)
(* The handler                                                             *)
(***************************************************************************)

\* The request is answered before it takes the lock: its environment does
\* not exist, or its tag breaks the convention.
Refuse(r, b) ==
    /\ stage[r] = "new"
    /\ Lock!FreeConn(Host[r])
    /\ b.pair \notin live \/ <<b.pair, b.tag>> \notin Conforming
    /\ Go(r, "refused")
    /\ body' = [body EXCEPT ![r] = b]
    /\ UNCHANGED <<rec, clock, horizon, lockVars, gitVars>>

\* resolveDeployTargets and checkTagConvention pass; the handler asks for
\* the lock of the pair.
Receive(r, b) ==
    /\ stage[r] = "new"
    /\ Lock!FreeConn(Host[r])
    /\ b.pair \in live /\ <<b.pair, b.tag>> \in Conforming
    /\ Go(r, "lock")
    /\ body' = [body EXCEPT ![r] = b]
    /\ Lock!Start(r, b.pair)
    /\ UNCHANGED <<rec, clock, horizon, gitVars>>

Acquire(r) ==
    /\ Lock!Acquiring(r)
    /\ UNCHANGED <<stage, body, rec, clock, horizon, gitVars>>

Insert(r) ==
    /\ clock' = clock + 1
    /\ rec' = [rec EXCEPT ![r] = [outcome |-> "in_progress", sha |-> "nil",
                                  err |-> "nil", at |-> clock + 1]]

\* deploymentStore.Create on a second connection, then the call of Apply.
\* The foreign key of the record pins the environment from here on.
Create(r) ==
    /\ phase[r] = "held" /\ stage[r] = "lock" /\ ~gone[r]
    /\ Lock!FreeConn(Host[r])
    /\ body[r].pair \in live
    /\ Insert(r)
    /\ Go(r, "apply")
    /\ Git!Begin(r, <<body[r].pair, body[r].workload>>, body[r].tag)
    /\ UNCHANGED <<body, horizon, lockVars>>

\* Bug: the Release is deferred only after Create, whose failure returns.
CreateLeaks(r) ==
    /\ phase[r] = "held" /\ stage[r] = "lock"
    /\ \/ body[r].pair \notin live /\ Lock!FreeConn(Host[r])
       \/ DbError(r)
    /\ Go(r, "refused")
    /\ UNCHANGED <<body, rec, clock, horizon, lockVars, gitVars>>

\* Create fails: the environment was deleted in the meantime, or the
\* statement ended in an error, having inserted the record or not.
CreateFails(r) ==
    /\ phase[r] = "held" /\ stage[r] = "lock"
    /\ \/ /\ body[r].pair \notin live /\ Lock!FreeConn(Host[r])
          /\ UNCHANGED <<rec, clock>>
       \/ /\ DbError(r)
          /\ UNCHANGED <<rec, clock>>
       \/ /\ DbError(r) /\ body[r].pair \in live
          /\ Insert(r)
    /\ Go(r, "close")
    /\ UNCHANGED <<body, horizon, lockVars, gitVars>>

\* Steps of Apply; it also fails when its context is cancelled.
Apply(r) ==
    /\ \/ Git!Applying(r)
       \/ (gone[r] \/ "net" \in Faults) /\ Git!Fail(r)
    /\ UNCHANGED <<stage, body, rec, clock, horizon, lockVars>>

\* The git server receives a push.
Land(r) ==
    /\ Git!Land(r)
    /\ UNCHANGED <<stage, body, rec, clock, horizon, lockVars>>

\* Bug: every failed deploy, not just a refused one, deletes its record.
ClosedDeletesFailures(r) ==
    IF reply[r] \in {"reject", "error"} THEN NoRecord
    ELSE [rec[r] EXCEPT !.outcome = "success", !.sha = reply[r], !.err = "nil"]

\* Bug: the handler goes on after a recordable failure.
ClosedIgnoresFailures(r) ==
    IF reply[r] = "reject" THEN NoRecord
    ELSE [rec[r] EXCEPT !.outcome = "success", !.sha = "commit", !.err = "nil"]

\* The record once the handler has closed it: a refusal of Apply deletes
\* it, an error makes it a failure, a hash or an empty hash a success.
\* UpdateOutcome writes by id, whatever the record says by then.
Closed(r) ==
    CASE reply[r] = "reject" -> NoRecord
      [] reply[r] = "error" -> [rec[r] EXCEPT !.outcome = "failure",
                                              !.sha = "nil", !.err = "gitops"]
      [] OTHER -> [rec[r] EXCEPT !.outcome = "success",
                                 !.sha = reply[r], !.err = "nil"]

\* updateOutcome or deleteInProgress, best effort: on an error the record
\* may stay as it was.
Close(r) ==
    /\ phase[r] = "held" /\ stage[r] = "apply" /\ wphase[r] = "done"
    /\ \/ /\ ~gone[r] /\ Lock!FreeConn(Host[r])
          /\ rec' = [rec EXCEPT ![r] = Closed(r)]
       \/ /\ DbError(r)
          /\ rec' \in {rec, [rec EXCEPT ![r] = Closed(r)]}
    /\ Go(r, "close")
    /\ UNCHANGED <<body, clock, horizon, lockVars, gitVars>>

\* The deferred Release, under a context of its own.
Release(r) ==
    /\ stage[r] = "close"
    /\ Lock!Releasing(r)
    /\ UNCHANGED <<stage, body, rec, clock, horizon, gitVars>>

(***************************************************************************)
(* The sweep of stale records                                              *)
(***************************************************************************)

\* Bug: the age of a record is taken with the wrong sign.
TimeRunsAhead ==
    /\ horizon < clock
    /\ horizon' = clock + 1
    /\ UNCHANGED <<stage, body, rec, clock, lockVars, gitVars>>

\* Every record there is grows older than the stale timeout.
TimePasses ==
    /\ horizon < clock
    /\ horizon' = clock
    /\ UNCHANGED <<stage, body, rec, clock, lockVars, gitVars>>

\* Bug: the UPDATE forgets outcome = 'in_progress'.
StaleAny(r) == Recorded(r) /\ rec[r].at <= horizon

\* Bug: the youngest record past the timeout is left out.
StaleOffByOne(r) == rec[r].outcome = "in_progress" /\ rec[r].at < horizon

Stale(r) == rec[r].outcome = "in_progress" /\ rec[r].at <= horizon

\* MarkStaleInProgress, on the ticker of replica s: one UPDATE, which leaves
\* commit_sha alone.
Sweep(s) ==
    /\ Lock!FreeConn(s)
    /\ \E r \in Request : Stale(r)
    /\ rec' = [r \in Request |->
                 IF Stale(r) THEN [rec[r] EXCEPT !.outcome = "failure", !.err = "stale"]
                 ELSE rec[r]]
    /\ UNCHANGED <<stage, body, clock, horizon, lockVars, gitVars>>

(***************************************************************************)
(* Everything else                                                         *)
(***************************************************************************)

\* Bug: the deployments of an environment do not keep it from being deleted.
DeleteAnyEnv(p) ==
    /\ Lock!DeletePair(p)
    /\ UNCHANGED <<stage, body, rec, clock, horizon, gitVars>>

\* DELETE of an environment: refused while a deployment refers to it.
DeleteEnv(p) ==
    /\ \E s \in Server : Lock!FreeConn(s)
    /\ \A r \in Request : Recorded(r) => body[r].pair # p
    /\ Lock!DeletePair(p)
    /\ UNCHANGED <<stage, body, rec, clock, horizon, gitVars>>

Disturb(r) ==
    /\ Lock!Cancel(r) \/ Lock!LoseSession(r)
    /\ UNCHANGED <<stage, body, rec, clock, horizon, gitVars>>

\* A replica stops, with the handlers and the calls of Apply it was running.
Crash(s) ==
    /\ Git!Kill(Lock!Serving(s))
    /\ Lock!Crash(s)
    /\ UNCHANGED <<stage, body, rec, clock, horizon>>

Outside(c, x) ==
    /\ Git!Outside(c, x)
    /\ UNCHANGED <<stage, body, rec, clock, horizon, lockVars>>

Answered(r) == stage[r] = "refused" \/ phase[r] \in Lock!Ended

\* Every request has been answered: the model, not the program, ends here.
Quiet ==
    /\ \A r \in Request : Answered(r)
    /\ UNCHANGED vars

Handle(r) ==
    \/ Acquire(r) \/ Create(r) \/ CreateFails(r) \/ Apply(r) \/ Close(r) \/ Release(r)

Next ==
    \/ \E r \in Request, b \in Body : Refuse(r, b) \/ Receive(r, b)
    \/ \E r \in Request : Handle(r) \/ Land(r) \/ Disturb(r)
    \/ \E s \in Server : Sweep(s) \/ Crash(s)
    \/ \E p \in Pair : DeleteEnv(p)
    \/ \E c \in Cell, x \in ForeignText : Outside(c, x)
    \/ TimePasses
    \/ Quiet

Spec == Init /\ [][Next]_vars

\* Every goroutine that can go on does: strongly, because the pool serves
\* its waiters in turn, so one that can have a connection again and again
\* gets it.  The git server answers a push that is waited for; time passes;
\* and the ticker of every replica runs the sweep.
Fairness ==
    /\ \A r \in Request :
        SF_vars(Handle(r)) /\ WF_vars(wphase[r] = "sent" /\ Land(r))
    /\ WF_vars(TimePasses)
    /\ \A s \in Server : SF_vars(Sweep(s))

FairSpec == Spec /\ Fairness

(***************************************************************************)
(* Properties                                                              *)
(***************************************************************************)

Change(r) == [cell |-> <<body[r].pair, body[r].workload>>, tag |-> body[r].tag]

Pushed(r) == \E i \in 1..Len(branch) : branch[i].by = r

\* "All deployment actions are recorded in the audit log": a commit of a
\* request, on the branch or on its way there, has a record of that request,
\* for the very change the commit makes.  No disconnect, lost session, lost
\* reply, crash or sweep takes it away.
AuditComplete ==
    \A r \in Request :
        Pushed(r) \/ r \in wire => Recorded(r) /\ want[r] = Change(r)

\* A success in the history is a change the branch has had: never a push
\* that was refused, or a commit that nobody asked for.
SuccessMeansDeployed ==
    \A r \in Request :
        rec[r].outcome = "success" =>
            /\ \E i \in 1..Len(branch) :
                 branch[i].tree[Change(r).cell] = Git!Written(Change(r).tag)
            /\ rec[r].sha = "commit" =>
                 \E q \in Request : Pushed(q) /\ Change(q) = Change(r)

\* No commit is, or will be, made for an environment that no longer exists:
\* the record inserted before Apply keeps it (CreateFails, DeleteEnv).
EnvironmentPinned ==
    \A r \in Request :
        Pushed(r) \/ r \in wire => body[r].pair \in live

\* A closed record is history: it changes only when its own handler, slower
\* than the stale timeout, puts what really happened over the verdict of the
\* sweep.  A success never changes, and nothing deletes it (UpdateOutcome and
\* Delete by id, MarkStaleInProgress by outcome).
ClosedRecordsStay ==
    [][\A r \in Request :
        rec[r].outcome \in {"success", "failure"} /\ rec'[r] # rec[r] =>
            rec[r].err = "stale" /\ stage[r] = "apply" /\ stage'[r] = "close"]_vars

\* The comment on Deployment.CommitSHA, "nil until a commit is created": a
\* failure without a commit hash means that nothing was pushed, once no handler
\* is at work on the record any more.
NilMeansNoCommit ==
    \A r \in Request :
        /\ rec[r].outcome = "failure" /\ rec[r].sha = "nil"
        /\ stage[r] # "apply" \/ phase[r] = "crashed"
        => ~Pushed(r)

SuccessesOf(c) == {r \in Request : rec[r].outcome = "success" /\ Change(r).cell = c}

\* Without faults and foreign commits the newest success of a workload is
\* what the branch says it runs, as long as no deploy of that pair is under
\* way: the order of the history is the order of the commits.
HistoryAgreesWithGit ==
    \A c \in Cell, r \in Request :
        /\ \A i \in 2..Len(branch) : branch[i].by # None
        /\ r \in SuccessesOf(c)
        /\ \A q \in SuccessesOf(c) : rec[q].at <= rec[r].at
        /\ \A q \in Request : body[q] # None /\ body[q].pair = c[1] => stage[q] # "apply"
        => branch[Len(branch)].tree[c].tag = body[r].tag

\* The comment on Apply asks its callers for the lock of the pair "to prevent
\* non-fast-forward push failures".  What that lock does give, without
\* faults: a push is refused only because of a commit for another pair, or
\* of somebody else.
ConflictsComeFromElsewhere ==
    \A r \in Request :
        wphase[r] = "rejected" =>
            \E i \in (base[r] + 1)..Len(branch) :
                branch[i].by = None \/ body[branch[i].by].pair # body[r].pair

\* No record stays in progress: its handler closes it or the sweep does.
InProgressResolved ==
    \A r \in Request : rec[r].outcome = "in_progress" ~> rec[r].outcome # "in_progress"

\* FR-07: "release the lock after commit or on failure".  A request that has
\* the lock gets to the end of its handler, whatever fails on the way, if
\* the pool has a connection for its records besides the locks'.
LockReleased == \A r \in Request : phase[r] = "held" ~> phase[r] # "held"

==============================================================================
