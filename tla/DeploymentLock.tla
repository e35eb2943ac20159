--------------------------- MODULE DeploymentLock ---------------------------
(***************************************************************************)
(* internal/store/deployment_lock_store.go: the lock a deploy request      *)
(* takes on its product-environment pair.  A request checks a connection   *)
(* out of its replica's pool, polls pg_try_advisory_lock on it until the   *)
(* timeout, writes a row in deployment_locks that names the holder, keeps  *)
(* the connection while it deploys, and at the end deletes the row, gives  *)
(* up the advisory lock and returns the connection.  A request that times  *)
(* out reads the row to tell its client who holds the lock.                *)
(*                                                                         *)
(* The advisory lock lives in a database session: it goes away with it.    *)
(* The row does not.                                                       *)
(*                                                                         *)
(* Outside the code: PostgreSQL (advisory locks, the foreign keys of       *)
(* deployment_locks with ON DELETE CASCADE) and the pgx pool, as the store *)
(* uses them.  A session that is closed frees its lock at once.            *)
(***************************************************************************)
EXTENDS Naturals, FiniteSets

CONSTANTS
    Request,        \* deploy requests; each stands for its actor too
    Pair,           \* product-environment pairs
    Key,            \* the values of the advisory lock's two 32-bit keys
    LockKey,        \* lockKeys: Pair -> Key, two hashes, not injective
    Server,         \* server replicas
    Host,           \* the replica that serves a request
    PoolSize,       \* connections in each replica's pool
    Faults,         \* the faults of the environment that may happen
    None

FaultKind == {"cancel", "session", "crash", "db", "net"}

ASSUME LockConstants ==
    /\ LockKey \in [Pair -> Key]
    /\ Host \in [Request -> Server]
    /\ PoolSize \in Nat \ {0}
    /\ Faults \subseteq FaultKind
    /\ None \notin Request
    /\ None \notin Pair

VARIABLES
    phase,          \* where TryAcquire or Release stands, per request
    target,         \* the pair each request asked for
    session,        \* the request's connection: none, open, or dead
    gone,           \* its client has disconnected: the context is cancelled
    shown,          \* the holder its 409 answer names
    advisory,       \* the request whose session owns each advisory lock
    row,            \* deployment_locks: the holder on record for each pair
    live            \* the pairs whose environment exists

lockVars == <<phase, target, session, gone, shown, advisory, row, live>>

Locking == {"insert", "undo", "held", "unlock"}
Trying == {"try", "late"}
Waiting == {"pool", "info"} \cup Trying
Ended == {"released", "busy", "failed", "crashed"}
Phase == {"idle"} \cup Waiting \cup Locking \cup Ended

KeyOf(r) == LockKey[target[r]]

TypeOK ==
    /\ phase \in [Request -> Phase]
    /\ target \in [Request -> Pair \cup {None}]
    /\ session \in [Request -> {"none", "open", "dead"}]
    /\ gone \in [Request -> BOOLEAN]
    /\ shown \in [Request -> Request \cup {None}]
    /\ advisory \in [Key -> Request \cup {None}]
    /\ row \in [Pair -> Request \cup {None}]
    /\ live \subseteq Pair

Init ==
    /\ phase = [r \in Request |-> "idle"]
    /\ target = [r \in Request |-> None]
    /\ session = [r \in Request |-> "none"]
    /\ gone = [r \in Request |-> FALSE]
    /\ shown = [r \in Request |-> None]
    /\ advisory = [k \in Key |-> None]
    /\ row = [p \in Pair |-> None]
    /\ live = Pair

(***************************************************************************)
(* The pool and the sessions                                               *)
(***************************************************************************)

\* A connection is in use from its checkout to conn.Release, alive or not.
InUse(s) == {r \in Request : Host[r] = s /\ session[r] # "none"}

FreeConn(s) == Cardinality(InUse(s)) < PoolSize

\* The advisory locks once the sessions of the requests in S have ended.
Freed(S) == [k \in Key |-> IF advisory[k] \in S THEN None ELSE advisory[k]]

Goto(r, p) == phase' = [phase EXCEPT ![r] = p]

Hang(r) == session' = [session EXCEPT ![r] = "none"]

(***************************************************************************)
(* TryAcquire                                                              *)
(***************************************************************************)

\* The handler calls TryAcquire for a pair it has looked up.
Start(r, p) ==
    /\ phase[r] = "idle"
    /\ Goto(r, "pool")
    /\ target' = [target EXCEPT ![r] = p]
    /\ UNCHANGED <<session, gone, shown, advisory, row, live>>

\* pool.Acquire: blocks until the replica has a free connection.
GetConn(r) ==
    /\ phase[r] = "pool" /\ ~gone[r]
    /\ FreeConn(Host[r])
    /\ Goto(r, "try")
    /\ session' = [session EXCEPT ![r] = "open"]
    /\ UNCHANGED <<target, gone, shown, advisory, row, live>>

\* pool.Acquire returns the error of a cancelled context.
NoConn(r) ==
    /\ phase[r] = "pool" /\ gone[r]
    /\ Goto(r, "failed")
    /\ UNCHANGED <<target, session, gone, shown, advisory, row, live>>

\* The deadline passes; an attempt already under way may still succeed.
Deadline(r) ==
    /\ phase[r] = "try"
    /\ Goto(r, "late")
    /\ UNCHANGED <<target, session, gone, shown, advisory, row, live>>

\* Bug: pg_try_advisory_lock_shared, which says yes to everyone.
TryLockShared(r) ==
    /\ phase[r] \in Trying /\ session[r] = "open" /\ ~gone[r]
    /\ Goto(r, "insert")
    /\ advisory' = [advisory EXCEPT ![KeyOf(r)] = r]
    /\ UNCHANGED <<target, session, gone, shown, row, live>>

\* pg_try_advisory_lock says yes.  An attempt that says no before the
\* deadline sleeps and tries again: it changes nothing.
TryLock(r) ==
    /\ phase[r] \in Trying /\ session[r] = "open" /\ ~gone[r]
    /\ advisory[KeyOf(r)] = None
    /\ Goto(r, "insert")
    /\ advisory' = [advisory EXCEPT ![KeyOf(r)] = r]
    /\ UNCHANGED <<target, session, gone, shown, row, live>>

\* Bug: the connection is kept while the holder is read on another one.
TimedOutKeepsConn(r) ==
    /\ phase[r] = "late" /\ session[r] = "open" /\ ~gone[r]
    /\ advisory[KeyOf(r)] # None
    /\ Goto(r, "info")
    /\ UNCHANGED <<target, session, gone, shown, advisory, row, live>>

\* It says no after the deadline: the connection goes back to the pool
\* before GetLockInfo asks the pool for one.
TimedOut(r) ==
    /\ phase[r] = "late" /\ session[r] = "open" /\ ~gone[r]
    /\ advisory[KeyOf(r)] # None
    /\ Goto(r, "info")
    /\ Hang(r)
    /\ UNCHANGED <<target, gone, shown, advisory, row, live>>

\* The attempt, or the sleep after it, ends in an error.
TryFails(r) ==
    /\ phase[r] \in Trying /\ (gone[r] \/ session[r] = "dead")
    /\ Goto(r, "failed")
    /\ Hang(r)
    /\ UNCHANGED <<target, gone, shown, advisory, row, live>>

\* INSERT .. ON CONFLICT DO UPDATE: the row names this holder.  The foreign
\* keys want the environment to exist.
InsertRow(r) ==
    /\ phase[r] = "insert" /\ session[r] = "open" /\ ~gone[r]
    /\ target[r] \in live
    /\ Goto(r, "held")
    /\ row' = [row EXCEPT ![target[r]] = r]
    /\ UNCHANGED <<target, session, gone, shown, advisory, live>>

\* The INSERT fails and writes nothing: the environment is gone, the session
\* is, or the context was cancelled before the statement was sent.
InsertFails(r) ==
    /\ phase[r] = "insert"
    /\ target[r] \notin live \/ session[r] = "dead" \/ gone[r]
    /\ Goto(r, "undo")
    /\ UNCHANGED <<target, session, gone, shown, advisory, row, live>>

\* The context is cancelled while the INSERT runs: pgx closes the
\* connection, and the row may have been written.
InsertCut(r) ==
    /\ phase[r] = "insert" /\ session[r] = "open" /\ gone[r]
    /\ Goto(r, "undo")
    /\ session' = [session EXCEPT ![r] = "dead"]
    /\ advisory' = Freed({r})
    /\ \/ UNCHANGED row
       \/ /\ target[r] \in live
          /\ row' = [row EXCEPT ![target[r]] = r]
    /\ UNCHANGED <<target, gone, shown, live>>

\* Bug: the connection is released with the advisory lock still taken.
UndoWithoutUnlock(r) ==
    /\ phase[r] = "undo"
    /\ Goto(r, "failed")
    /\ Hang(r)
    /\ UNCHANGED <<target, gone, shown, advisory, row, live>>

\* After a failed INSERT: pg_advisory_unlock with a context of its own,
\* then conn.Release.
Undo(r) ==
    /\ phase[r] = "undo"
    /\ Goto(r, "failed")
    /\ advisory' = IF session[r] = "open"
                   THEN [advisory EXCEPT ![KeyOf(r)] = None]
                   ELSE advisory
    /\ Hang(r)
    /\ UNCHANGED <<target, gone, shown, row, live>>

\* GetLockInfo: one read through the pool; the answer is 409 and its holder.
Info(r) ==
    /\ phase[r] = "info" /\ ~gone[r]
    /\ FreeConn(Host[r])
    /\ shown' = [shown EXCEPT ![r] = row[target[r]]]
    /\ Goto(r, "busy")
    /\ UNCHANGED <<target, session, gone, advisory, row, live>>

InfoFails(r) ==
    /\ phase[r] = "info" /\ gone[r]
    /\ Goto(r, "failed")
    /\ UNCHANGED <<target, session, gone, shown, advisory, row, live>>

(***************************************************************************)
(* Release                                                                 *)
(***************************************************************************)

\* Bug: the row is deleted through the pool, so a dead session does not
\* stop the DELETE.
DeleteThroughPool(r) ==
    /\ phase[r] = "held"
    /\ Goto(r, "unlock")
    /\ row' = [row EXCEPT ![target[r]] = None]
    /\ UNCHANGED <<target, session, gone, shown, advisory, live>>

\* Bug: Release only unlocks and leaves the row.
KeepRow(r) ==
    /\ phase[r] = "held"
    /\ Goto(r, "unlock")
    /\ UNCHANGED <<target, session, gone, shown, advisory, row, live>>

\* DELETE FROM deployment_locks, on the lock's own connection and under a
\* context that is never cancelled; with a dead session it fails, and
\* Release goes on.
DeleteRow(r) ==
    /\ phase[r] = "held"
    /\ Goto(r, "unlock")
    /\ row' = IF session[r] = "open"
              THEN [row EXCEPT ![target[r]] = None]
              ELSE row
    /\ UNCHANGED <<target, session, gone, shown, advisory, live>>

\* pg_advisory_unlock, then conn.Release.
Unlock(r) ==
    /\ phase[r] = "unlock"
    /\ Goto(r, "released")
    /\ advisory' = IF session[r] = "open"
                   THEN [advisory EXCEPT ![KeyOf(r)] = None]
                   ELSE advisory
    /\ Hang(r)
    /\ UNCHANGED <<target, gone, shown, row, live>>

(***************************************************************************)
(* The environment                                                         *)
(***************************************************************************)

\* The client disconnects: net/http cancels the request's context.
Cancel(r) ==
    /\ "cancel" \in Faults
    /\ phase[r] \notin {"idle"} \cup Ended /\ ~gone[r]
    /\ gone' = [gone EXCEPT ![r] = TRUE]
    /\ UNCHANGED <<phase, target, session, shown, advisory, row, live>>

\* The database ends the session, or the connection to it breaks.
LoseSession(r) ==
    /\ "session" \in Faults
    /\ session[r] = "open"
    /\ session' = [session EXCEPT ![r] = "dead"]
    /\ advisory' = Freed({r})
    /\ UNCHANGED <<phase, target, gone, shown, row, live>>

Serving(s) == {r \in Request : Host[r] = s /\ phase[r] \notin {"idle"} \cup Ended}

\* A replica stops: nothing it was doing goes on, its sessions end, and the
\* rows stay.
Crash(s) ==
    /\ "crash" \in Faults
    /\ Serving(s) # {}
    /\ phase' = [r \in Request |-> IF r \in Serving(s) THEN "crashed" ELSE phase[r]]
    /\ session' = [r \in Request |-> IF r \in Serving(s) THEN "none" ELSE session[r]]
    /\ advisory' = Freed(Serving(s))
    /\ UNCHANGED <<target, gone, shown, row, live>>

\* DELETE FROM environments, which cascades to deployment_locks.
DeletePair(p) ==
    /\ p \in live
    /\ live' = live \ {p}
    /\ row' = [row EXCEPT ![p] = None]
    /\ UNCHANGED <<phase, target, session, gone, shown, advisory>>

Acquiring(r) ==
    \/ GetConn(r) \/ NoConn(r) \/ Deadline(r) \/ TryLock(r) \/ TimedOut(r)
    \/ TryFails(r) \/ InsertRow(r) \/ InsertFails(r) \/ InsertCut(r)
    \/ Undo(r) \/ Info(r) \/ InfoFails(r)

Releasing(r) == DeleteRow(r) \/ Unlock(r)

\* Every request has been answered: the model, not the program, ends here.
Quiet ==
    /\ \A r \in Request : phase[r] \in Ended
    /\ UNCHANGED lockVars

Next ==
    \/ \E r \in Request, p \in Pair : Start(r, p)
    \/ \E r \in Request : Acquiring(r) \/ Releasing(r) \/ Cancel(r) \/ LoseSession(r)
    \/ \E s \in Server : Crash(s)
    \/ \E p \in Pair : DeletePair(p)
    \/ Quiet

Spec == Init /\ [][Next]_lockVars

\* The scheduler runs every goroutine that can run; the pool hands its
\* connections out first come first served, so a request that can have one
\* again and again gets it.
Fairness ==
    \A r \in Request : SF_lockVars(Acquiring(r)) /\ WF_lockVars(Releasing(r))

FairSpec == Spec /\ Fairness

(***************************************************************************)
(* Properties                                                              *)
(***************************************************************************)

InFlight == {r \in Request : phase[r] = "held"}

\* Two requests that both hold their lock through a live session deploy to
\* different pairs, whatever else fails: the guarantee the advisory lock
\* gives while its session lasts (pg_try_advisory_lock, Release).
MutualExclusion ==
    \A r, q \in InFlight :
        r # q /\ session[r] = "open" /\ session[q] = "open" => target[r] # target[q]

\* The promise of the interface: at most one in-flight deployment per pair,
\* of the requests whose handler believes it holds the lock.
AtMostOneInFlight ==
    \A r, q \in InFlight : r # q => target[r] # target[q]

\* An advisory lock belongs to a request that is between pg_try_advisory_lock
\* and its unlock, for a pair with that key, on an open session: no path out
\* of TryAcquire or Release returns a connection that still owns a lock.
NoLockLeak ==
    \A k \in Key : advisory[k] # None =>
        LET r == advisory[k]
        IN  phase[r] \in Locking /\ session[r] = "open" /\ KeyOf(r) = k

\* While a request deploys to an existing environment, deployment_locks
\* names it and nobody else: a predecessor that lost its session, or one
\* that is slow to release, does not take the row away.
HolderShown ==
    \A r \in InFlight :
        session[r] = "open" /\ target[r] \in live => row[target[r]] = r

\* While no session is lost, a row outlives its lock only where a crash or a
\* disconnect in the middle of the INSERT left it behind: GetLockInfo then
\* names a holder that is gone, although "(nil, nil)" is what it promises
\* when no lock is held.
OnlyFaultsLeaveRows ==
    \A p \in Pair : row[p] # None =>
        LET r == row[p]
        IN  \/ phase[r] \in {"held", "crashed"}
            \/ gone[r] /\ phase[r] \in {"undo", "failed"}

\* The abstract mutex, for runs in which no session is lost.
Mutex == INSTANCE DeploymentMutex
            WITH inflight <- {<<r, target[r]>> : r \in InFlight}

ImplementsMutex == Mutex!Spec

\* TryAcquire always returns, with a lock, a holder or an error, even when
\* the pool is smaller than the number of requests: while it holds a
\* connection it never waits for a second one.
EveryCallReturns ==
    \A r \in Request :
        phase[r] = "pool" ~> phase[r] \in {"held"} \cup Ended

==============================================================================
