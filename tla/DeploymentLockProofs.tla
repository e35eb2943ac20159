------------------------- MODULE DeploymentLockProofs -------------------------
(***************************************************************************)
(* Proofs about DeploymentLock, for any number of requests, pairs, keys    *)
(* and replicas, any hash, any pool and any set of faults.                 *)
(***************************************************************************)
EXTENDS DeploymentLock, TLAPS

(***************************************************************************)
(* The inductive invariant                                                 *)
(***************************************************************************)

Targeted == \A r \in Request : phase[r] # "idle" => target[r] \in Pair

\* A request has a connection exactly between its checkout and its release.
Connected ==
    \A r \in Request : session[r] # "none" <=> phase[r] \in Trying \cup Locking

\* The converse of NoLockLeak.
Owns ==
    \A r \in Request :
        phase[r] \in Locking /\ session[r] = "open" => advisory[KeyOf(r)] = r

LockInv ==
    /\ TypeOK
    /\ Targeted
    /\ Connected
    /\ Owns
    /\ NoLockLeak
    /\ HolderShown

LEMMA InitLockInv == Init => LockInv
  BY LockConstants
  DEF Init, LockInv, TypeOK, Targeted, Connected, Owns, NoLockLeak, HolderShown,
      InFlight, Phase, Waiting, Trying, Locking, Ended

LEMMA AcquiringKeepsInv ==
  ASSUME LockInv, NEW r \in Request, Acquiring(r)
  PROVE  LockInv'
<1> USE LockConstants
    DEF LockInv, TypeOK, Targeted, Connected, Owns, NoLockLeak, HolderShown,
        InFlight, Phase, Waiting, Trying, Locking, Ended, KeyOf, Goto, Hang, Freed
<1>1. CASE GetConn(r)
  BY <1>1 DEF GetConn
<1>2. CASE NoConn(r)
  BY <1>2 DEF NoConn
<1>3. CASE Deadline(r)
  BY <1>3 DEF Deadline
<1>4. CASE TryLock(r)
  BY <1>4 DEF TryLock
<1>5. CASE TimedOut(r)
  BY <1>5 DEF TimedOut
<1>6. CASE TryFails(r)
  BY <1>6 DEF TryFails
<1>7. CASE InsertRow(r)
  BY <1>7 DEF InsertRow
<1>8. CASE InsertFails(r)
  BY <1>8 DEF InsertFails
<1>9. CASE InsertCut(r)
  BY <1>9 DEF InsertCut
<1>10. CASE Undo(r)
  BY <1>10 DEF Undo
<1>11. CASE Info(r)
  BY <1>11 DEF Info
<1>12. CASE InfoFails(r)
  BY <1>12 DEF InfoFails
<1> QED
  BY <1>1, <1>2, <1>3, <1>4, <1>5, <1>6, <1>7, <1>8, <1>9, <1>10, <1>11, <1>12
  DEF Acquiring

LEMMA OthersKeepInv ==
  ASSUME LockInv, Next, ~\E r \in Request : Acquiring(r)
  PROVE  LockInv'
<1> USE LockConstants
    DEF LockInv, TypeOK, Targeted, Connected, Owns, NoLockLeak, HolderShown,
        InFlight, Phase, Waiting, Trying, Locking, Ended, KeyOf, Goto, Hang, Freed
<1>1. ASSUME NEW r \in Request, NEW p \in Pair, Start(r, p)
      PROVE  LockInv'
  BY <1>1 DEF Start
<1>2. ASSUME NEW r \in Request, DeleteRow(r)
      PROVE  LockInv'
  BY <1>2 DEF DeleteRow
<1>3. ASSUME NEW r \in Request, Unlock(r)
      PROVE  LockInv'
  BY <1>3 DEF Unlock
<1>4. ASSUME NEW r \in Request, Cancel(r)
      PROVE  LockInv'
  BY <1>4 DEF Cancel
<1>5. ASSUME NEW r \in Request, LoseSession(r)
      PROVE  LockInv'
  BY <1>5 DEF LoseSession
<1>6. ASSUME NEW s \in Server, Crash(s)
      PROVE  LockInv'
  BY <1>6 DEF Crash, Serving
<1>7. ASSUME NEW p \in Pair, DeletePair(p)
      PROVE  LockInv'
  BY <1>7 DEF DeletePair
<1>8. CASE Quiet
  BY <1>8 DEF Quiet, lockVars
<1> QED
  BY <1>1, <1>2, <1>3, <1>4, <1>5, <1>6, <1>7, <1>8 DEF Next, Releasing

LEMMA StepKeepsInv == LockInv /\ [Next]_lockVars => LockInv'
<1> SUFFICES ASSUME LockInv, [Next]_lockVars PROVE LockInv'
  OBVIOUS
<1>1. CASE UNCHANGED lockVars
  BY <1>1 DEF lockVars, LockInv, TypeOK, Targeted, Connected, Owns, NoLockLeak,
              HolderShown, InFlight, KeyOf
<1>2. CASE \E r \in Request : Acquiring(r)
  BY <1>2, AcquiringKeepsInv
<1>3. CASE Next /\ ~\E r \in Request : Acquiring(r)
  BY <1>3, OthersKeepInv
<1> QED
  BY <1>1, <1>2, <1>3

THEOREM LockInvariant == Spec => []LockInv
  BY InitLockInv, StepKeepsInv, PTL DEF Spec

(***************************************************************************)
(* What follows from it                                                    *)
(***************************************************************************)

\* Every variable of the lock store keeps its type, in particular the
\* sessions, the advisory locks and the rows of deployment_locks.
THEOREM TypeCorrect == Spec => []TypeOK
  BY LockInvariant, PTL DEF LockInv

\* Whatever fails, two requests that deploy under a live session deploy to
\* different pairs: each owns the advisory lock of its pair's key.
THEOREM Exclusion == Spec => []MutualExclusion
<1>1. LockInv => MutualExclusion
  <2> SUFFICES ASSUME LockInv, NEW r \in InFlight, NEW q \in InFlight,
                      session[r] = "open", session[q] = "open",
                      target[r] = target[q]
               PROVE  r = q
    BY DEF MutualExclusion
  <2>1. advisory[KeyOf(r)] = r /\ advisory[KeyOf(q)] = q
    BY DEF LockInv, Owns, InFlight, Locking
  <2> QED
    BY <2>1 DEF KeyOf
<1> QED
  BY <1>1, LockInvariant, PTL

\* No way out of TryAcquire or Release leaves an advisory lock behind on a
\* connection that went back to the pool, or with a request that was answered.
THEOREM NoLeak == Spec => []NoLockLeak
  BY LockInvariant, PTL DEF LockInv

\* The row of a pair that is being deployed names the request that deploys.
THEOREM HolderIsShown == Spec => []HolderShown
  BY LockInvariant, PTL DEF LockInv

(***************************************************************************)
(* The abstract mutex                                                      *)
(***************************************************************************)

\* As long as no session is lost, a request keeps its session to the end.
SessionsLast ==
    \A r \in Request :
        phase[r] \in Trying \cup {"insert", "held", "unlock"} => session[r] = "open"

LEMMA SessionsLastInv ==
  ASSUME "session" \notin Faults
  PROVE  Spec => [](LockInv /\ SessionsLast)
<1>1. Init => SessionsLast
  BY DEF Init, SessionsLast, Trying
<1>2. LockInv /\ SessionsLast /\ [Next]_lockVars => SessionsLast'
  <2> SUFFICES ASSUME LockInv, SessionsLast, [Next]_lockVars PROVE SessionsLast'
    OBVIOUS
  <2> USE DEF LockInv, TypeOK, SessionsLast, Phase, Waiting, Trying, Locking, Ended,
              Goto, Hang
  <2>1. ASSUME NEW r \in Request, Acquiring(r) PROVE SessionsLast'
    BY <2>1 DEF Acquiring, GetConn, NoConn, Deadline, TryLock, TimedOut, TryFails,
                InsertRow, InsertFails, InsertCut, Undo, Info, InfoFails
  <2>2. ASSUME NEW r \in Request, Releasing(r) \/ Cancel(r) \/ LoseSession(r)
        PROVE  SessionsLast'
    BY <2>2 DEF Releasing, DeleteRow, Unlock, Cancel, LoseSession
  <2>3. ASSUME NEW r \in Request, NEW p \in Pair, Start(r, p) PROVE SessionsLast'
    BY <2>3 DEF Start
  <2>4. ASSUME NEW s \in Server, Crash(s) PROVE SessionsLast'
    BY <2>4 DEF Crash, Serving
  <2>5. CASE UNCHANGED lockVars \/ \E p \in Pair : DeletePair(p)
    BY <2>5 DEF lockVars, DeletePair
  <2> QED
    BY <2>1, <2>2, <2>3, <2>4, <2>5 DEF Next, Quiet
<1> QED
  BY <1>1, <1>2, InitLockInv, StepKeepsInv, PTL DEF Spec

\* Without session loss the promise of the interface holds: at most one
\* in-flight deployment per pair.
THEOREM AtMostOne ==
  ASSUME "session" \notin Faults
  PROVE  Spec => []AtMostOneInFlight
<1>1. LockInv /\ SessionsLast => AtMostOneInFlight
  BY DEF LockInv, SessionsLast, Owns, AtMostOneInFlight, InFlight, KeyOf, Locking
<1> QED
  BY <1>1, SessionsLastInv, PTL

\* A row is written by a request for its own pair.
RowsOfPairs == \A p \in Pair : row[p] # None => target[row[p]] = p

RowInv == RowsOfPairs /\ OnlyFaultsLeaveRows

LEMMA RowsStep ==
  ASSUME LockInv, SessionsLast, RowInv, [Next]_lockVars
  PROVE  RowInv'
<1> USE LockConstants
    DEF LockInv, TypeOK, SessionsLast, RowInv, RowsOfPairs, OnlyFaultsLeaveRows,
        Phase, Waiting, Trying, Locking, Ended, Goto, Hang
<1>1. ASSUME NEW r \in Request, Acquiring(r) PROVE RowInv'
  BY <1>1 DEF Acquiring, GetConn, NoConn, Deadline, TryLock, TimedOut, TryFails,
              InsertRow, InsertFails, InsertCut, Undo, Info, InfoFails
<1>2. ASSUME NEW r \in Request, Releasing(r) \/ Cancel(r) \/ LoseSession(r)
      PROVE  RowInv'
  BY <1>2 DEF Releasing, DeleteRow, Unlock, Cancel, LoseSession
<1>3. ASSUME NEW r \in Request, NEW p \in Pair, Start(r, p) PROVE RowInv'
  BY <1>3 DEF Start
<1>4. ASSUME NEW s \in Server, Crash(s) PROVE RowInv'
  BY <1>4 DEF Crash, Serving
<1>5. CASE UNCHANGED lockVars \/ \E p \in Pair : DeletePair(p)
  BY <1>5 DEF lockVars, DeletePair
<1> QED
  BY <1>1, <1>2, <1>3, <1>4, <1>5 DEF Next, Quiet

\* Without session loss a row without a deployment is the trace of a crash,
\* or of a disconnect that cut the INSERT short.
THEOREM RowsExplained ==
  ASSUME "session" \notin Faults
  PROVE  Spec => []OnlyFaultsLeaveRows
<1>1. Init => RowInv
  BY DEF Init, RowInv, RowsOfPairs, OnlyFaultsLeaveRows
<1> QED
  BY <1>1, RowsStep, SessionsLastInv, PTL DEF Spec, RowInv

Mapped == {<<r, target[r]>> : r \in InFlight}

\* A step that takes no request into the lock, and keeps the pairs of those
\* that are in, is a step or a stutter of the mutex: some of them leave.
LEMMA LeavingIsAbstract ==
  ASSUME InFlight' \subseteq InFlight, \A r \in InFlight' : target'[r] = target[r]
  PROVE  [Mutex!Next]_Mapped
<1> DEFINE S == Mapped \ Mapped'
<1>1. Mapped' = Mapped \ S
  BY DEF Mapped
<1>2. CASE S = {}
  BY <1>1, <1>2
<1>3. CASE S # {}
  <2>1. Mutex!Leave(S)
    BY <1>1, <1>3 DEF Mutex!Leave, Mapped
  <2>2. S \in SUBSET Mapped
    OBVIOUS
  <2> QED
    BY <2>1, <2>2 DEF Mutex!Next, Mutex!Leave, Mapped
<1> QED
  BY <1>2, <1>3

LEMMA StepIsAbstract ==
  ASSUME LockInv, SessionsLast, [Next]_lockVars
  PROVE  [Mutex!Next]_Mapped
<1> USE DEF LockInv, TypeOK, InFlight, Goto, Hang
<1>1. ASSUME NEW r \in Request, InsertRow(r)
      PROVE  Mutex!Enter(r, target[r])
  <2>1. InFlight' = InFlight \cup {r} /\ target' = target
    BY <1>1 DEF InsertRow
  <2>2. \A q \in InFlight : q # r /\ target[q] # target[r]
    BY <1>1 DEF InsertRow, Owns, SessionsLast, KeyOf, Locking
  <2>3. Mapped' = Mapped \cup {<<r, target[r]>>}
    BY <2>1 DEF Mapped
  <2>4. \A e \in Mapped : e[1] # r /\ e[2] # target[r]
    BY <2>2 DEF Mapped
  <2> QED
    BY <2>3, <2>4 DEF Mutex!Enter, Mapped
<1>2. ASSUME ~\E r \in Request : InsertRow(r)
      PROVE  InFlight' \subseteq InFlight /\ \A r \in InFlight' : target'[r] = target[r]
  <2>1. ASSUME NEW r \in Request, Acquiring(r)
        PROVE  InFlight' \subseteq InFlight /\ target' = target
    BY <1>2, <2>1 DEF Acquiring, GetConn, NoConn, Deadline, TryLock, TimedOut, TryFails,
                InsertFails, InsertCut, Undo, Info, InfoFails
  <2>2. ASSUME NEW r \in Request, Releasing(r) \/ Cancel(r) \/ LoseSession(r)
        PROVE  InFlight' \subseteq InFlight /\ target' = target
    BY <2>2 DEF Releasing, DeleteRow, Unlock, Cancel, LoseSession
  <2>3. ASSUME NEW r \in Request, NEW p \in Pair, Start(r, p)
        PROVE  InFlight' \subseteq InFlight /\ \A q \in InFlight' : target'[q] = target[q]
    BY <2>3 DEF Start
  <2>4. ASSUME NEW s \in Server, Crash(s)
        PROVE  InFlight' \subseteq InFlight /\ target' = target
    BY <2>4 DEF Crash, Serving
  <2>5. CASE UNCHANGED lockVars \/ \E p \in Pair : DeletePair(p)
    BY <2>5 DEF lockVars, DeletePair
  <2> QED
    BY <2>1, <2>2, <2>3, <2>4, <2>5 DEF Next, Quiet
<1>3. CASE \E r \in Request : InsertRow(r)
  <2>1. PICK r \in Request : InsertRow(r)
    BY <1>3
  <2>2. target[r] \in Pair
    BY <2>1 DEF InsertRow, Targeted
  <2> QED
    BY <1>1, <2>1, <2>2 DEF Mutex!Next, Mutex!Enter, Mapped
<1>4. CASE ~\E r \in Request : InsertRow(r)
  BY <1>2, <1>4, LeavingIsAbstract
<1> QED
  BY <1>3, <1>4

\* Without session loss the lock store implements the mutex: InsertRow is
\* where a deployment enters, DeleteRow, a crash or a disconnect where it leaves.
THEOREM LockImplementsMutex ==
  ASSUME "session" \notin Faults
  PROVE  Spec => ImplementsMutex
<1>1. Init => Mutex!Init
  BY DEF Init, Mutex!Init, InFlight
<1>2. LockInv /\ SessionsLast /\ [Next]_lockVars => [Mutex!Next]_Mapped
  BY StepIsAbstract
<1> QED
  BY <1>1, <1>2, SessionsLastInv, PTL DEF Spec, ImplementsMutex, Mutex!Spec, Mapped
==============================================================================
