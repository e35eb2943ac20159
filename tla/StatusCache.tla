----------------------------- MODULE StatusCache -----------------------------
(***************************************************************************)
(* internal/api/handlers/status.go, GetStatus, for one product of one      *)
(* replica: a matrix of image tags read from the gitops repository,        *)
(* cached for a time to live, with concurrent misses coalesced into one    *)
(* fetch (singleflight).  Products share nothing: cache and singleflight   *)
(* group are keyed by the product's slug.                                  *)
(*                                                                         *)
(* A fetch reads its sources one after another, each from a clone of its   *)
(* own: the list of environments, and the HelmRelease of each.  A source   *)
(* is abstracted to a version, which every change of it increments; a      *)
(* HelmRelease that is absent or cannot be parsed is a version like any    *)
(* other, whose column fetchAndCache leaves out or fills with N/A.  The    *)
(* sources are read in any order; the code reads the list first, then the  *)
(* environments in the order of the list.                                  *)
(***************************************************************************)
EXTENDS Naturals, Sequences, FiniteSets

CONSTANTS
    Reader,         \* the requests
    Source,         \* what a fetch reads, one after another
    Ttl,            \* how long an entry is fresh, in ticks
    FetchTimeout,   \* statusFetchTimeout, in ticks
    MaxNow,         \* bound on the time at which a fetch starts
    MaxWrites,      \* bound on the changes of each source
    None

ASSUME StatusConstants ==
    /\ Ttl \in Nat \ {0}
    /\ FetchTimeout \in Nat \ {0}
    /\ MaxNow \in Nat
    /\ MaxWrites \in Nat
    /\ None \notin Nat \cup Reader

VARIABLES
    now,            \* the clock of the replica
    ended,          \* when each version of a source was replaced
    cache,          \* the entry of the product, or None
    flight,         \* the request whose fetch the others join, or None
    phase,          \* where GetStatus stands, per request
    fetch,          \* what the fetch a request leads has read so far
    deadline,       \* when its context expires
    answer,         \* what the request is answered
    before          \* the requests that had been answered when it arrived

vars == <<now, ended, cache, flight, phase, fetch, deadline, answer, before>>

Version == Nat
Matrix == [Source -> Version]
Entry == [tags : Matrix, fetchedAt : Nat]
Answer == [tags : Matrix, stale : BOOLEAN, fetchedAt : Nat]
Error == [error |-> TRUE]

Phase == {"idle", "look", "miss", "lead", "filled", "wait", "done"}

TypeOK ==
    /\ now \in Nat
    /\ ended \in [Source -> Seq(Nat)]
    /\ cache \in Entry \cup {None}
    /\ flight \in Reader \cup {None}
    /\ phase \in [Reader -> Phase]
    /\ fetch \in [Reader -> [Source -> Version \cup {None}]]
    /\ deadline \in [Reader -> Nat]
    /\ answer \in [Reader -> Answer \cup {Error, None}]
    /\ before \in [Reader -> SUBSET Reader]

Nothing == [s \in Source |-> None]

Init ==
    /\ now = 0
    /\ ended = [s \in Source |-> <<>>]
    /\ cache = None
    /\ flight = None
    /\ phase = [r \in Reader |-> "idle"]
    /\ fetch = [r \in Reader |-> Nothing]
    /\ deadline = [r \in Reader |-> 0]
    /\ answer = [r \in Reader |-> None]
    /\ before = [r \in Reader |-> {}]

Current(s) == Len(ended[s])

Move(r, p) == phase' = [phase EXCEPT ![r] = p]

Cached(stale) == [tags |-> cache.tags, stale |-> stale, fetchedAt |-> cache.fetchedAt]

(***************************************************************************)
(* GetStatus                                                               *)
(***************************************************************************)

\* The product is resolved; the request is about to look into the cache.
Arrive(r) ==
    /\ phase[r] = "idle"
    /\ Move(r, "look")
    /\ before' = [before EXCEPT ![r] = {q \in Reader : phase[q] = "done"}]
    /\ UNCHANGED <<now, ended, cache, flight, fetch, deadline, answer>>

Fresh == cache # None /\ now - cache.fetchedAt < Ttl

\* Bug: an entry that is used is fresh again.
HitRenews(r) ==
    /\ phase[r] = "look"
    /\ Fresh
    /\ Move(r, "done")
    /\ answer' = [answer EXCEPT ![r] = Cached(FALSE)]
    /\ cache' = [cache EXCEPT !.fetchedAt = now]
    /\ UNCHANGED <<now, ended, flight, fetch, deadline, before>>

Hit(r) ==
    /\ phase[r] = "look"
    /\ Fresh
    /\ Move(r, "done")
    /\ answer' = [answer EXCEPT ![r] = Cached(FALSE)]
    /\ UNCHANGED <<now, ended, cache, flight, fetch, deadline, before>>

\* Bug: the entry is marked stale and stays.
StaleHitKeeps(r) ==
    /\ phase[r] = "look"
    /\ cache # None /\ ~Fresh
    /\ Move(r, "done")
    /\ answer' = [answer EXCEPT ![r] = Cached(TRUE)]
    /\ UNCHANGED <<now, ended, cache, flight, fetch, deadline, before>>

\* An entry past its time is served once more, marked, and evicted.
StaleHit(r) ==
    /\ phase[r] = "look"
    /\ cache # None /\ ~Fresh
    /\ Move(r, "done")
    /\ answer' = [answer EXCEPT ![r] = Cached(TRUE)]
    /\ cache' = None
    /\ UNCHANGED <<now, ended, flight, fetch, deadline, before>>

Miss(r) ==
    /\ phase[r] = "look"
    /\ cache = None
    /\ Move(r, "miss")
    /\ UNCHANGED <<now, ended, cache, flight, fetch, deadline, answer, before>>

\* Bug: no singleflight, every miss fetches.
LeadAlways(r) ==
    /\ phase[r] = "miss"
    /\ Move(r, "lead")
    /\ flight' = r
    /\ deadline' = [deadline EXCEPT ![r] = now + FetchTimeout]
    /\ UNCHANGED <<now, ended, cache, fetch, answer, before>>

\* sf.Do finds no fetch under way and starts one.  The cache is not looked
\* into again.
Lead(r) ==
    /\ phase[r] = "miss"
    /\ flight = None
    /\ Move(r, "lead")
    /\ flight' = r
    /\ deadline' = [deadline EXCEPT ![r] = now + FetchTimeout]
    /\ UNCHANGED <<now, ended, cache, fetch, answer, before>>

\* sf.Do finds a fetch and waits for what it returns.
Join(r) ==
    /\ phase[r] = "miss"
    /\ flight # None
    /\ Move(r, "wait")
    /\ UNCHANGED <<now, ended, cache, flight, fetch, deadline, answer, before>>

\* ListByProduct or ReadCurrentTags: the next source, as it is now.
Read(r, s) ==
    /\ phase[r] = "lead"
    /\ fetch[r][s] = None
    /\ fetch' = [fetch EXCEPT ![r][s] = Current(s)]
    /\ UNCHANGED <<now, ended, cache, flight, phase, deadline, answer, before>>

\* Bug: a source that cannot be read does not abort the fetch.
FillAnyway(r) ==
    /\ phase[r] = "lead"
    /\ Move(r, "filled")
    /\ cache' = [tags |-> fetch[r], fetchedAt |-> now]
    /\ answer' = [answer EXCEPT ![r] =
                    [tags |-> fetch[r], stale |-> FALSE, fetchedAt |-> now]]
    /\ UNCHANGED <<now, ended, flight, fetch, deadline, before>>

\* fetchAndCache has read everything, and stores the entry it returns.
Fill(r) ==
    /\ phase[r] = "lead"
    /\ \A s \in Source : fetch[r][s] # None
    /\ Move(r, "filled")
    /\ cache' = [tags |-> fetch[r], fetchedAt |-> now]
    /\ answer' = [answer EXCEPT ![r] =
                    [tags |-> fetch[r], stale |-> FALSE, fetchedAt |-> now]]
    /\ UNCHANGED <<now, ended, flight, fetch, deadline, before>>

\* sf.Do returns a, to the request that fetched and to those that joined it.
Return(r, a) ==
    /\ flight' = None
    /\ fetch' = [fetch EXCEPT ![r] = Nothing]
    /\ deadline' = [deadline EXCEPT ![r] = 0]
    /\ phase' = [q \in Reader |->
                   IF q = r \/ phase[q] = "wait" THEN "done" ELSE phase[q]]
    /\ answer' = [q \in Reader |->
                   IF q = r \/ phase[q] = "wait" THEN a ELSE answer[q]]

Land(r) ==
    /\ phase[r] = "filled"
    /\ Return(r, answer[r])
    /\ UNCHANGED <<now, ended, cache, before>>

\* The list or a read fails: nothing is cached, and everybody who waits
\* gets the error.
Fail(r) ==
    /\ phase[r] = "lead"
    /\ Return(r, Error)
    /\ UNCHANGED <<now, ended, cache, before>>

\* Bug: the fetch has no timeout of its own.
ExpireNever(r) == FALSE

\* The context of the fetch expires, however long the git server hangs.
Expire(r) == phase[r] = "lead" /\ now >= deadline[r] /\ Fail(r)

(***************************************************************************)
(* The rest                                                                *)
(***************************************************************************)

\* A deploy, a foreign commit, or a change of the environments.
Write(s) ==
    /\ Current(s) < MaxWrites
    /\ ended' = [ended EXCEPT ![s] = Append(@, now)]
    /\ UNCHANGED <<now, cache, flight, phase, fetch, deadline, answer, before>>

Fetching(r) == phase[r] \in {"lead", "filled"}

\* A fetch does not outlive its deadline: the reads obey the context, and what
\* follows them takes no time.
Tick ==
    /\ now < MaxNow \/ \E r \in Reader : Fetching(r)
    /\ \A r \in Reader : Fetching(r) => now < deadline[r]
    /\ now' = now + 1
    /\ UNCHANGED <<ended, cache, flight, phase, fetch, deadline, answer, before>>

\* Every request has been answered: the model ends here.
Quiet ==
    /\ \A r \in Reader : phase[r] = "done"
    /\ UNCHANGED vars

Handle(r) ==
    \/ Hit(r) \/ StaleHit(r) \/ Miss(r) \/ Lead(r) \/ Join(r)
    \/ Fill(r) \/ Land(r) \/ Expire(r)

Next ==
    \/ \E r \in Reader : Arrive(r) \/ Handle(r) \/ Fail(r)
    \/ \E r \in Reader, s \in Source : Read(r, s)
    \/ \E s \in Source : Write(s)
    \/ Tick
    \/ Quiet

Spec == Init /\ [][Next]_vars

\* A goroutine that can run does, and the clock runs.  Nothing is assumed of
\* the git server and the database: a read need not return.
Fairness == WF_vars(Tick) /\ \A r \in Reader : WF_vars(Handle(r))

FairSpec == Spec /\ Fairness

(***************************************************************************)
(* Properties                                                              *)
(***************************************************************************)

Answered(r) == answer[r] \notin {None, Error}

\* Whoever has seen a version never sees an older one in a later request,
\* marked stale or not: an entry is never replaced by the result of an
\* earlier fetch (the singleflight group serializes fetch and store).
MonotoneReads ==
    \A r \in Reader, s \in Source : \A q \in before[r] :
        Answered(r) /\ Answered(q) => answer[q].tags[s] <= answer[r].tags[s]

\* An answer not marked stale says of each source what it was at some time
\* in the last Ttl + FetchTimeout: the age of an entry counts from the end of
\* its fetch, which may have read a source that long before.
FreshEnough ==
    [][\A r \in Reader, s \in Source :
        /\ answer'[r] # answer[r] /\ answer'[r] # Error
        /\ ~answer'[r].stale
        /\ answer'[r].tags[s] < Current(s)
        => ended[s][answer'[r].tags[s] + 1] + Ttl + FetchTimeout > now]_vars

\* "The entry is evicted so the next request fetches fresh data": an entry
\* past its time is served to one request only, whoever else is looking.
StaleServedOnce ==
    \A r, q \in Reader :
        r # q /\ Answered(r) /\ Answered(q) /\ answer[r].stale /\ answer[q].stale =>
            answer[r].fetchedAt # answer[q].fetchedAt

\* "A 30s timeout prevents a hung git server from blocking indefinitely":
\* every request is answered, those that wait for somebody else's fetch too.
EveryReadAnswered ==
    \A r \in Reader : phase[r] = "look" ~> phase[r] = "done"

==============================================================================
