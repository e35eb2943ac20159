----------------------------- MODULE StatsCache -----------------------------
(***************************************************************************)
(* GET /stats and its cache (handlers/stats.go, store/stats_store.go).     *)
(*                                                                         *)
(* The counts of a caller are those of the products his token names, so    *)
(* the cache has an entry for every set of slugs, and one for              *)
(* administrators.  A miss queries at once: two misses for one key query   *)
(* side by side and the one that ends last leaves its entry, be it the     *)
(* older one.  One query is one statement and reads one state of the       *)
(* tables.  Of the counts only two things are kept: the scope they are     *)
(* about and the time they were read.                                      *)
(*                                                                         *)
(* Slugs are valid (domain.ValidateSlug), so that joining them with commas *)
(* loses nothing and no key is that of the administrators by accident.     *)
(***************************************************************************)
EXTENDS Access, FiniteSets

CONSTANTS
    Reader,         \* requests
    Caller,         \* the claims each comes with
    AdminKey,       \* adminCacheKey
    NoStats,        \* no result
    Ttl,            \* statsCacheTTL, in ticks
    QueryMax,       \* a query answers within this time: PostgreSQL's, not the code's
    StatsHorizon    \* where the clock of the model stops

ASSUME StatsConstants ==
    /\ Caller \in [Reader -> Seq(Claim)]
    /\ \A S \in SUBSET Slug : AdminKey # S
    /\ Ttl \in Nat \ {0} /\ QueryMax \in Nat /\ StatsHorizon \in Nat

VARIABLES
    clock,
    statsCache,     \* key -> entry, for the keys that have one
    phase,          \* where each request stands
    came,           \* when it arrived
    counted,        \* what its query returned
    served          \* what it was answered

statsVars == <<clock, statsCache, phase, came, counted, served>>

Time == 0..StatsHorizon
Keys == (SUBSET Slug) \cup {AdminKey}

\* The slugs a query is given, or AdminKey for all.
accessibleSlugs(r) == DOMAIN extractRoles(Caller[r]).roles
Scope(r) == IF extractRoles(Caller[r]).admin THEN AdminKey ELSE accessibleSlugs(r)

\* Bug: the key of an administrator is that of his own products.
KeyOfOwn(r) == accessibleSlugs(r)

cacheKeyFromSlugs(r) == Scope(r)

Counts == [of : Keys, read : Time]
ASSUME NoStatsIsNone == NoStats \notin Counts

StatsEntry == [result : Counts, fetchedAt : Time]

StatsTypeOK ==
    /\ clock \in Time
    /\ DOMAIN statsCache \subseteq Keys
    /\ \A k \in DOMAIN statsCache : statsCache[k] \in StatsEntry
    /\ phase \in [Reader -> {"idle", "querying", "queried", "done", "500"}]
    /\ came \in [Reader -> Time]
    /\ counted \in [Reader -> Counts \cup {NoStats}]
    /\ served \in [Reader -> Counts \cup {NoStats}]

StatsInit ==
    /\ clock = 0
    /\ statsCache = [k \in {} |-> NoStats]
    /\ phase = [r \in Reader |-> "idle"]
    /\ came = [r \in Reader |-> 0]
    /\ counted = [r \in Reader |-> NoStats]
    /\ served = [r \in Reader |-> NoStats]

Finish(r, what) ==
    /\ phase' = [phase EXCEPT ![r] = "done"]
    /\ served' = [served EXCEPT ![r] = what]

FreshEntry(entry) == clock - entry.fetchedAt < Ttl

\* get finds an entry that is young enough.
StatsHit(r) ==
    LET k == cacheKeyFromSlugs(r) IN
    /\ phase[r] = "idle"
    /\ k \in DOMAIN statsCache /\ FreshEntry(statsCache[k])
    /\ came' = [came EXCEPT ![r] = clock]
    /\ Finish(r, statsCache[k].result)
    /\ UNCHANGED <<clock, statsCache, counted>>

\* get finds none, or one it deletes.
StatsMiss(r) ==
    LET k == cacheKeyFromSlugs(r) IN
    /\ phase[r] = "idle"
    /\ k \in DOMAIN statsCache => ~FreshEntry(statsCache[k])
    /\ statsCache' = [j \in DOMAIN statsCache \ {k} |-> statsCache[j]]
    /\ phase' = [phase EXCEPT ![r] = "querying"]
    /\ came' = [came EXCEPT ![r] = clock]
    /\ UNCHANGED <<clock, counted, served>>

\* The statement is carried out, for the products of the caller.
StatsQuery(r) ==
    /\ phase[r] = "querying"
    /\ phase' = [phase EXCEPT ![r] = "queried"]
    /\ counted' = [counted EXCEPT ![r] = [of |-> Scope(r), read |-> clock]]
    /\ UNCHANGED <<clock, statsCache, came, served>>

StatsQueryFails(r) ==
    /\ phase[r] \in {"querying", "queried"}
    /\ phase' = [phase EXCEPT ![r] = "500"]
    /\ UNCHANGED <<clock, statsCache, came, counted, served>>

\* set stamps the entry with the time the result is there, over whatever entry
\* another miss has left.
StatsSet(r) ==
    /\ phase[r] = "queried"
    /\ statsCache' = [k \in DOMAIN statsCache \cup {cacheKeyFromSlugs(r)} |->
            IF k = cacheKeyFromSlugs(r)
            THEN [result |-> counted[r], fetchedAt |-> clock] ELSE statsCache[k]]
    /\ Finish(r, counted[r])
    /\ UNCHANGED <<clock, came, counted>>

StatsTick ==
    /\ clock < StatsHorizon
    /\ \A r \in Reader : phase[r] = "queried" => clock < counted[r].read + QueryMax
    /\ clock' = clock + 1
    /\ UNCHANGED <<statsCache, phase, came, counted, served>>

StatsHandle(r) ==
    StatsHit(r) \/ StatsMiss(r) \/ StatsQuery(r) \/ StatsQueryFails(r) \/ StatsSet(r)

StatsNext == StatsTick \/ \E r \in Reader : StatsHandle(r)

StatsSpec == StatsInit /\ [][StatsNext]_statsVars

(***************************************************************************)
(* Properties                                                              *)
(***************************************************************************)

Answered(r) == served[r] \in Counts

\* Whoever fills the cache and in whatever order the queries end, a caller is
\* shown the counts of the products his own token names.
StatsOfOwnScope ==
    \A r \in Reader : Answered(r) => served[r].of = Scope(r)

\* An answer leaves out nothing that happened a time to live and a query
\* before its request: an older result stored over a newer one does not stay
\* longer than that.
StatsFreshEnough ==
    \A r \in Reader : Answered(r) => came[r] < served[r].read + Ttl + QueryMax

\* What GET /stats answers is about the caller's products and of his time,
\* though all callers share one map and nobody orders its writers.
StatsAreRight == StatsOfOwnScope /\ StatsFreshEnough

=============================================================================
