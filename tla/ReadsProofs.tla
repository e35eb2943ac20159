----------------------------- MODULE ReadsProofs -----------------------------
(***************************************************************************)
(* Theorems about what the read endpoints answer while others write, for   *)
(* all values of the constants: statistics from a cache that all share     *)
(* (StatsCache), pages of a table (History) and of a registry (ImageTags). *)
(***************************************************************************)
EXTENDS StatsCache, History, ImageTags,
        FiniteSetTheorems, FunctionTheorems, WellFoundedInduction, TLAPS

(***************************************************************************)
(* StatsCache: the inductive invariant                                     *)
(***************************************************************************)

\* An entry is under the key of what it counts, and was stored soon after it
\* was read.
EntriesAreOwn ==
    \A k \in DOMAIN statsCache :
        /\ statsCache[k].result.of = k
        /\ statsCache[k].result.read <= clock
        /\ statsCache[k].fetchedAt <= statsCache[k].result.read + QueryMax

\* A result in a handler's hands is of its own scope, no older than its request,
\* and the query that gave it still has time.
ResultsAreOwn ==
    \A r \in Reader :
        /\ phase[r] # "idle" => came[r] <= clock
        /\ phase[r] = "queried" =>
            /\ counted[r] \in Counts
            /\ counted[r].of = Scope(r)
            /\ came[r] <= counted[r].read /\ counted[r].read <= clock
            /\ clock <= counted[r].read + QueryMax

\* Who has an answer asks no more.
UnansweredUntilDone == \A r \in Reader : Answered(r) => phase[r] = "done"

StatsInv ==
    /\ StatsTypeOK
    /\ EntriesAreOwn
    /\ ResultsAreOwn
    /\ UnansweredUntilDone
    /\ StatsOfOwnScope
    /\ StatsFreshEnough

\* The scope of a caller is a key.
LEMMA ScopeIsKey == ASSUME NEW r \in Reader PROVE Scope(r) \in Keys
<1> DEFINE claims == Caller[r]
<1>1. DOMAIN extractRoles(claims).roles = {claims[i].slug : i \in ProductClaims(claims)}
  BY DEF extractRoles
<1>2. DOMAIN extractRoles(claims).roles \subseteq Slug
  BY <1>1 DEF ProductClaims
<1> QED
  BY <1>2 DEF Scope, Keys, accessibleSlugs

\* What storing a result under the key of its scope keeps.
LEMMA StatsStoreKeeps ==
    ASSUME StatsInv, NEW r \in Reader, StatsSet(r)
    PROVE  /\ DOMAIN statsCache' \subseteq Keys
           /\ \A k \in DOMAIN statsCache' : statsCache'[k] \in StatsEntry
           /\ EntriesAreOwn'
<1> DEFINE key == cacheKeyFromSlugs(r)
<1>1. key \in Keys /\ key = Scope(r)
  BY ScopeIsKey DEF cacheKeyFromSlugs
<1>2. counted[r] \in Counts /\ counted[r].of = key /\ clock <= counted[r].read + QueryMax
  BY <1>1 DEF StatsInv, ResultsAreOwn, StatsSet
<1>3. clock \in Time /\ clock' = clock /\ Time \subseteq Nat
  BY DEF StatsInv, StatsTypeOK, StatsSet, Time
<1>4. counted[r].read <= clock
  BY DEF StatsInv, ResultsAreOwn, StatsSet
<1>5. \A k \in DOMAIN statsCache' :
        \/ k = key /\ statsCache'[k] = [result |-> counted[r], fetchedAt |-> clock]
        \/ k \in DOMAIN statsCache /\ statsCache'[k] = statsCache[k]
  BY DEF StatsSet
<1>6. DOMAIN statsCache' = DOMAIN statsCache \cup {key}
  BY DEF StatsSet
<1>7. [result |-> counted[r], fetchedAt |-> clock] \in StatsEntry
  BY <1>2, <1>3 DEF StatsEntry
<1>8. EntriesAreOwn'
  BY <1>2, <1>3, <1>4, <1>5 DEF EntriesAreOwn, StatsInv
<1> QED
  BY <1>1, <1>5, <1>6, <1>7, <1>8 DEF StatsInv, StatsTypeOK

(***************************************************************************)
(* StatsCache: each action keeps the invariant                             *)
(***************************************************************************)

LEMMA StatsInitKeeps == StatsInit => StatsInv
  BY NoStatsIsNone, StatsConstants DEF StatsInit, StatsInv, StatsTypeOK, EntriesAreOwn,
    ResultsAreOwn, Time, UnansweredUntilDone, StatsOfOwnScope, StatsFreshEnough, Answered

LEMMA StatsHitKeeps == ASSUME StatsInv, NEW r \in Reader, StatsHit(r) PROVE StatsInv'
<1> DEFINE key == cacheKeyFromSlugs(r)
<1> DEFINE entry == statsCache[key]
<1>1. key = Scope(r) /\ key \in DOMAIN statsCache
  BY DEF StatsHit, cacheKeyFromSlugs
<1>2. entry \in StatsEntry /\ entry.result \in Counts /\ clock \in Nat
  BY <1>1 DEF StatsInv, StatsTypeOK, StatsEntry, Time
<1>3. entry.result.of = Scope(r) /\ entry.fetchedAt <= entry.result.read + QueryMax
  BY <1>1 DEF StatsInv, EntriesAreOwn
<1>4. clock < entry.result.read + Ttl + QueryMax
  BY <1>2, <1>3, StatsConstants DEF StatsHit, FreshEntry, StatsEntry, Counts, Time
<1>5. StatsTypeOK'
  BY <1>2 DEF StatsInv, StatsTypeOK, StatsHit, Finish
<1>6. EntriesAreOwn' /\ ResultsAreOwn'
  BY <1>2 DEF StatsInv, StatsTypeOK, EntriesAreOwn, ResultsAreOwn, StatsHit, Finish
<1>7. StatsOfOwnScope'
  BY <1>3 DEF StatsInv, StatsTypeOK, StatsOfOwnScope, Answered, StatsHit, Finish
<1>8. StatsFreshEnough'
  BY <1>4 DEF StatsInv, StatsTypeOK, StatsFreshEnough, Answered, StatsHit, Finish
<1>9. UnansweredUntilDone'
  BY DEF StatsInv, StatsTypeOK, UnansweredUntilDone, Answered, StatsHit, Finish
<1> QED
  BY <1>5, <1>6, <1>7, <1>8, <1>9 DEF StatsInv

LEMMA StatsSetKeeps == ASSUME StatsInv, NEW r \in Reader, StatsSet(r) PROVE StatsInv'
<1>1. /\ counted[r] \in Counts /\ counted[r].of = Scope(r)
      /\ came[r] <= counted[r].read
  BY DEF StatsInv, ResultsAreOwn, StatsSet
<1>2. came[r] \in Nat /\ counted[r].read \in Nat
  BY <1>1 DEF StatsInv, StatsTypeOK, Counts, Time
<1>3. came[r] < counted[r].read + Ttl + QueryMax
  BY <1>1, <1>2, StatsConstants
<1>4. StatsTypeOK'
  BY <1>1, StatsStoreKeeps DEF StatsInv, StatsTypeOK, StatsSet, Finish
<1>5. ResultsAreOwn'
  BY DEF StatsInv, StatsTypeOK, ResultsAreOwn, StatsSet, Finish
<1>6. StatsOfOwnScope'
  BY <1>1 DEF StatsInv, StatsTypeOK, StatsOfOwnScope, Answered, StatsSet, Finish
<1>7. StatsFreshEnough'
  BY <1>3 DEF StatsInv, StatsTypeOK, StatsFreshEnough, Answered, StatsSet, Finish
<1>8. UnansweredUntilDone'
  BY DEF StatsInv, StatsTypeOK, UnansweredUntilDone, Answered, StatsSet, Finish
<1> QED
  BY <1>4, <1>5, <1>6, <1>7, StatsStoreKeeps, <1>8 DEF StatsInv

LEMMA StatsMissKeeps == ASSUME StatsInv, NEW r \in Reader, StatsMiss(r) PROVE StatsInv'
<1>1. StatsTypeOK'
  BY DEF StatsInv, StatsTypeOK, StatsMiss
<1>2. EntriesAreOwn' /\ ResultsAreOwn'
  BY DEF StatsInv, StatsTypeOK, EntriesAreOwn, ResultsAreOwn, StatsMiss, Time
<1>3. served[r] \notin Counts
  BY DEF StatsInv, StatsMiss, UnansweredUntilDone, Answered
<1>4. StatsOfOwnScope' /\ StatsFreshEnough'
  BY <1>3 DEF StatsInv, StatsTypeOK, StatsOfOwnScope, StatsFreshEnough, Answered, StatsMiss
<1>5. UnansweredUntilDone'
  BY <1>3 DEF StatsInv, StatsTypeOK, UnansweredUntilDone, Answered, StatsMiss
<1> QED
  BY <1>1, <1>2, <1>4, <1>5 DEF StatsInv

LEMMA StatsQueryKeeps == ASSUME StatsInv, NEW r \in Reader, StatsQuery(r) PROVE StatsInv'
<1>1. [of |-> Scope(r), read |-> clock] \in Counts
  BY ScopeIsKey DEF Counts, StatsInv, StatsTypeOK
<1>2. StatsTypeOK'
  BY <1>1 DEF StatsInv, StatsTypeOK, StatsQuery
<1>3. EntriesAreOwn' /\ ResultsAreOwn'
  BY <1>1, StatsConstants
  DEF StatsInv, StatsTypeOK, EntriesAreOwn, ResultsAreOwn, StatsQuery, Time
<1>4. StatsOfOwnScope' /\ StatsFreshEnough' /\ UnansweredUntilDone'
  BY DEF StatsInv, StatsTypeOK, StatsOfOwnScope, StatsFreshEnough, UnansweredUntilDone,
    Answered, StatsQuery
<1> QED
  BY <1>2, <1>3, <1>4 DEF StatsInv

LEMMA StatsFailsKeeps == ASSUME StatsInv, NEW r \in Reader, StatsQueryFails(r) PROVE StatsInv'
<1>1. StatsTypeOK'
  BY DEF StatsInv, StatsTypeOK, StatsQueryFails
<1>2. EntriesAreOwn' /\ ResultsAreOwn'
  BY DEF StatsInv, StatsTypeOK, EntriesAreOwn, ResultsAreOwn, StatsQueryFails
<1>3. StatsOfOwnScope' /\ StatsFreshEnough' /\ UnansweredUntilDone'
  BY DEF StatsInv, StatsTypeOK, StatsOfOwnScope, StatsFreshEnough, UnansweredUntilDone,
    Answered, StatsQueryFails
<1> QED
  BY <1>1, <1>2, <1>3 DEF StatsInv

\* Time does not pass a query that is due.
LEMMA StatsTickKeeps == ASSUME StatsInv, StatsTick PROVE StatsInv'
<1>1. clock \in Nat /\ clock' = clock + 1 /\ clock' \in Time
  BY StatsConstants DEF StatsInv, StatsTypeOK, StatsTick, Time
<1>2. StatsTypeOK'
  BY <1>1 DEF StatsInv, StatsTypeOK, StatsTick
<1>3. EntriesAreOwn'
  <2> SUFFICES ASSUME NEW k \in DOMAIN statsCache
               PROVE  statsCache[k].result.read <= clock + 1
    BY <1>1 DEF StatsInv, EntriesAreOwn, StatsTick
  <2>1. statsCache[k].result.read <= clock /\ statsCache[k].result.read \in Nat
    BY DEF StatsInv, EntriesAreOwn, StatsTypeOK, StatsEntry, Counts, Time
  <2> QED
    BY <1>1, <2>1
<1>4. ResultsAreOwn'
  <2> SUFFICES ASSUME NEW r \in Reader
               PROVE  /\ phase[r] # "idle" => came[r] <= clock + 1
                      /\ phase[r] = "queried" =>
                           /\ counted[r] \in Counts /\ counted[r].of = Scope(r)
                           /\ came[r] <= counted[r].read /\ counted[r].read <= clock + 1
                           /\ clock + 1 <= counted[r].read + QueryMax
    BY <1>1 DEF ResultsAreOwn, StatsTick, Scope, accessibleSlugs
  <2>1. came[r] \in Nat /\ (counted[r] \in Counts => counted[r].read \in Nat)
    BY DEF StatsInv, StatsTypeOK, Counts, Time
  <2>2. phase[r] = "queried" => clock < counted[r].read + QueryMax
    BY DEF StatsTick
  <2> QED
    BY <1>1, <2>1, <2>2, StatsConstants DEF StatsInv, ResultsAreOwn
<1>5. StatsOfOwnScope' /\ StatsFreshEnough' /\ UnansweredUntilDone'
  BY DEF StatsInv, StatsOfOwnScope, StatsFreshEnough, UnansweredUntilDone, Answered,
    StatsTick
<1> QED
  BY <1>2, <1>3, <1>4, <1>5 DEF StatsInv

(***************************************************************************)
(* StatsCache: theorems                                                    *)
(***************************************************************************)

\* The cache, what handlers have read and what they answered stay in step.
THEOREM StatsInvariant == StatsSpec => []StatsInv
<1>1. StatsInit => StatsInv
  BY StatsInitKeeps
<1>2. StatsInv /\ [StatsNext]_statsVars => StatsInv'
  <2> SUFFICES ASSUME StatsInv, [StatsNext]_statsVars PROVE StatsInv'
    OBVIOUS
  <2>1. CASE StatsTick
    BY <2>1, StatsTickKeeps
  <2>2. ASSUME NEW r \in Reader, StatsHandle(r) PROVE StatsInv'
    BY <2>2, StatsHitKeeps, StatsMissKeeps, StatsQueryKeeps, StatsFailsKeeps, StatsSetKeeps DEF StatsHandle
  <2>3. CASE UNCHANGED statsVars
    <3> USE <2>3
    <3>1. StatsTypeOK' /\ EntriesAreOwn' /\ ResultsAreOwn'
      BY DEF StatsInv, StatsTypeOK, EntriesAreOwn, ResultsAreOwn, statsVars
    <3>2. StatsOfOwnScope' /\ StatsFreshEnough' /\ UnansweredUntilDone'
      BY DEF StatsInv, StatsOfOwnScope, StatsFreshEnough, UnansweredUntilDone, Answered,
        statsVars
    <3> QED
      BY <3>1, <3>2 DEF StatsInv
  <2> QED
    BY <2>1, <2>2, <2>3 DEF StatsNext
<1> QED
  BY <1>1, <1>2, PTL DEF StatsSpec

\* The types of the statistics cache (stats.go), for all requests and slugs.
THEOREM StatsTypes == StatsSpec => []StatsTypeOK
  BY StatsInvariant, PTL DEF StatsInv

\* A caller of GET /stats sees the counts of his own products (stats.go:105).
THEOREM OwnScope == StatsSpec => []StatsOfOwnScope
  BY StatsInvariant, PTL DEF StatsInv

\* The age of an answer of GET /stats is bounded by the time to live and the
\* longest query, whoever fills the cache (stats.go:98).
THEOREM StatsAreFresh == StatsSpec => []StatsFreshEnough
  BY StatsInvariant, PTL DEF StatsInv

\* Both, of every answer.
THEOREM StatsHold == StatsSpec => []StatsAreRight
  BY OwnScope, StatsAreFresh, PTL DEF StatsAreRight

(***************************************************************************)
(* History: the inductive invariant                                        *)
(***************************************************************************)

\* A stamp is used once, so that no new record counts as one of the first.
StampsAreFresh == free \cap StartRows = {}

\* COUNT saw every record but those that came after it, and the reader stops
\* only where it told him to.
CountHolds ==
    /\ step # "count" => Cardinality(rows) <= total + late
    /\ step = "end" => LastPage

HistInv ==
    /\ HistTypeOK
    /\ StampsAreFresh
    /\ CountHolds
    /\ SkipsBoundedByDeletes

(***************************************************************************)
(* History: places in the list                                             *)
(***************************************************************************)

LEMMA RowsAreFinite ==
    ASSUME HistTypeOK
    PROVE  /\ IsFiniteSet(rows) /\ rows \subseteq Nat
           /\ Cardinality(rows) \in Nat
           /\ \A S \in SUBSET rows : IsFiniteSet(S) /\ Cardinality(S) \in Nat
<1>1. IsFiniteSet(rows) /\ rows \subseteq Nat
  BY HistoryConstants, FS_Subset DEF HistTypeOK
<1>2. \A S \in SUBSET rows : IsFiniteSet(S) /\ Cardinality(S) \in Nat
  BY <1>1, FS_Subset, FS_CardinalityType
<1> QED
  BY <1>1, <1>2

LEMMA RankIsNat ==
    ASSUME HistTypeOK, NEW r \in rows
    PROVE  Rank(r) \in Nat /\ Rank(r) <= Cardinality(rows)
<1>1. Newer(r) \in SUBSET rows
  BY DEF Newer
<1> QED
  BY <1>1, RowsAreFinite, FS_Subset DEF Rank

\* A newer record comes first: no two have one place.
LEMMA RankOrder ==
    ASSUME HistTypeOK, NEW r \in rows, NEW s \in rows, r < s
    PROVE  Rank(s) < Rank(r)
<1>1. /\ Newer(s) \in SUBSET Newer(r) /\ Newer(r) \in SUBSET rows
      /\ r \in Newer(r) /\ r \notin Newer(s)
  BY RowsAreFinite DEF Newer
<1>2. IsFiniteSet(Newer(r))
  BY <1>1, RowsAreFinite
<1>3. Cardinality(Newer(s)) <= Cardinality(Newer(r)) /\ Cardinality(Newer(s)) # Cardinality(Newer(r))
  BY <1>1, <1>2, FS_Subset
<1> QED
  BY <1>3, RankIsNat DEF Rank

LEMMA RankInjective ==
    ASSUME HistTypeOK, NEW r \in rows, NEW s \in rows, Rank(r) = Rank(s)
    PROVE  r = s
<1>1. r \in Nat /\ s \in Nat /\ Rank(r) \in Nat
  BY RowsAreFinite, RankIsNat
<1>2. ~(r < s) /\ ~(s < r)
  BY <1>1, RankOrder
<1> QED
  BY <1>1, <1>2

\* A new record moves none up.
LEMMA RankAfterAdd ==
    ASSUME HistTypeOK, HistTypeOK', NEW d, rows' = rows \cup {d}, NEW r \in rows
    PROVE  Rank(r) <= Rank(r)'
<1>1. Newer(r) \in SUBSET Newer(r)' /\ Newer(r)' \in SUBSET rows'
  BY DEF Newer
<1>2. IsFiniteSet(Newer(r)')
  BY <1>1, RowsAreFinite, HistoryConstants, FS_Subset DEF HistTypeOK
<1> QED
  BY <1>1, <1>2, FS_Subset DEF Rank

\* A record that goes moves the others up by one place at most.
LEMMA RankAfterDelete ==
    ASSUME HistTypeOK, NEW d \in rows, rows' = rows \ {d}, NEW r \in rows'
    PROVE  Rank(r) <= Rank(r)' + 1 /\ Rank(r)' \in Nat
<1>1. Newer(r)' = Newer(r) \ {d} /\ Newer(r) \in SUBSET rows
  BY DEF Newer
<1>2. IsFiniteSet(Newer(r)) /\ Cardinality(Newer(r)) \in Nat
  BY <1>1, RowsAreFinite
<1>3. /\ IsFiniteSet(Newer(r) \ {d})
      /\ Cardinality(Newer(r) \ {d})
            = IF d \in Newer(r) THEN Cardinality(Newer(r)) - 1 ELSE Cardinality(Newer(r))
  BY <1>2, FS_RemoveElement
<1>4. Cardinality(Newer(r) \ {d}) \in Nat
  BY <1>3, FS_CardinalityType
<1> QED
  BY <1>1, <1>2, <1>3, <1>4 DEF Rank

\* Beyond place n there are no more records than the table has more than n.
LEMMA BeyondPlace ==
    ASSUME HistTypeOK, NEW n \in Nat, NEW k \in Nat, Cardinality(rows) <= n + k
    PROVE  LET B == {r \in rows : ~(Rank(r) <= n)} IN
           IsFiniteSet(B) /\ Cardinality(B) <= k
<1> DEFINE B == {r \in rows : ~(Rank(r) <= n)}
<1> DEFINE f == [r \in B |-> Rank(r)]
<1>1. f \in [B -> (n + 1)..(n + k)]
  BY RankIsNat, RowsAreFinite
<1>2. \A r, s \in B : f[r] = f[s] => r = s
  BY RankInjective
<1>3. f \in Injection(B, (n + 1)..(n + k))
  BY <1>1, <1>2, Fun_IsInj
<1>4. IsFiniteSet((n + 1)..(n + k)) /\ Cardinality((n + 1)..(n + k)) = k
  <2>1. n + 1 \in Int /\ n + k \in Int
    OBVIOUS
  <2>2. /\ IsFiniteSet((n + 1)..(n + k))
        /\ Cardinality((n + 1)..(n + k)) = IF n + 1 > n + k THEN 0 ELSE n + k - (n + 1) + 1
    BY <2>1, FS_Interval
  <2> QED
    BY <2>2
<1> HIDE DEF f, B
<1>5. IsFiniteSet(B) /\ Cardinality(B) <= Cardinality((n + 1)..(n + k))
  BY <1>3, <1>4, FS_Injection
<1> QED
  BY <1>4, <1>5 DEF B

(***************************************************************************)
(* History: each action keeps the invariant                                *)
(***************************************************************************)

\* The set that was skipped shrinks: a step that neither deletes nor forgets
\* keeps the bound.
LEMMA FewerSkipped ==
    ASSUME HistInv, Skipped' \subseteq Skipped, deleted' = deleted
    PROVE  SkipsBoundedByDeletes'
<1>1. Skipped \in SUBSET rows
  BY DEF Skipped
<1>2. IsFiniteSet(Skipped) /\ Cardinality(Skipped) \in Nat
  BY <1>1, RowsAreFinite DEF HistInv
<1>3. Cardinality(Skipped') <= Cardinality(Skipped) /\ Cardinality(Skipped') \in Nat
  BY <1>2, FS_Subset, FS_CardinalityType
<1> QED
  BY <1>2, <1>3 DEF HistInv, HistTypeOK, SkipsBoundedByDeletes

LEMMA HistInitKeeps == HistInit => HistInv
<1> SUFFICES ASSUME HistInit PROVE HistInv
  OBVIOUS
<1>1. HistTypeOK
  BY HistoryConstants DEF HistInit, HistTypeOK
<1>2. StampsAreFresh /\ CountHolds
  BY DEF HistInit, StampsAreFresh, CountHolds
<1>3. Skipped = {}
  <2> SUFFICES ASSUME NEW r \in rows, Rank(r) <= 0 PROVE FALSE
    <3>1. Shown = 0 /\ Shown * pageSize = 0
      BY HistoryConstants DEF HistInit, Shown
    <3> QED
      BY <3>1 DEF Skipped
  <2>1. r \in Newer(r) /\ Newer(r) \in SUBSET rows /\ r \in Nat
    BY <1>1, RowsAreFinite DEF Newer
  <2>2. Cardinality(Newer(r)) # 0
    BY <1>1, <2>1, RowsAreFinite, FS_EmptySet
  <2> QED
    BY <1>1, <2>2, RankIsNat DEF Rank
<1> QED
  BY <1>1, <1>2, <1>3, FS_EmptySet DEF HistInv, HistInit, SkipsBoundedByDeletes

LEMMA CountKeeps == ASSUME HistInv, Count PROVE HistInv'
<1>1. HistTypeOK' /\ StampsAreFresh'
  BY RowsAreFinite DEF HistInv, HistTypeOK, StampsAreFresh, Count
<1>2. CountHolds'
  BY RowsAreFinite DEF HistInv, CountHolds, Count
<1>3. Skipped' = Skipped /\ deleted' = deleted
  BY DEF Skipped, Shown, Rank, Newer, Count
<1> QED
  BY <1>1, <1>2, <1>3, FewerSkipped DEF HistInv

\* What comes into reach is what the page shows.
LEMMA SelectKeeps == ASSUME HistInv, Select PROVE HistInv'
<1>1. HistTypeOK' /\ StampsAreFresh'
  BY DEF HistInv, HistTypeOK, StampsAreFresh, Select, Page
<1>2. CountHolds'
  BY DEF HistInv, CountHolds, Select
<1>3. Skipped' \subseteq Skipped
  <2> SUFFICES ASSUME NEW r \in StartRows \cap rows, r \notin seen, r \notin Page(page),
                      Rank(r) <= page * pageSize
               PROVE  Rank(r) <= (page - 1) * pageSize
    BY DEF Skipped, Shown, Rank, Newer, Select
  <2>1. page \in Nat \ {0} /\ pageSize \in Nat \ {0} /\ Rank(r) \in Nat
    BY HistoryConstants, RankIsNat DEF HistInv, HistTypeOK
  <2>2. Offset(page) = (page - 1) * pageSize
    BY <2>1 DEF Offset, parsePageParam
  <2>3. (page - 1) * pageSize + pageSize = page * pageSize /\ (page - 1) * pageSize \in Nat
    BY <2>1
  <2> QED
    BY <2>1, <2>2, <2>3 DEF Page
<1> QED
  BY <1>1, <1>2, <1>3, FewerSkipped DEF HistInv, Select

LEMMA NextPageKeeps == ASSUME HistInv, NextPage PROVE HistInv'
<1>1. HistTypeOK' /\ StampsAreFresh'
  BY DEF HistInv, HistTypeOK, StampsAreFresh, NextPage
<1>2. CountHolds'
  BY DEF HistInv, CountHolds, NextPage, LastPage
<1>3. Shown' = Shown
  BY DEF HistInv, HistTypeOK, NextPage, Shown
<1>4. Skipped' = Skipped /\ deleted' = deleted
  BY <1>3 DEF Skipped, Rank, Newer, NextPage
<1> QED
  BY <1>1, <1>2, <1>4, FewerSkipped DEF HistInv

LEMMA AddKeeps == ASSUME HistInv, NEW d \in Stamp, AddRecord(d) PROVE HistInv'
<1>1. HistTypeOK' /\ StampsAreFresh'
  BY DEF HistInv, HistTypeOK, StampsAreFresh, AddRecord
<1>2. CountHolds'
  <2>1. Cardinality(rows \cup {d}) = Cardinality(rows) + 1
    BY RowsAreFinite, FS_AddElement DEF HistInv, HistTypeOK, AddRecord
  <2> QED
    BY <2>1, RowsAreFinite DEF HistInv, HistTypeOK, CountHolds, AddRecord, LastPage
<1>3. Skipped' \subseteq Skipped
  <2> SUFFICES ASSUME NEW r \in (StartRows \cap rows') \ seen, Rank(r)' <= Shown * pageSize
               PROVE  r \in rows /\ Rank(r) <= Shown * pageSize
    BY DEF Skipped, Shown, AddRecord
  <2>1. r \in rows
    BY DEF HistInv, StampsAreFresh, AddRecord
  <2>2. Rank(r) <= Rank(r)'
    BY <1>1, <2>1, RankAfterAdd DEF HistInv, AddRecord
  <2>3. Rank(r) \in Nat /\ Rank(r)' \in Nat
    <3>1. Newer(r)' \in SUBSET rows'
      BY DEF Newer
    <3> QED
      BY <1>1, <2>1, <3>1, RankIsNat, HistoryConstants, FS_Subset, FS_CardinalityType
      DEF HistInv, HistTypeOK, Rank
  <2>4. Shown * pageSize \in Int
    BY HistoryConstants DEF HistInv, HistTypeOK, Shown
  <2> QED
    BY <2>1, <2>2, <2>3, <2>4
<1> QED
  BY <1>1, <1>2, <1>3, FewerSkipped DEF HistInv, AddRecord

LEMMA FinishKeeps == ASSUME HistInv, NEW d \in Stamp, FinishRecord(d) PROVE HistInv'
<1>1. HistTypeOK' /\ StampsAreFresh'
  BY DEF HistInv, HistTypeOK, StampsAreFresh, FinishRecord
<1>2. CountHolds'
  BY DEF HistInv, CountHolds, FinishRecord, LastPage
<1>3. Skipped' = Skipped /\ deleted' = deleted
  BY DEF Skipped, Shown, Rank, Newer, FinishRecord
<1> QED
  BY <1>1, <1>2, <1>3, FewerSkipped DEF HistInv

\* One deletion moves one record, at most, over the edge of what was shown.
LEMMA DeleteKeeps == ASSUME HistInv, NEW d \in Stamp, DeleteRecord(d) PROVE HistInv'
<1> DEFINE edge == Shown * pageSize
<1>1. HistTypeOK' /\ StampsAreFresh'
  BY DEF HistInv, HistTypeOK, StampsAreFresh, DeleteRecord
<1>2. d \in rows /\ rows' = rows \ {d} /\ HistTypeOK
  BY DEF HistInv, HistTypeOK, DeleteRecord
<1>3. CountHolds'
  <2>1. Cardinality(rows \ {d}) = Cardinality(rows) - 1
    BY <1>2, RowsAreFinite, FS_RemoveElement
  <2> QED
    BY <1>2, <2>1, RowsAreFinite DEF HistInv, HistTypeOK, CountHolds, DeleteRecord, LastPage
<1>4. edge \in Int /\ Shown' = Shown
  BY HistoryConstants DEF HistInv, HistTypeOK, Shown, DeleteRecord
<1>5. \A r \in Skipped' : r \in Skipped \/ (r \in rows /\ Rank(r) = edge + 1)
  <2> SUFFICES ASSUME NEW r \in (StartRows \cap rows') \ seen, Rank(r)' <= edge
               PROVE  r \in Skipped \/ (r \in rows /\ Rank(r) = edge + 1)
    BY <1>4 DEF Skipped, DeleteRecord
  <2>1. Rank(r) <= Rank(r)' + 1 /\ Rank(r)' \in Nat /\ Rank(r) \in Nat
    BY <1>2, RankAfterDelete, RankIsNat
  <2>2. Rank(r) <= edge \/ Rank(r) = edge + 1
    BY <1>4, <2>1
  <2> QED
    BY <1>2, <2>2 DEF Skipped
<1>6. PICK x : Skipped' \subseteq Skipped \cup {x}
  <2>1. CASE \E r \in rows : Rank(r) = edge + 1
    <3>1. PICK x \in rows : Rank(x) = edge + 1
      BY <2>1
    <3>2. \A r \in rows : Rank(r) = edge + 1 => r = x
      BY <1>2, <3>1, RankInjective
    <3>3. Skipped' \subseteq Skipped \cup {x}
      BY <1>5, <3>2
    <3> QED
      BY <3>3
  <2>2. CASE ~\E r \in rows : Rank(r) = edge + 1
    BY <1>5, <2>2
  <2> QED
    BY <2>1, <2>2
<1>7. SkipsBoundedByDeletes'
  <2>1. IsFiniteSet(Skipped) /\ Cardinality(Skipped) \in Nat
    <3>1. Skipped \in SUBSET rows
      BY DEF Skipped
    <3> QED
      BY <1>2, <3>1, RowsAreFinite
  <2>2. /\ IsFiniteSet(Skipped \cup {x})
        /\ Cardinality(Skipped \cup {x}) <= Cardinality(Skipped) + 1
        /\ Cardinality(Skipped \cup {x}) \in Nat
    BY <2>1, FS_AddElement, FS_CardinalityType
  <2>3. Cardinality(Skipped') <= Cardinality(Skipped \cup {x}) /\ Cardinality(Skipped') \in Nat
    BY <1>6, <2>2, FS_Subset, FS_CardinalityType
  <2>4. Cardinality(Skipped) <= deleted /\ deleted \in Nat /\ deleted' = deleted + 1
    BY DEF HistInv, HistTypeOK, SkipsBoundedByDeletes, DeleteRecord
  <2> QED
    BY <2>1, <2>2, <2>3, <2>4 DEF SkipsBoundedByDeletes
<1> QED
  BY <1>1, <1>3, <1>7 DEF HistInv

(***************************************************************************)
(* History: theorems                                                       *)
(***************************************************************************)

\* The table, the reader and the two counts stay in step.
THEOREM HistInvariant == HistSpec => []HistInv
<1>1. HistInv /\ [HistNext]_histVars => HistInv'
  <2> SUFFICES ASSUME HistInv, [HistNext]_histVars PROVE HistInv'
    OBVIOUS
  <2>1. CASE Count \/ Select \/ NextPage
    BY <2>1, CountKeeps, SelectKeeps, NextPageKeeps
  <2>2. ASSUME NEW r \in Stamp, AddRecord(r) \/ FinishRecord(r) \/ DeleteRecord(r)
        PROVE  HistInv'
    BY <2>2, AddKeeps, FinishKeeps, DeleteKeeps
  <2>3. CASE UNCHANGED histVars
    <3>1. HistTypeOK' /\ StampsAreFresh' /\ CountHolds'
      BY <2>3 DEF HistInv, HistTypeOK, StampsAreFresh, CountHolds, LastPage, histVars
    <3>2. Skipped' = Skipped /\ deleted' = deleted
      BY <2>3 DEF Skipped, Shown, Rank, Newer, histVars
    <3> QED
      BY <3>1, <3>2, FewerSkipped DEF HistInv
  <2> QED
    BY <2>1, <2>2, <2>3 DEF HistNext
<1> QED
  BY HistInitKeeps, <1>1, PTL DEF HistSpec

\* The types of the reader and of the table he reads.
THEOREM HistTypes == HistSpec => []HistTypeOK
  BY HistInvariant, PTL DEF HistInv

\* Paging by offset skips one record for a deletion at most, and none for a
\* record that is added (deployment_store.go, ListByProduct).
THEOREM SkipsAreDeletes == HistSpec => []SkipsBoundedByDeletes
  BY HistInvariant, PTL DEF HistInv

\* A reader who goes to the last page has missed no more than was deleted while
\* he read and added while his last page was being read.
THEOREM ScansMissLittle == HistSpec => []ScanMisses
<1>1. HistInv => ScanMisses
  <2> SUFFICES ASSUME HistInv, step = "end"
               PROVE  Cardinality((StartRows \cap rows) \ seen) <= deleted + late
    BY DEF ScanMisses, HistInv
  <2> DEFINE unseen == (StartRows \cap rows) \ seen
  <2> DEFINE end == page * pageSize
  <2> DEFINE B == {r \in rows : ~(Rank(r) <= end)}
  <2>1. HistTypeOK /\ deleted \in Nat /\ late \in Nat /\ total \in Nat /\ end \in Nat
    BY HistoryConstants DEF HistInv, HistTypeOK
  <2>2. Cardinality(rows) <= end + late
    BY <2>1, RowsAreFinite DEF HistInv, CountHolds, LastPage
  <2>3. IsFiniteSet(B) /\ Cardinality(B) <= late /\ Cardinality(B) \in Nat
    BY <2>1, <2>2, BeyondPlace, FS_CardinalityType
  <2>4. /\ IsFiniteSet(Skipped) /\ Cardinality(Skipped) \in Nat
        /\ Cardinality(Skipped) <= deleted
    <3>1. Skipped \in SUBSET rows
      BY DEF Skipped
    <3> QED
      BY <2>1, <3>1, RowsAreFinite DEF HistInv, SkipsBoundedByDeletes
  <2>5. unseen \in SUBSET (Skipped \cup B)
    BY DEF Skipped, Shown
  <2>6. /\ IsFiniteSet(Skipped \cup B) /\ Cardinality(Skipped \cup B) \in Nat
        /\ Cardinality(Skipped \cup B) <= Cardinality(Skipped) + Cardinality(B)
    <3>1. Cardinality(Skipped \cap B) \in Nat
      BY <2>4, FS_Intersection, FS_CardinalityType
    <3> QED
      BY SMTT(30), <2>3, <2>4, <3>1, FS_Union, FS_CardinalityType
  <2>7. Cardinality(unseen) <= Cardinality(Skipped \cup B) /\ Cardinality(unseen) \in Nat
    BY <2>5, <2>6, FS_Subset, FS_CardinalityType
  <2> QED
    BY <2>1, <2>3, <2>4, <2>6, <2>7
<1> QED
  BY <1>1, HistInvariant, PTL

(***************************************************************************)
(* ImageTags: the inductive invariant                                      *)
(***************************************************************************)

\* A version was on a page, for a client without a filter.
Passed(v) == more = "end" \/ v <= pageToken

\* What was passed has been shown once, if nobody touched it; the rest has not.
ShownOnce ==
    ~filtered =>
        /\ \A t \in settled \cap TagName :
              list[t] = IF tagged[t] # 0 /\ Passed(tagged[t]) THEN 1 ELSE 0
        /\ \A v \in settled \cap Version :
              list[v] = IF v \in stored /\ TagsOf(v) = {} /\ Passed(v) THEN 1 ELSE 0

\* A filtered list has no second page.
FilterStarts == filtered /\ more = "ask" => pageToken = 0 /\ \A x \in Item : list[x] = 0

TagsInv == TagsTypeOK /\ ShownOnce /\ FilterStarts /\ FilterIsOnePage

(***************************************************************************)
(* ImageTags: versions and pages                                           *)
(***************************************************************************)

LEMMA VersionsAreFinite ==
    ASSUME TagsTypeOK
    PROVE  /\ stored \subseteq Nat \ {0}
           /\ \A S \in SUBSET stored : IsFiniteSet(S) /\ Cardinality(S) \in Nat
<1>1. IsFiniteSet(1..MaxVersion)
  BY FS_Interval, TagConstants
<1>2. stored \subseteq 1..MaxVersion
  BY DEF TagsTypeOK, Version
<1>3. \A S \in SUBSET stored : IsFiniteSet(S)
  BY <1>1, <1>2, FS_Subset
<1> QED
  BY <1>2, <1>3, FS_CardinalityType, TagConstants

LEMMA FirstVersion ==
    ASSUME NEW S \in SUBSET Nat, S # {}
    PROVE  \E v \in S : \A u \in S : v <= u
<1>1. IsWellFoundedOn(OpToRel(<, Nat), Nat)
  BY NatLessThanWellFounded
<1> DEFINE R == OpToRel(<, Nat)
<1>2. \A a, b \in Nat : b < a => <<b, a>> \in R
  BY DEF OpToRel
<1> HIDE DEF R
<1>3. \E v \in S : \A u \in S : ~(<<u, v>> \in R)
  BY <1>1, WFMin DEF R
<1>4. PICK v \in S : \A u \in S : ~(<<u, v>> \in R)
  BY <1>3
<1>5. ASSUME NEW u \in S PROVE v <= u
  <2>1. v \in Nat /\ u \in Nat
    OBVIOUS
  <2>2. ~(u < v)
    BY <1>2, <1>4, <2>1
  <2> QED
    BY <2>1, <2>2
<1> QED
  BY <1>5

LEMMA LastVersion ==
    ASSUME NEW n \in Nat, NEW S \in SUBSET (1..n), S # {}
    PROVE  \E v \in S : \A u \in S : u <= v
<1> DEFINE T == {n - v : v \in S}
<1>1. T \in SUBSET Nat /\ T # {}
  <2>1. \A v \in S : v \in Nat /\ n - v \in Nat
    OBVIOUS
  <2> QED
    BY <2>1
<1>2. PICK x \in T : \A y \in T : x <= y
  BY <1>1, FirstVersion
<1>3. PICK v \in S : x = n - v
  OBVIOUS
<1>4. ASSUME NEW u \in S PROVE u <= v
  <2>1. u \in Nat /\ v \in Nat /\ n - v <= n - u
    BY <1>2, <1>3
  <2> QED
    BY <2>1
<1> QED
  BY <1>4

\* A page is all there is, or it goes to its token: the versions after the last
\* token and up to the next are those it has.
LEMMA PageIsInterval ==
    ASSUME TagsTypeOK, NEW after \in Nat, NEW n \in Nat \ {0}
    PROVE  \/ /\ NextToken(after, n) = 0
              /\ Versions(after, n) = {v \in stored : v > after}
           \/ /\ NextToken(after, n) \in stored /\ NextToken(after, n) > after
              /\ Versions(after, n) = {v \in stored : v > after /\ v <= NextToken(after, n)}
<1> DEFINE shown == Versions(after, n)
           UpTo(v) == {u \in Rest(after) : u <= v}
<1>1. /\ Rest(after) \in SUBSET stored /\ shown \in SUBSET Rest(after)
      /\ \A v : UpTo(v) \in SUBSET stored
      /\ shown = {v \in Rest(after) : Cardinality(UpTo(v)) <= n}
  BY DEF Rest, Versions
<1>2. /\ stored \subseteq Nat \ {0} /\ stored \in SUBSET (1..MaxVersion)
      /\ \A S \in SUBSET stored : IsFiniteSet(S) /\ Cardinality(S) \in Nat
  BY VersionsAreFinite DEF TagsTypeOK, Version
<1> HIDE DEF shown, UpTo
<1>3. CASE shown = Rest(after)
  BY <1>3 DEF NextToken, Rest, shown
<1>4. CASE shown # Rest(after)
  <2>1. shown # {}
    <3>1. PICK m \in Rest(after) : \A u \in Rest(after) : m <= u
      <4>1. Rest(after) # {} /\ Rest(after) \in SUBSET Nat
        BY <1>1, <1>2, <1>4
      <4> QED
        BY <4>1, FirstVersion
    <3>2. UpTo(m) = {m}
      <4>1. m \in Nat /\ Rest(after) \in SUBSET Nat
        BY <1>1, <1>2
      <4>2. \A u \in Rest(after) : u <= m => u = m
        BY <3>1, <4>1
      <4>3. m <= m
        BY <4>1
      <4> QED
        BY <4>2, <4>3 DEF UpTo
    <3>3. Cardinality(UpTo(m)) <= n
      <4>1. Cardinality({m}) = 1
        BY FS_Singleton
      <4> QED
        BY <3>2, <4>1
    <3> QED
      BY <1>1, <3>1, <3>3
  <2>2. PICK last \in shown : \A u \in shown : u <= last
    BY <1>1, <1>2, <2>1, TagConstants, LastVersion
  <2> DEFINE next == NextToken(after, n)
  <2>3. next = CHOOSE v \in shown : \A u \in shown : u <= v
    BY <1>4 DEF NextToken, shown
  <2>4. next \in shown /\ \A u \in shown : u <= next
    BY <2>2, <2>3
  <2>5. next \in stored /\ next > after
    BY <1>1, <2>4 DEF Rest
  <2>6. ASSUME NEW v \in stored, v > after, v <= next PROVE v \in shown
    <3>1. UpTo(v) \in SUBSET UpTo(next)
      <4>1. Rest(after) \in SUBSET Nat /\ v \in Nat /\ next \in Nat
        BY <1>1, <1>2, <2>5
      <4>2. \A u \in Rest(after) : u <= v => u <= next
        BY <2>6, <4>1
      <4> QED
        BY <4>2 DEF UpTo
    <3>2. Cardinality(UpTo(v)) <= Cardinality(UpTo(next))
      BY <1>1, <1>2, <3>1, FS_Subset
    <3>3. Cardinality(UpTo(next)) <= n /\ Cardinality(UpTo(next)) \in Nat /\ Cardinality(UpTo(v)) \in Nat
      BY <1>1, <1>2, <2>4
    <3>4. v \in Rest(after)
      BY <2>6 DEF Rest
    <3>5. Cardinality(UpTo(v)) <= n
      BY <3>2, <3>3
    <3> QED
      BY <1>1, <3>4, <3>5
  <2>7. \A v \in shown : v \in stored /\ v > after /\ v <= next
    BY <1>1, <2>4 DEF Rest
  <2> QED
    BY <2>5, <2>6, <2>7 DEF shown
<1> QED
  BY <1>3, <1>4

\* What a page shows.
LEMMA PageShows ==
    ASSUME TagsTypeOK, NEW V \in SUBSET stored
    PROVE  /\ versionsToTags(V) \subseteq Item
           /\ \A t \in TagName : t \in versionsToTags(V) <=> tagged[t] \in V
           /\ \A v \in Version : v \in versionsToTags(V) <=> v \in V /\ TagsOf(v) = {}
<1>1. \A x : x \in versionsToTags(V) <=>
          \E v \in V : IF TagsOf(v) = {} THEN x = v ELSE x \in TagsOf(v)
  BY DEF versionsToTags
<1>2. V \subseteq Version /\ \A v \in Version : v \notin TagName
  BY TagConstants DEF TagsTypeOK, Version
<1>3. \A x, v : x \in TagsOf(v) <=> x \in TagName /\ tagged[x] = v
  BY DEF TagsOf
<1> QED
  BY <1>1, <1>2, <1>3 DEF Item

(***************************************************************************)
(* ImageTags: each action keeps the invariant                              *)
(***************************************************************************)

LEMMA TagsInitKeeps == TagsInit => TagsInv
<1> SUFFICES ASSUME TagsInit PROVE TagsInv
  OBVIOUS
<1>1. TagsTypeOK
  BY TagConstants DEF TagsInit, TagsTypeOK
<1>2. ShownOnce
  <2>1. /\ \A x \in Item : list[x] = 0
        /\ \A v \in stored : ~Passed(v)
    BY <1>1, VersionsAreFinite DEF TagsInit, Passed
  <2> QED
    BY <1>1, <2>1 DEF ShownOnce, TagsTypeOK, Item
<1> QED
  BY <1>1, <1>2 DEF TagsInit, TagsInv, FilterStarts, FilterIsOnePage

LEMMA BadParamsKeep == ASSUME TagsInv, BadParams PROVE TagsInv'
<1>1. TagsTypeOK'
  BY DEF TagsInv, TagsTypeOK, BadParams
<1>2. \A v : Passed(v)' <=> Passed(v)
  BY DEF BadParams, Passed
<1>3. ShownOnce'
  BY <1>2 DEF TagsInv, ShownOnce, TagsOf, BadParams
<1> QED
  BY <1>1, <1>3 DEF TagsInv, FilterStarts, FilterIsOnePage, BadParams

\* One answer.
LEMMA ListTagsKeeps == ASSUME TagsInv, ListTags PROVE TagsInv'
<1> DEFINE shown == Versions(pageToken, listSize)
           next == NextToken(pageToken, listSize)
           tags == versionsToTags(shown)
           kept == IF filtered THEN tags \cap Prefixed ELSE tags
<1>1. /\ TagsTypeOK /\ pageToken \in Nat /\ listSize \in Nat \ {0} /\ more = "ask"
      /\ UNCHANGED <<stored, tagged, listSize, filtered, settled>>
  BY VersionsAreFinite, TagConstants DEF TagsInv, TagsTypeOK, ListTags, parseTagListParams
<1>2. /\ \A x \in Item : list'[x] = list[x] + IF x \in kept THEN 1 ELSE 0
      /\ pageToken' = IF filtered THEN 0 ELSE next
      /\ more' = IF pageToken' = 0 THEN "end" ELSE "ask"
      /\ list' = [x \in Item |-> list[x] + IF x \in kept THEN 1 ELSE 0]
  BY DEF ListTags, NextPageToken
<1> HIDE DEF kept, tags, next, shown
<1>3. shown \in SUBSET stored
      /\ \/ next = 0 /\ shown = {v \in stored : v > pageToken}
         \/ next \in stored /\ next > pageToken
            /\ shown = {v \in stored : v > pageToken /\ v <= next}
  BY <1>1, PageIsInterval DEF shown, next
<1>4. /\ tags \subseteq Item
      /\ \A t \in TagName : t \in tags <=> tagged[t] \in shown
      /\ \A v \in Version : v \in tags <=> v \in shown /\ TagsOf(v) = {}
  BY <1>1, <1>3, PageShows DEF tags
<1>5. stored \subseteq Nat \ {0} /\ stored \subseteq Version
      /\ \A t \in TagName : tagged[t] \in stored \cup {0}
      /\ \A x \in Item : list[x] \in Nat
  BY <1>1, VersionsAreFinite DEF TagsTypeOK
<1>6. TagsTypeOK'
  <2>1. list' \in [Item -> Nat]
    <3>1. \A x \in Item : list[x] + (IF x \in kept THEN 1 ELSE 0) \in Nat
      <4> SUFFICES ASSUME NEW x \in Item, NEW k \in {0, 1} PROVE list[x] + k \in Nat
        OBVIOUS
      <4>1. list \in [Item -> Nat]
        BY <1>1 DEF TagsTypeOK
      <4> QED
        BY <4>1
    <3> QED
      BY <1>2, <3>1
  <2>2. pageToken' \in stored \cup {0}
    BY <1>2, <1>3
  <2> QED
    BY <1>1, <1>2, <2>1, <2>2 DEF TagsTypeOK
<1>7. ShownOnce'
  <2> DEFINE Then(v) == more' = "end" \/ v <= pageToken'
  <2> SUFFICES ASSUME ~filtered
               PROVE  /\ \A t \in settled \cap TagName :
                            list'[t] = IF tagged[t] # 0 /\ Then(tagged[t]) THEN 1 ELSE 0
                      /\ \A v \in settled \cap Version :
                            list'[v] = IF v \in stored /\ TagsOf(v) = {} /\ Then(v) THEN 1 ELSE 0
    BY <1>1 DEF ShownOnce, Passed, TagsOf
  <2>1. \A v \in stored : Then(v) <=> Passed(v) \/ v \in shown
    <3>1. \A v \in stored : Passed(v) <=> v <= pageToken
      BY <1>1 DEF Passed
    <3>2. CASE next = 0
      <4>1. more' = "end" /\ shown = {v \in stored : v > pageToken}
        BY <1>2, <1>3, <1>5, <3>2
      <4> QED
        BY <1>1, <1>5, <3>1, <4>1
    <3>3. CASE next # 0
      <4>1. more' = "ask" /\ pageToken' = next /\ next \in Nat /\ next > pageToken
            /\ shown = {v \in stored : v > pageToken /\ v <= next}
        BY <1>2, <1>3, <1>5, <3>3
      <4>2. \A v \in stored : Then(v) <=> v <= next
        BY <4>1
      <4> QED
        BY <1>1, <1>5, <3>1, <4>1, <4>2
    <3> QED
      BY <3>2, <3>3
  <2> HIDE DEF Then
  <2>2. \A v \in shown : ~Passed(v)
    BY <1>1, <1>3, <1>5 DEF Passed
  <2>3. kept = tags
    BY DEF kept
  <2>4. ASSUME NEW t \in settled \cap TagName
        PROVE  list'[t] = IF tagged[t] # 0 /\ Then(tagged[t]) THEN 1 ELSE 0
    <3>1. list[t] = IF tagged[t] # 0 /\ Passed(tagged[t]) THEN 1 ELSE 0
      BY DEF TagsInv, ShownOnce
    <3>2. list'[t] = list[t] + IF tagged[t] \in shown THEN 1 ELSE 0
      BY <1>2, <1>4, <2>3 DEF Item
    <3>3. tagged[t] # 0 => tagged[t] \in stored
      BY <1>5
    <3>4. 0 \notin shown
      BY <1>3, <1>5
    <3> QED
      <4>1. CASE tagged[t] \in shown
        <5>1. tagged[t] # 0 /\ ~Passed(tagged[t]) /\ Then(tagged[t])
          BY <1>3, <2>1, <2>2, <3>4, <4>1
        <5> QED
          BY <3>1, <3>2, <4>1, <5>1
      <4>2. CASE tagged[t] \notin shown
        <5>1. tagged[t] # 0 => (Then(tagged[t]) <=> Passed(tagged[t]))
          BY <2>1, <3>3, <4>2
        <5>2. list'[t] = list[t]
          BY <3>1, <3>2, <4>2
        <5> QED
          BY <3>1, <5>1, <5>2
      <4> QED
        BY <4>1, <4>2
  <2>5. ASSUME NEW v \in settled \cap Version
        PROVE  list'[v] = IF v \in stored /\ TagsOf(v) = {} /\ Then(v) THEN 1 ELSE 0
    <3>1. list[v] = IF v \in stored /\ TagsOf(v) = {} /\ Passed(v) THEN 1 ELSE 0
      BY DEF TagsInv, ShownOnce
    <3>2. list'[v] = list[v] + IF v \in shown /\ TagsOf(v) = {} THEN 1 ELSE 0
      BY <1>2, <1>4, <2>3 DEF Item
    <3> QED
      BY <1>3, <2>1, <2>2, <3>1, <3>2
  <2> QED
    BY <2>4, <2>5
<1>8. FilterStarts'
  BY <1>1, <1>2 DEF FilterStarts
<1>9. FilterIsOnePage'
  <2> SUFFICES ASSUME filtered
               PROVE  /\ \A x \in Item : list'[x] <= 1 /\ (list'[x] = 1 => x \in Prefixed)
                      /\ \A t \in settled \cap Prefixed \cap TagName :
                            Within(tagged[t]) => list'[t] = 1
                      /\ \A v \in settled \cap Prefixed \cap Version :
                            Within(v) /\ TagsOf(v) = {} => list'[v] = 1
    BY <1>1 DEF FilterIsOnePage, Within, TagsOf
  <2>1. pageToken = 0 /\ \A x \in Item : list[x] = 0
    BY <1>1 DEF TagsInv, FilterStarts
  <2>2. \A x \in Item : list'[x] = IF x \in tags /\ x \in Prefixed THEN 1 ELSE 0
    BY <1>2, <2>1 DEF kept
  <2>3. ASSUME NEW v, Within(v) PROVE v \in shown
    <3>1. Rest(0) = stored
      <4>1. \A u \in stored : u > 0
        BY <1>5
      <4> QED
        BY <4>1 DEF Rest
    <3> QED
      BY <2>1, <2>3, <3>1 DEF Within, shown, Versions
  <2>4. ASSUME NEW t \in settled \cap Prefixed \cap TagName, Within(tagged[t])
        PROVE  list'[t] = 1
    BY <1>4, <2>2, <2>3, <2>4 DEF Item
  <2>5. ASSUME NEW v \in settled \cap Prefixed \cap Version, Within(v), TagsOf(v) = {}
        PROVE  list'[v] = 1
    BY <1>4, <2>2, <2>3, <2>5 DEF Item
  <2> QED
    BY <2>2, <2>4, <2>5
<1> QED
  BY <1>6, <1>7, <1>8, <1>9 DEF TagsInv

\* A version that is among the first when more have come was so before.
LEMMA WithinStays ==
    ASSUME TagsTypeOK, TagsTypeOK', NEW v \in Version, stored' = stored \cup {v},
           listSize' = listSize, NEW x \in Version, x # v, Within(x)'
    PROVE  Within(x)
<1> DEFINE before == {u \in stored : u <= x}
           after == {u \in stored' : u <= x}
<1>1. before \in SUBSET after /\ before \in SUBSET stored /\ after \in SUBSET stored'
  OBVIOUS
<1>2. IsFiniteSet(1..MaxVersion) /\ stored' \subseteq 1..MaxVersion
  <2>1. IsFiniteSet(1..MaxVersion)
    BY FS_Interval, TagConstants
  <2> QED
    BY <2>1 DEF TagsTypeOK, Version
<1>3. IsFiniteSet(after) /\ Cardinality(after) \in Nat /\ Cardinality(before) \in Nat
  <2>1. \A S \in SUBSET stored' : IsFiniteSet(S) /\ Cardinality(S) \in Nat
    BY <1>2, FS_Subset, FS_CardinalityType
  <2> QED
    BY <1>1, <2>1, VersionsAreFinite
<1>4. Cardinality(before) <= Cardinality(after)
  BY <1>1, <1>3, FS_Subset
<1>5. x \in stored /\ Cardinality(after) <= listSize /\ listSize \in Nat
  BY TagConstants DEF Within, TagsTypeOK
<1>6. Cardinality(before) <= listSize
  BY <1>3, <1>4, <1>5
<1> QED
  BY <1>5, <1>6 DEF Within

\* An image is pushed: what it touches is settled no more, and what is before a
\* version comes to be more.
LEMMA PushKeeps ==
    ASSUME TagsInv, NEW v \in Version, NEW t \in TagName, PushImage(v, t) PROVE TagsInv'
<1>1. /\ TagsTypeOK /\ v \notin stored /\ stored' = stored \cup {v}
      /\ UNCHANGED <<listSize, filtered, pageToken, more, list>>
      /\ settled' = settled \ {t, v, tagged[t]}
      /\ tagged'[t] = v /\ \A u \in TagName \ {t} : tagged'[u] = tagged[u]
  BY DEF TagsInv, TagsTypeOK, PushImage
<1>2. TagsTypeOK'
  BY DEF TagsInv, TagsTypeOK, PushImage
<1>3. \A u : Passed(u)' <=> Passed(u)
  BY <1>1 DEF Passed
<1>4. \A u : u # v /\ u # tagged[t] => TagsOf(u)' = TagsOf(u)
  BY <1>1 DEF TagsOf
<1>5. ShownOnce'
  <2> SUFFICES ASSUME ~filtered
               PROVE  /\ \A s \in settled' \cap TagName :
                            list[s] = IF tagged'[s] # 0 /\ Passed(tagged'[s]) THEN 1 ELSE 0
                      /\ \A u \in settled' \cap Version :
                            list[u] = IF u \in stored' /\ TagsOf(u)' = {} /\ Passed(u) THEN 1 ELSE 0
    BY <1>1, <1>3 DEF ShownOnce
  <2>1. \A s \in settled' \cap TagName : s \in settled /\ tagged'[s] = tagged[s]
    BY <1>1
  <2>2. \A u \in settled' \cap Version :
            u \in settled /\ TagsOf(u)' = TagsOf(u) /\ (u \in stored' <=> u \in stored)
    BY <1>1, <1>4
  <2> QED
    BY <2>1, <2>2 DEF TagsInv, ShownOnce
<1>6. FilterStarts'
  BY <1>1 DEF TagsInv, FilterStarts
<1>7. FilterIsOnePage'
  <2>1. ASSUME NEW x \in Version, x # v, Within(x)' PROVE Within(x)
    BY <1>1, <1>2, <2>1, WithinStays
  <2>2. \A s \in settled' \cap TagName :
            s \in settled /\ tagged'[s] = tagged[s]
            /\ (tagged[s] # v /\ tagged[s] \in stored \cup {0})
    BY <1>1, TagConstants DEF TagsTypeOK, Version
  <2>3. \A x \in settled' \cap Version :
            x \in settled /\ x # v /\ x # tagged[t] /\ TagsOf(x)' = TagsOf(x)
    BY <1>1, <1>4
  <2>4. stored \subseteq Version /\ 0 \notin stored'
    BY <1>1, <1>2 DEF TagsTypeOK, Version
  <2>5. ASSUME filtered, more = "end", NEW s \in settled' \cap Prefixed \cap TagName,
               Within(tagged[s])'
        PROVE  list[s] = 1
    <3>1. tagged[s] \in Version /\ Within(tagged[s])'
      BY <2>2, <2>4, <2>5 DEF Within
    <3> QED
      BY <2>1, <2>2, <2>5, <3>1 DEF TagsInv, FilterIsOnePage
  <2>6. ASSUME filtered, more = "end", NEW x \in settled' \cap Prefixed \cap Version,
               Within(x)', TagsOf(x)' = {}
        PROVE  list[x] = 1
    BY <2>1, <2>3, <2>6 DEF TagsInv, FilterIsOnePage
  <2> QED
    BY <1>1, <2>5, <2>6 DEF TagsInv, FilterIsOnePage
<1> QED
  BY <1>2, <1>5, <1>6, <1>7 DEF TagsInv

(***************************************************************************)
(* ImageTags: theorems                                                     *)
(***************************************************************************)

\* The pages so far have shown once what was not touched and is behind their token.
THEOREM TagsInvariant == TagsSpec => []TagsInv
<1>1. TagsInv /\ [TagsNext]_tagVars => TagsInv'
  <2> SUFFICES ASSUME TagsInv, [TagsNext]_tagVars PROVE TagsInv'
    OBVIOUS
  <2>1. CASE UNCHANGED tagVars
    <3>1. \A v : (Passed(v)' <=> Passed(v)) /\ TagsOf(v)' = TagsOf(v)
      BY <2>1 DEF tagVars, Passed, TagsOf
    <3> QED
      BY <2>1, <3>1 DEF tagVars, TagsInv, TagsTypeOK, ShownOnce, FilterStarts, FilterIsOnePage,
                        Within
  <2> QED
    BY <2>1, BadParamsKeep, ListTagsKeeps, PushKeeps DEF TagsNext
<1> QED
  BY <1>1, TagsInitKeeps, PTL DEF TagsSpec

\* Paging by the last version of a page loses and repeats nothing that stays where
\* it is, whatever is pushed between the pages; a filter sees one page and says so
\* by giving no token (gcr/client.go, ListTags).
THEOREM TagListIsWhole == TagsSpec => []ListIsWhole
<1>1. TagsInv => ListIsWhole
  BY DEF TagsInv, ShownOnce, Passed, ListIsWhole, EveryTagOnce
<1> QED
  BY <1>1, TagsInvariant, PTL
=============================================================================
