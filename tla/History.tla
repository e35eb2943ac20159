------------------------------- MODULE History -------------------------------
(***************************************************************************)
(* The deployment history, a page at a time (ListByProduct and ListAll of  *)
(* deployment_store.go, handlers/history.go), read to its end while        *)
(* deploys add records and take them back.                                 *)
(*                                                                         *)
(* A page is two statements: COUNT, then the rows at an offset, the newest *)
(* first.  Nothing ties one page to the next: a record added moves the     *)
(* others down, one taken back by a deploy that could not begin moves them *)
(* up, past the reader.                                                    *)
(*                                                                         *)
(* A record is its deployed_at; two records of one microsecond, whose      *)
(* order is PostgreSQL's choice, are left out.  The table is that of the   *)
(* query: one product, or all.                                             *)
(***************************************************************************)
EXTENDS Integers, FiniteSets

CONSTANTS
    Stamp,          \* values of deployed_at
    StartRows,      \* the records when the reader begins
    pageSize        \* defaultHistoryPageSize

ASSUME HistoryConstants ==
    /\ Stamp \subseteq Nat /\ IsFiniteSet(Stamp)
    /\ StartRows \subseteq Stamp
    /\ pageSize \in Nat \ {0}

VARIABLES
    rows,           \* the records, by deployed_at
    unfinished,     \* those whose handler has not ended
    free,           \* stamps no record has had
    step,           \* of the reader: "count", "select", "read", or "end"
    page, total,    \* the page it asks for, and what COUNT said
    seen,           \* the records it was shown
    deleted,        \* history: records deleted since it began
    late            \* history: records added since the last COUNT

histVars == <<rows, unfinished, free, step, page, total, seen, deleted, late>>

HistTypeOK ==
    /\ rows \subseteq Stamp /\ unfinished \subseteq rows
    /\ free \subseteq Stamp /\ free \cap rows = {}
    /\ step \in {"count", "select", "read", "end"}
    /\ page \in Nat \ {0} /\ total \in Nat
    /\ seen \subseteq Stamp
    /\ deleted \in Nat /\ late \in Nat

HistInit ==
    /\ rows = StartRows
    /\ unfinished \in SUBSET StartRows
    /\ free = Stamp \ StartRows
    /\ step = "count" /\ page = 1 /\ total = 0
    /\ seen = {} /\ deleted = 0 /\ late = 0

\* The place of a record in ORDER BY deployed_at DESC.
Newer(r) == {s \in rows : s >= r}
Rank(r) == Cardinality(Newer(r))

\* ?page=..., where anything but a positive number is the first page.
parsePageParam(p) == IF p < 1 THEN 1 ELSE p

Offset(p) == (parsePageParam(p) - 1) * pageSize

\* LIMIT pageSize OFFSET ...
Page(p) == {r \in rows : Offset(p) < Rank(r) /\ Rank(r) <= Offset(p) + pageSize}

(***************************************************************************)
(* The reader, who asks for the next page while there is one               *)
(***************************************************************************)

\* Bug: only the records of deploys that have ended are counted.
CountFinished ==
    /\ step = "count"
    /\ total' = Cardinality(rows \ unfinished)
    /\ late' = 0
    /\ step' = "select"
    /\ UNCHANGED <<rows, unfinished, free, page, seen, deleted>>

Count ==
    /\ step = "count"
    /\ total' = Cardinality(rows)
    /\ late' = 0
    /\ step' = "select"
    /\ UNCHANGED <<rows, unfinished, free, page, seen, deleted>>

Select ==
    /\ step = "select"
    /\ seen' = seen \cup Page(page)
    /\ step' = "read"
    /\ UNCHANGED <<rows, unfinished, free, page, total, deleted, late>>

\* The button of the history page is dead on the last page, by the total that
\* came with it.
LastPage == page * pageSize >= total

NextPage ==
    /\ step = "read"
    /\ \/ LastPage /\ step' = "end" /\ UNCHANGED page
       \/ ~LastPage /\ step' = "count" /\ page' = page + 1
    /\ UNCHANGED <<rows, unfinished, free, total, seen, deleted, late>>

(***************************************************************************)
(* The deploys                                                             *)
(***************************************************************************)

\* deployed_at is the start of the INSERT; one that commits later may be older
\* than records that are there already.
AddRecord(r) ==
    /\ r \in free
    /\ rows' = rows \cup {r}
    /\ unfinished' = unfinished \cup {r}
    /\ free' = free \ {r}
    /\ late' = late + 1
    /\ UNCHANGED <<step, page, total, seen, deleted>>

\* The handler ends, by UpdateOutcome or with its process.  What the sweep writes
\* in between does not matter to the listing, which shows every outcome.
FinishRecord(r) ==
    /\ r \in unfinished
    /\ unfinished' = unfinished \ {r}
    /\ UNCHANGED <<rows, free, step, page, total, seen, deleted, late>>

\* deleteInProgress, by id: a handler takes its record back though the sweep may
\* have closed it.
DeleteRecord(r) ==
    /\ r \in unfinished
    /\ rows' = rows \ {r}
    /\ unfinished' = unfinished \ {r}
    /\ deleted' = deleted + 1
    /\ UNCHANGED <<free, step, page, total, seen, late>>

HistNext ==
    \/ Count \/ Select \/ NextPage
    \/ \E r \in Stamp : AddRecord(r) \/ FinishRecord(r) \/ DeleteRecord(r)

HistSpec == HistInit /\ [][HistNext]_histVars

(***************************************************************************)
(* Properties                                                              *)
(***************************************************************************)

\* The pages shown so far.
Shown == IF step \in {"read", "end"} THEN page ELSE page - 1

\* Records that were there when the reader began, and still are, and that he
\* has passed without seeing them.
Skipped == {r \in (StartRows \cap rows) \ seen : Rank(r) <= Shown * pageSize}

\* Reading page after page skips at most one record for every record that was
\* deleted meanwhile, wherever new ones come in: without deletions nothing is
\* skipped.
SkipsBoundedByDeletes == Cardinality(Skipped) <= deleted

\* At no time has a reader passed more records than that, and one who stops
\* where the total says the end is has missed no more than those and what was
\* pushed out by records added between the COUNT and the rows of his last page.
ScanMisses ==
    /\ SkipsBoundedByDeletes
    /\ step = "end" => Cardinality((StartRows \cap rows) \ seen) <= deleted + late
=============================================================================
