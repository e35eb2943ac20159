------------------------------ MODULE ImageTags ------------------------------
(***************************************************************************)
(* The tags of an image, a page at a time (gcr/client.go, handlers/tags.go)*)
(* while images are pushed.                                                *)
(*                                                                         *)
(* Artifact Registry lists versions (digests), not tags, in an order of    *)
(* its own, and a page token stands for the last version of a page.  A     *)
(* version carries any number of tags; pushing a tag again moves it to the *)
(* new version.  Each page is sorted by the time of the push, the pages    *)
(* together are not; only what is on a page is kept here.  A filter looks  *)
(* at one page and gives no token for the next.                            *)
(***************************************************************************)
EXTENDS Naturals, FiniteSets

CONSTANTS
    TagName,        \* tags
    MaxVersion,     \* versions are 1..MaxVersion, in the order they are listed
    StartVersions,  \* those there at first
    PageSizes,      \* page sizes clients ask for
    maxPageSize,    \* the largest one allowed
    Prefixed        \* the tags, and bare digests, the filter matches

Version == 1..MaxVersion

ASSUME TagConstants ==
    /\ MaxVersion \in Nat /\ StartVersions \subseteq Version
    /\ PageSizes \subseteq Nat /\ maxPageSize \in Nat \ {0}
    /\ Prefixed \subseteq TagName \cup Version
    /\ TagName \cap Nat = {}

VARIABLES
    stored,         \* the versions of the image
    tagged,         \* tag -> the version it is on, 0 for none
    listSize,       \* the page size the client asks for
    filtered,       \* whether it filters
    pageToken,          \* where its next page begins: after this version
    more,           \* "ask" while there is a page to ask for, or how it ended
    list,           \* how often it was shown each tag or bare digest
    settled         \* history: tags and digests not touched since it began

tagVars == <<stored, tagged, listSize, filtered, pageToken, more, list, settled>>

Item == TagName \cup Version

TagsTypeOK ==
    /\ stored \subseteq Version
    /\ tagged \in [TagName -> stored \cup {0}]
    /\ listSize \in PageSizes /\ filtered \in BOOLEAN
    /\ pageToken \in stored \cup {0}
    /\ more \in {"ask", "end", "400"}
    /\ list \in [Item -> Nat]
    /\ settled \subseteq Item

TagsInit ==
    /\ stored = StartVersions
    /\ tagged \in [TagName -> StartVersions \cup {0}]
    /\ listSize \in PageSizes /\ filtered \in BOOLEAN
    /\ pageToken = 0 /\ more = "ask"
    /\ list = [x \in Item |-> 0]
    /\ settled = Item

TagsOf(v) == {t \in TagName : tagged[t] = v}

\* Artifact Registry: the versions of a page, and whether there are others.
Rest(after) == {v \in stored : v > after}
Versions(after, n) == {v \in Rest(after) : Cardinality({u \in Rest(after) : u <= v}) <= n}
NextToken(after, n) ==
    IF Versions(after, n) = Rest(after) THEN 0
    ELSE CHOOSE v \in Versions(after, n) : \A u \in Versions(after, n) : u <= v

\* Bug: one tag of each version.
FirstTags(V) ==
    UNION {IF TagsOf(v) = {} THEN {v} ELSE {CHOOSE t \in TagsOf(v) : TRUE} : v \in V}

\* Every tag of every version; a version without a tag by its digest.
versionsToTags(V) == UNION {IF TagsOf(v) = {} THEN {v} ELSE TagsOf(v) : v \in V}

\* Bug: the token names the version after the page.
TokenOfNext(after) == IF NextToken(after, listSize) = 0 THEN 0 ELSE NextToken(after, listSize) + 1

NextPageToken(after) == IF filtered THEN 0 ELSE NextToken(after, listSize)

parseTagListParams(n) == n > 0 /\ n <= maxPageSize

BadParams ==
    /\ more = "ask" /\ ~parseTagListParams(listSize)
    /\ more' = "400"
    /\ UNCHANGED <<stored, tagged, listSize, filtered, pageToken, list, settled>>

\* One answer, added to the list of the client; an error of the registry (404,
\* 429 or 502) leaves him where he is.
ListTags ==
    /\ more = "ask" /\ parseTagListParams(listSize)
    /\ LET tags == versionsToTags(Versions(pageToken, listSize))
           kept == IF filtered THEN tags \cap Prefixed ELSE tags IN
       list' = [x \in Item |-> list[x] + IF x \in kept THEN 1 ELSE 0]
    /\ pageToken' = NextPageToken(pageToken)
    /\ more' = IF pageToken' = 0 THEN "end" ELSE "ask"
    /\ UNCHANGED <<stored, tagged, listSize, filtered, settled>>

\* An image is pushed, under a new tag or one that moves.
PushImage(v, t) ==
    /\ v \notin stored
    /\ stored' = stored \cup {v}
    /\ tagged' = [tagged EXCEPT ![t] = v]
    /\ settled' = settled \ {t, v, tagged[t]}
    /\ UNCHANGED <<listSize, filtered, pageToken, more, list>>

TagsNext == BadParams \/ ListTags \/ \E v \in Version, t \in TagName : PushImage(v, t)

TagsSpec == TagsInit /\ [][TagsNext]_tagVars

\* At the end of a list without a filter every tag, and every version without
\* one, has been shown once, but for those that were pushed meanwhile: pages of
\* a list that grows at any place do not lose or repeat what stays.
EveryTagOnce ==
    more = "end" /\ ~filtered =>
        /\ \A t \in settled \cap TagName : list[t] = IF tagged[t] # 0 THEN 1 ELSE 0
        /\ \A v \in settled \cap Version :
              list[v] = IF v \in stored /\ TagsOf(v) = {} THEN 1 ELSE 0

Within(v) == v \in stored /\ Cardinality({u \in stored : u <= v}) <= listSize

\* A filtered list is over after one page, which holds nothing else; a match is
\* missing only if it is beyond the first page.
FilterIsOnePage ==
    filtered /\ more = "end" =>
        /\ \A x \in Item : list[x] <= 1 /\ (list[x] = 1 => x \in Prefixed)
        /\ \A t \in settled \cap Prefixed \cap TagName : Within(tagged[t]) => list[t] = 1
        /\ \A v \in settled \cap Prefixed \cap Version :
              Within(v) /\ TagsOf(v) = {} => list[v] = 1

\* What a client has been shown when there is no next page.
ListIsWhole == EveryTagOnce /\ FilterIsOnePage
=============================================================================
