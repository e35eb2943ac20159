# KubeGate in TLA+

KubeGate (`src/`) is a deployment gateway: a Go server with a React client and
a CLI. A deploy request names a product, an environment, a workload and an
image tag; the server patches one tag in one HelmRelease of a gitops
repository, commits and pushes, and keeps a history of what was deployed in
PostgreSQL. Nothing talks to Kubernetes: the repository is the product.

This directory models the parts in which that can go wrong, checks them with
TLC on small instances, and proves the most important properties with TLAPS
for every instance.

## 1. The system

| component | state | operations | where |
|---|---|---|---|
| deployment lock store | PostgreSQL session advisory locks, table `deployment_locks`, one pool connection per holder | `TryAcquire`, `GetLockInfo`, `Release` | `internal/store/deployment_lock_store.go` |
| gitops writer | the remote branch; a temporary clone per call | `Apply` | `internal/gitops/writer.go`, `helmrelease_patch.go` |
| deploy handler | table `deployments` | `Deploy` (`Create`, `UpdateOutcome`, `Delete`), `GetDeployment` | `internal/api/handlers/deploy.go`, `internal/store/deployment_store.go` |
| stale sweep | table `deployments` | `MarkStaleInProgress`, once a minute per replica | `cmd/server/main.go` |
| catalog | tables `products`, `environments` | create, update, archive, tag convention, create and delete environment | `internal/api/handlers/{products,environments,tag_convention}.go`, `internal/store/{product,environment}_store.go` |
| status cache | a map guarded by a mutex, a singleflight group | `GetStatus` | `internal/api/handlers/status.go` |
| statistics cache | a map guarded by a mutex | `GetStats` | `internal/api/handlers/stats.go`, `internal/store/stats_store.go` |
| history and activity | none | read-only queries | `internal/api/handlers/{history,admin}.go` |
| HelmRelease reader, image tags | none | `ReadCurrentTags`, `ListTags`, `ListWorkloads` | `internal/gitops/discover.go`, `internal/gcr`, `internal/api/handlers/{tags,workloads}.go` |
| kustomization patch | none (an algorithm the server does not call yet) | `PatchImage` | `internal/gitops/patch.go` |
| authentication and roles | none (signed tokens) | verify, `RequireRole`, `RequireAdmin` | `internal/auth`, `internal/api/middleware` |
| CLI | the token file | `login`, `logout`, `product list`, `env list`, `env create`, silent refresh | `internal/cli` |
| web client | React state, `sessionStorage` | pages and the deploy dialog | `web/src` |

How they interact. Every replica of the server runs one goroutine per request
and one for the sweep, and has its own pool of database connections; replicas
share only the database and the gitops repository. A deploy request

1. looks up the product and the environment and checks the tag convention,
2. takes the lock of the product-environment pair: it checks a connection out
   of the pool, polls `pg_try_advisory_lock` on it until a timeout, writes a row
   that names the holder, and *keeps the connection*,
3. inserts an `in_progress` record, on a second connection,
4. calls `Apply`: clone, patch, commit, push,
5. closes the record by what `Apply` returned (or deletes it when the request
   was refused as unpatchable),
6. releases the lock in a deferred call.

Steps 1 to 5 run under the request's context, which `net/http` cancels when the
client disconnects; step 6 runs under a context of its own. The sweep closes
records that stayed `in_progress` longer than a timeout.

The hard behaviours are therefore: the lock is tied to a database session
nobody watches; all pairs push one branch, but the lock is per pair; the
record, the commit and the lock live in three stores with no transaction over
them; a client can disconnect, a replica can stop and a reply can be lost
between any two steps; a handler needs a second connection while it holds one;
and the sweep races the handlers. Around the deploy path, handlers of the catalog
act in one statement on what they read in another; two caches are filled by
requests that overlap; the history and the tag list of an image are read a page at
a time while they change; the code that reads a HelmRelease and the code that
patches it walk it in ways of their own; and the commands of one user share a
token file that is rewritten in place. `PROJECT.json` lists each as a hazard at its
line, with the properties that cover it.

What makes each part correct:

* *lock store*: two holders never deploy one pair at once, no lock is left on a
  pooled connection, the row names the holder, and a call returns;
* *gitops writer*: no commit of another writer is lost, and what `Apply` returns is
  true of the branch;
* *deploy handler and sweep*: every commit has a record and an environment, a
  recorded success was deployed, no record stays in progress, closed records stay
  closed, the lock is released;
* *catalog*: an environment belongs to a product that may have it, names are unique
  among what is active, and a deploy obeys the convention in force;
* *status and statistics caches*: how old an answer can be, and that it never goes
  back in time;
* *history*: reading page after page loses no record for another reason than one
  that can be named;
* *HelmRelease reader and patch*: what is shown is listed and can be deployed, and
  what was deployed is shown;
* *image tags*: pages of a list that grows neither lose nor repeat what stays;
* *roles*: the list of products, the middleware and the handlers read one token alike,
  and only those who may edit a product change it;
* *CLI*: whatever the token file holds has an explanation, and a command tells the
  truth about what it did;
* *web client*: the dialog offers the tags of the workload that is chosen.

## 2. The modules

| module | models | role |
|---|---|---|
| `DeploymentMutex` | what the lock store promises: at most one request in flight per pair | abstract specification |
| `DeploymentLock` | the lock store, the pool and the sessions | component |
| `DeploymentLockProofs` | | theorems about `DeploymentLock` |
| `TagLedger` | what `Apply` promises: a table of tags in which a call changes its own entry, at most once, and tells the truth about it | abstract specification |
| `GitOpsWriter` | `Apply` and the git server | component |
| `GitOpsWriterProofs` | | theorems about `GitOpsWriter` |
| `Deploy` | the handler, the deployments table and the sweep, over an INSTANCE of `DeploymentLock` and one of `GitOpsWriter` (a request is its own writer) | composition |
| `DeployProofs` | | theorems about `Deploy` |
| `StatusCache` | `GetStatus`: the cache, the singleflight group and the fetch | component |
| `StatusCacheProofs` | | theorems about `StatusCache` |
| `Access` | from the roles of a token to the answer of a middleware | operators |
| `Catalog` | products, environments, conventions and the records made for them, under concurrent requests; extends `Access` | component |
| `CatalogProofs` | | theorems about `Catalog` and `Access` |
| `StatsCache` | `GetStats`: the map and the overlapping queries; extends `Access` | component |
| `History` | the listing queries, read page by page while deploys go on | component |
| `HelmRelease` | one HelmRelease as the readers and the patch see it | component |
| `Kustomization` | the image list of a kustomization and its update | algorithm |
| `HelmReleaseProofs` | | theorems about `HelmRelease` and `Kustomization` |
| `ImageTags` | the tags of an image, page by page, while images are pushed | component |
| `ReadsProofs` | | theorems about `StatsCache`, `History` and `ImageTags` |
| `CliSession` | the commands of one user and their token file | component |
| `MCLock`, `MCWriter`, `MCDeploy`, `MCStatus`, `MCCatalog` | | instances for TLC |
| `MCPortal` | `StatsCache`, `History`, `HelmRelease`, `Kustomization`, `ImageTags`, `CliSession` | one instance for six parts |
| `PortalProofs` | | theorems about `CliSession`, and about the six parts side by side |

### DeploymentLock

One action per database call or per point where the code can be interrupted.
`phase[r]` says where `TryAcquire` or `Release` stands: `pool` (waiting for a
connection), `try` (polling), `late` (the deadline has passed, the attempt under
way may still succeed), `insert` (lock taken, row not yet written), `undo` (the
INSERT failed), `held`, `unlock` (row deleted, lock not yet given up), `info`
(reading the holder), and the four ways to end. `session[r]` is the connection
the request keeps; `dead` means the database has ended the session, and with it
the advisory lock, while the request does not know. A polling attempt that is
refused changes nothing and is not a step.

Faults are chosen by the constant `Faults`: `cancel` (a client disconnects),
`session` (a session is lost), `crash` (a replica stops). An environment may be
deleted at any time; the row goes with it (ON DELETE CASCADE).

Lock keys are hashes: `LockKey` is any function, so colliding keys are included.

### GitOpsWriter

The repository is abstracted to a table from cells (a workload in the
HelmRelease of a pair) to the text of the tag. The text has a quoted and a plain
form because `patchStringNode` quotes what it writes, which decides whether a
commit is empty; a cell that cannot be patched is `NoTag`. The branch is the
sequence of trees it has had; a clone is a position in it. The push is a message:
`wire` holds the pushes under way, and one may land after its caller has given
up (`Fail`) or stopped (`Kill`). The server accepts a push only from the tip.
`LandSame` is go-git's `NoErrAlreadyUpToDate`: two calls that make the same
change in the same second make the same commit.

### Deploy

`rec[r]` is the record of request r. Its `at` is the order of `deployed_at`;
`horizon` is the newest record older than the stale timeout and moves only by
`TimePasses`, so time is untimed: any record may be stale at any moment after its
insertion. Each database access needs a free connection of the replica's pool
(`FreeConn`), in which a lock holder already has one. `DbError` is a statement
that comes back with an error; it may have been executed all the same. `Closed` is
the table of what the handler writes for each return of `Apply`.

### StatusCache

The cache is one entry, or none, since products share nothing. A request looks into
it (`Hit`, `StaleHit`, `Miss`), each time under the mutex and so in one step; then
`sf.Do` makes it the leader of a fetch (`Lead`) or lets it wait for one (`Join`). The
step between the miss and `sf.Do` matters: a fetch may end there, and the request
fetches again without a second look. A fetch reads its sources (the list of
environments, the HelmRelease of each) one at a time. What a source says is a version
that `Write` increments; `ended[s]` remembers when each version was replaced, which
is what an answer's age is measured against. `Fill` stores the entry and `Land` is
the return of `sf.Do`, which frees the group and answers everybody in one
step. The clock advances by `Tick`.

### Access and Catalog

`Access` is a set of operators: `extractRoles` makes a map of the claims of a token,
the later claim on a product winning, and `RequireAdmin`, `RequireRole` and
`checkProductAccess` answer for a route. In `Catalog` a request is sent with one of
the calls in `Asked`, passes the gate of its route, and then runs one action per
statement. Handlers that need one statement (`CreateProduct`, `Edit`) answer at
once; those that resolve the product first keep what they read in `got[r]` while
others run. The tables are functions from primary keys to rows, and the unique and
foreign keys of the migrations are in the guards of the statements that meet them.
`Unsure` is a statement that was carried out although the handler saw an error; `Fail`
is one that was not. `inForce` and `closed` are history variables: the conventions a
product has had while a request ran, and the products archived before it was sent.
The read-only routes (`List`, `MyRole`, `ListWithStats`, `GetStats`) are operators
over the tables.

A deploy is followed here from its lookup to the end of its record; what it does
under the lock is `Deploy`. There the convention is a constant set of admitted pairs
of a pair and a tag; here it changes while deploys run.

### StatsCache

The cache maps a set of slugs, or the key of the administrators, to counts and the
time they were stored. Of the counts the model keeps whose they are (`of`) and when
they were read. Lookup and eviction are one step under the mutex (`StatsHit`,
`StatsMiss`); the query and the store are a step each, so that misses overlap.

### History

A record is its `deployed_at`, and the table that of one query. `Count` and `Select`
are the two statements of a page; `NextPage` is the button of the page, which stops by
the total that came with the last answer. `late` counts the records added since that
total was read, `deleted` those a deploy took back.

### HelmRelease and Kustomization

A document is what is on the page: each scalar a text and a way of quoting it,
from which `StringNode` says what parsing makes of it. `DiscoverWorkloads`,
`ExtractCurrentTags`, `walkHelmReleasePath` and `PatchHelmRelease` follow the four
walks of the code over it. In `Kustomization` a document is its `images` entry, in
which a name may occur more than once. `applyImageUpdate` looks at the first entry of a
name only, so `PinsOneImage` says of the whole list that the image is pinned by the tag
alone where a name is listed at most once, and of repeated names that the later entries
still say what they said. What Kustomize makes of such a list (it applies every entry)
is outside the repository and not modelled.

### ImageTags

Versions are numbered in the order in which the registry lists them; a page token is
the last version of a page. `PushImage` adds a version at any place and may move a tag
to it. `settled` is what has not been touched since the client began. A version without
a tag is listed by its digest, and the filter looks at tags and digests alike
(`Prefixed`).

### CliSession

One action per access to the file or to the provider, and three for a call of the API:
`Call` sends it, `Serve` is the API, which carries it out and answers, and `Report` is
the command when it has an answer or waits no longer. A call on its way is kept in
`answer` apart from the command, so that it may be carried out when the command has given
up or was killed, also after its effect and before its report, or never. `refused` is any
other answer (400, 401, 403, 404). `OpenToken` empties
the file and `FillToken` writes it: in between another command reads nothing, writes
over it, or removes it (`inode` tells whether the open file is still the one that is
found). `Kill` ends a command anywhere, with or without a call on its way. A token is a login and two serial numbers;
`rotates` says whether the provider takes a refresh token more than once. Both
answers are considered, since the code does not depend on either.

### What is abstracted

A request stands for its actor. A connection closed by either side frees its lock
at once. A panic, and a server started without a gitops repository, are not
modelled. `UpdateOutcome` of a record that was deleted does not occur: only the
record's own handler deletes it.

## 3. The runs

| run | shows | instance |
|---|---|---|
| `lock_faults` | `MutualExclusion`, `NoLockLeak`, `HolderShown` | 3 requests on 2 replicas, 2 pairs, pools of 2, every fault |
| `lock_calls` | `ImplementsMutex`, `AtMostOneInFlight`, `OnlyFaultsLeaveRows`, `EveryCallReturns` | 3 requests on 2 replicas, 1 pair, pools of 1, disconnects and crashes |
| `lock_lost` | *violation* of `AtMostOneInFlight` when a session is lost | 2 requests |
| `writer` | `ImplementsLedger`, `ReplyTruth`, `EveryApplyReturns` | 2 calls, 2 cells, 1 foreign commit, lost replies and kills |
| `deploy_broken` | `SuccessMeansDeployed`, `ClosedRecordsStay`, types | 2 requests, 1 pair, 3 tags (one not admitted), lost sessions, database and network errors |
| `deploy_serial` | `HistoryAgreesWithGit`, `ConflictsComeFromElsewhere` | 2 requests, 2 pairs, 2 tags, 1 foreign commit, no fault |
| `deploy_live` | `AuditComplete`, `EnvironmentPinned`, `InProgressResolved`, `LockReleased` | 2 requests, pool of 3, disconnects and crashes |
| `status` | `FreshEnough`, `MonotoneReads`, `StaleServedOnce`, `EveryReadAnswered`, types | 3 requests, 1 source, time to live 2, fetch timeout 1 |
| `catalog` | `PathsAreDistinct`, `RecordsKeepTheirEnvironment`, `ProductionTagsConform`, `AcknowledgedStays`, `ListingsAgree`, `OnlyEditorsChange`, types | 3 concurrent requests out of 17 calls by 4 users; 3 products, 3 environments, 2 conventions, 2 tags |
| `portal` | `StatsAreRight`, `ScanMisses`, `ShownIsDeployable`, `DeployShows`, `PinsOneImage`, `ListIsWhole`, `TokenFileExplained`, `HonestReports`, types | six parts, one at a time; see below |
| `deploy_unplugged` | *violation* of `NilMeansNoCommit` when a client disconnects, once no handler works on the record | 2 requests |
| `deploy_pool` | *violation* of `LockReleased` when holders fill the pool | 2 requests, 2 pairs, pool of 2 |

Why the bounds are enough. What can go wrong in the lock takes two requests for
one pair and a third that competes with both for a connection or finds the row of
a predecessor; three requests on two replicas have all of these. A push can
conflict with one other commit, so two writers and a foreign committer are
enough to interleave everything that a call does between its clone and its push.
In `Deploy` every property relates one request to one other or to the sweep. A
pool with one connection, with exactly as many as there are holders, and with
more, are the three cases that differ. `MaxOutside` bounds the number of foreign
commits and, in `Deploy`, `ForeignText` what they write; `writer` lets them write
anything.

In `status` the three requests are an old fetch, a newer one, and a reader of both;
one source is enough because its properties speak of each source alone; the clock
runs to `MaxNow`, past the end of the first entry, and as long as a fetch lasts.

In `catalog` every property relates one request to what another does between its
statements; the third request is there for what neither expects (an archive between
a resolve and an insert, say). The users are an administrator, an editor whose token
also says viewer, an editor of another product, and nobody; the catalog has room for
one product and one environment more than it begins with, which a slug taken or an
id reused would need. A request that is done stays done, hence no deadlock check.

`portal` puts six parts that share no state into one run: the variable `part` says which
of them moves, the others stay in one initial state. The statistics cache has three
readers, two of which share a key while the third is an administrator with roles on
the same products, a time to live of 2 and queries of up to 1, and a clock that passes the end of an entry. The history
begins with three records and a page size of 2, so that the end of a page and the end
of the list differ, with stamps for records before, between and after them. The
documents are *all* those with two workloads and scalars of three texts (the empty one,
a word, a number); the image lists all those of up to three entries with two names. The
image list has three of five versions, two tags, a filter that matches one tag and two
digests, and page sizes below, at and beyond
the largest allowed. Each of the three commands is a login, a logout, a `product
list` whose flags are bad, or an `env create` with good or with bad flags, of which at most
`MaxBad` = 1 has bad ones, with a second login and one refresh of
each: a file torn by two writers and read by a third, and an environment that two
commands want while a third logs out, need no more. The reader comes to his
end and tokens run out, hence no deadlock check.

The runs under `Spec` use symmetry of the requests of one replica, of tags and of
pairs, of the requests in `catalog` and of the commands in `portal`; those that check
liveness use none. `TypeOK` of `DeploymentLock` and of `GitOpsWriter` is part of
`Deploy`'s and checked with it in `deploy_broken`.

Fairness. `DeploymentLock` and `Deploy` assume strong fairness of the steps that
may wait for a connection, because the pool serves waiters in their order, and of
the sweep, which shares that queue; weak fairness of the rest: a goroutine that
can run does. The git server answers a push that is waited for. Nothing is assumed
of clients, of crashes or of foreign committers. `catalog` and `portal` check safety and
state no fairness. `StatusCache` assumes that
goroutines run and that the clock does; a read of the git server need not return,
and the timeout alone ends it. `deploy_pool` states the same
fairness: the stuck handlers are disabled, not neglected. It switches off the
deadlock check because the system does stop there.

## 4. What disagrees with the documentation

* `lock_lost`. "Ensures at-most-one in-flight deployment per product-environment
  pair" holds only while no session is lost (theorem `AtMostOne`); what holds
  always is `Exclusion`. Said of the deployments themselves, it is `ApplyAlone`: as
  long as no session is lost, two calls of `Apply` for one pair never run at once.
  When one is lost, the gitops writer still loses no commit: `ImplementsLedger` and
  `DeploysAreWrites` do not depend on the lock.
* `deploy_unplugged`. A failure with a nil commit hash does not mean that no commit
  was made. The sweep may say so of a handler that is still at work, and the handler
  corrects it; the run therefore looks only at records nobody works on any more, and the
  trace shows a disconnect. Without one the property holds of the same instance. What holds is `SuccessMeansDeployed` and `AuditComplete`.
* `deploy_pool`. The default pool of pgx has max(4, CPUs) connections; that many
  simultaneous deploys of different pairs on one replica stop each other until
  their clients disconnect. With one connection to spare, `LockReleased` holds.
* The PRD asks for tags "with pagination and optional prefix/regex filtering" (FR-04,
  `src/docs/PRD.md:278`). The filter is a prefix, and a filtered list is the first page
  and no more; the comment at `src/internal/gcr/client.go:98` says so, and
  `FilterIsOnePage` what it means: a match beyond the first page is not shown.
* Three more, visible in the properties and without a run of their own: a row of
  `deployment_locks` outlives its holder after a crash, though `GetLockInfo`
  promises nil when no lock is held (`OnlyFaultsLeaveRows` says exactly when); the
  history is called immutable (FR-11), and a late handler replaces the sweep's
  failure by a success (`ClosedRecordsStay` says that nothing else is ever
  replaced); and holding the lock does not prevent non-fast-forward pushes, as the
  comment on `Apply` suggests (`ConflictsComeFromElsewhere` says where they come from).

## 5. What is proved

Every theorem is about the specification without fairness and for all values
of the constants: any number of requests, pairs, replicas, cells, tags and
foreign commits, any pool size, any set of faults, any function from pairs to
lock keys, tables, tokens and documents of any size. The assumptions are those the
modules name, and TLC evaluates each of them:

* `LockConstants`, `WriterConstants`, `DeployConstants`: `None` is none of the
  things it stands beside, a pool has at least one connection, clients ask for pairs,
  workloads and tags; `ForeignTextBound`, `NoneIsApart` likewise;
* `StatusConstants`, `StatsConstants`, `NoStatsIsNone`, `HistoryConstants`: times
  and bounds are numbers, the page size is positive, the table finite, and the key
  of the administrators is not a set of slugs. The last is what `ValidateSlug` gives:
  a token with a slug that was never valid is outside the model;
* `CatalogConstants`, `RealmIsNoSlug`, `StartIsConsistent`: the catalog the requests
  find obeys the keys of the database;
* `TextConstants`, `KustConstants`: the empty text is no tag and no number, `N/A` is
  not the tag of any workload;
* `TagConstants`, `CliConstants`, `FilesDiffer`: page sizes are numbers, the largest
  is positive, a tag is not the number of a version; there is a login, nobody is named
  `none`, and a missing, an emptied and a torn file are three things and no token.

**`DeploymentLockProofs`.** None of the properties is inductive. That two
holders exclude each other rests on what the other phases imply: the owner of an
advisory lock has an open session and is between its lock and its unlock; a request
that is past `try` with an open session owns the lock of its pair; and a row names a
request that inserted it. `LockInv` states these as named conjuncts; it is shown to
hold initially and to be kept by each action in turn (`LockInvariant`). From it
follow `TypeCorrect`, `NoLeak`, `HolderIsShown` and `Exclusion`, whatever faults
happen. With the additional assumption that `session` is not among the faults,
every holder has an open session; hence `AtMostOne`, and the refinement
`LockImplementsMutex`. `RowsExplained` needs an invariant of its own (`RowInv`),
which follows each row to the request that wrote it.

**`GitOpsWriterProofs`.** `GitInv` ties the branch to the calls: an entry made
by a call is later than its clone and makes the change it was asked for
(`Owned`), a push under way has not landed yet and its caller has not been told
anything but an error (`OnWire`), a call that was accepted finds its change on the
branch (`Told`), and a clone is a commit of the branch (`Based`). The hard step is
the one that moves the branch (`LandOk`): the push makes its change to the tree
that is at the tip *because* the server accepts it only from there. The lemma
`GrowthKeepsMade` says what a longer branch cannot take back. From `GitInv`
follow `TypeCorrect`, `RepliesAreTrue` and, step by step, that `Apply` implements
`TagLedger` (`LedgerImplemented`): a call takes effect when its push lands, and
everything it does before and after is invisible.

**`DeployProofs`.** `LockIsTheStore` shows `Spec => Lock!Spec`: seen through the
lock's variables the handler does nothing that the lock store does not. The theorems
of the two components are about the modules, not about their instances here, and the
prover cannot carry them over; so `DeployInv` states anew what it needs of the branch
(`Traced`, `Based`, `Owned`, `Told`) and adds what joins the three stores: a call of
Apply has a handler with a record and works for that handler's request (`Begun`,
`Open`, `Kept`), a record holds its environment (`Pinned`), and a success has its
change on the branch (`Succeeded`). Each group of steps keeps it by one lemma: steps of a
handler (`OneHandler`), of a call (`OneCall`), a commit (`OneCommit`). Hence
`TypeCorrect`, `AuditIsComplete`, `EnvironmentIsPinned`, `SuccessIsDeployed` and
`ClosedStay`, under every fault.

`DeploysAreWrites` is the refinement: through the table of tags at the tip of the
branch, all deploys of all replicas, with the other committers, are writes of
`TagLedger`, in which a request changes its own workload, at most once, and was told
the truth. It needs `WireSide`: a push under way has not landed and its caller was told
nothing but an error (`OnWire`), whose commit landed was not told otherwise
(`Informed`), and a request that has not called `Apply` wants nothing (`Unasked`). It
holds under every fault; the crash of a replica, which ends many calls in one step, is
a stutter of the table.

As long as no session is lost, `LockSide` holds: a request keeps its session from the
poll to the unlock and owns the advisory lock of its pair in between (`Sessions`), and
Apply runs only inside a handler that holds it (`Sought`, `Within`, `Runs`). Hence
`ApplyAlone` (`OneHolder`, for any `LockKey`: keys that collide only exclude more),
whoever disconnects or crashes. It speaks of calls that run: a push on its way when its
caller stopped may land while the next holder works, which is why the two theorems that
follow exclude disconnects and crashes (`Calm`).

If nothing but statements of the handler fails (`Faults \subseteq {"db"}`), `GitSide`
says that between a clone and its push only other pairs and outsiders commit, which gives
`ConflictsExplained`. With `Faults = {}`, `HistorySide` adds that the deploy under way is
the youngest of its pair (`Young`), that its clone shows its pair as the tip does
(`Same`), and that what it did is what the tip shows (`Shown`); by these the newest
success agrees with the branch when no deploy is under way (`Agrees`, `HistoryAgrees`).
A statement that fails may leave the record of a deploy that landed in progress, and the
sweep then calls it a failure: that theorem needs the stronger assumption.

**`StatusCacheProofs`.** `StatusInv` orders what the four places hold: no
answer is newer than the entry, the entry not newer than what a running fetch has
read, that not newer than the source (`Ordered`), which needs that one fetch runs
at a time (`OneFlight`); and it bounds how long before the deadline of a fetch what it
read may have been replaced (`Aged`). From it follow `ReadsAreMonotone`,
`StaleIsServedOnce` and the action property `AnswersAreFresh`, for any number of
requests and sources and any time to live and timeout (`StatusConstants`).

**`ReadsProofs`.** *Statistics.* `StatsInv` says that an entry is under the key of what
it counts and was stored at most a query after it was read (`EntriesAreOwn`), and the same
of a result on its way to the map (`ResultsAreOwn`). That a late writer may replace
a newer entry by an older one does not disturb it: the older one is old by a query
at most. `StatsHold` follows.

*History.* The place of a record is the cardinality of the set of newer
ones. An addition moves places down and skips nothing (`RankAfterAdd`); a deletion
moves them up by one (`RankAfterDelete`), so that at most one record, the one at the
end of what was shown, comes to be passed without being seen (`BeyondPlace`,
`FewerSkipped`). With what the last `COUNT` said (`CountHolds`) this bounds what a whole
reading misses (`ScansMissLittle`), for any page size and any table.

*Image tags.* A page is the versions between two page tokens (`PageIsInterval`), so
that, of what was not touched since the client began, all that lies behind the token has
been shown exactly once and nothing beyond it has been shown (`ShownOnce`). A filtered
list ends after its first page, before which it has shown nothing (`FilterStarts`).
`TagListIsWhole` follows, for any number of versions and any page size.

**`CatalogProofs`.** `CatInv` states the keys (`KeysHold`), and what a handler may
rely on of what it read earlier: a product once resolved keeps its row and its slug
(`ResolvedHolds`), an environment once read is unchanged or gone (`CheckedHolds`: ids are
not reused), a convention once read was in force while the request ran
(`ConventionsAreSeen`). From it follow the four invariants of the run. `ListsMatchTheGate` is about
`Access`: of the claims on one product the last counts in every place that reads them
(`LastClaimWins`). `QueriesAgree` shows that the join of the admin page counts every
environment once. `EditorsChange` is an action property: each statement that touches
a product is traced to a request that passed the gate (`StepTouches`, `ChangeHasAuthor`).

**`HelmReleaseProofs`.** What a patch does to a document (`PatchIsDocument`,
`PatchReads`), for all documents; from it that readers agree, that what is shown can
be deployed, and that a deploy shows what was asked for. For kustomization images, the
first entry of a name is the least position that has it (`LeastNumber`), and an update
pins it and touches no other entry, of this name or another (`UpdatesPin`).

**`PortalProofs`.** `TokenFileExplained` is the conjunction of three statements, and each
needs an invariant of its own. That no command is left with a token the provider no
longer takes (`TokensInvariant`) rests, if the provider rotates, on `OneHeir`: whoever is
about to write a token holds the newest of its login, the file and every other command
an older one; and on there being none newer than those given out (`NoneAhead`). If it does
not rotate, there is but one of each login (`KeptTokens`). That a
torn file has two writers or a killed one behind it (`FileInvariant`) rests on
`FillersKnown`: two commands that have the same file open, or one whose open file
another has filled, have been seen to overlap. And that the last login or logout
decides whose token is in the file (`OwnerInvariant`) on `WritersOfOwner`: as long as
nothing was contested, who writes and is no login itself writes for the owner. Each step of a command is either one
of the few that touch what the invariant speaks of or leaves it alone (`Calm`, `Apart`,
`Bystander`). For `ReportsAreHonest` the invariant (`ReportSide`) follows the call. Of every
command (`Quiet`): it says nothing before it ends, and one whose call is still on its way
waits, has failed or was killed. Of `env create` (`Truthful`): the flags were looked at
before the call, the environment is its own only when its call has arrived, and the answer
that waits for it is so. Hence a call that is served late, for a command that has ended
(`ServeKeeps`), contradicts nothing it has said. Finally `PartsKeepTheirSpecs` shows that each part,
seen through its own variables, obeys its own specification while the others move, so
that what is proved of each holds of the whole (`PortalTypes`, `PortalIsSafe`).

Every safety property of a run that passes is thus stated by a theorem. Only
model-checked: liveness (`EveryCallReturns`, `EveryApplyReturns`, `InProgressResolved`,
`LockReleased`, `EveryReadAnswered`), which rests on fairness and is out of the prover's
reach; and the three violations, which are counterexamples.

## 6. Not modelled, and what could follow

Not modelled:

* the web client, beyond the button that ends a history and the filter that ends a
  tag list. The hazard met there, answers of `listTags` applied in the order they
  arrive, is listed in `PROJECT.json`;
* running the migrations, configuration, start-up, shutdown and static files: they
  happen before, after or beside the requests and keep no state of their own (the
  constraints that the migrations create are in the actions that meet them);
* panics, one of which ends the goroutine of the sweep for good (a hazard without a
  property);
* a git server that never answers (`EveryApplyReturns` assumes that it does);
* how lines are cut and bytes replaced in `patch.go` and `helmrelease_patch.go`; the
  model has the nodes they change;
* signatures and expiry of tokens, which a library checks; the parsing of names of
  repositories; what commands and pages print; wording.

What could follow: the deploy dialog as a component beside `ImageTags`, so that the
hazard listed for it has a property; and what `Apply` told, carried into the record of
the deploy (`RepliesAreTrue` is proved of the writer alone, the record's side is
`SuccessIsDeployed`).
