------------------------------- MODULE Catalog -------------------------------
(***************************************************************************)
(* The catalog: products, their environments, their tag conventions, and   *)
(* the deployments recorded for them, under requests of several users      *)
(* (handlers/products.go, environments.go, tag_convention.go, the first    *)
(* half of deploy.go, and the stores they call).                           *)
(*                                                                         *)
(* Every statement is a transaction of its own.  A handler of two or more  *)
(* statements keeps in memory what the first said, and other requests run  *)
(* between them: the product may be archived, its convention changed, the  *)
(* environment deleted.  PostgreSQL enforces the unique slugs and names    *)
(* and the foreign keys (migrations 1, 3, 6 and 9); nothing else does.     *)
(*                                                                         *)
(* Outside this module: the lock a deploy holds from its convention check  *)
(* to its end (DeploymentLock), what Apply does (GitOpsWriter), and the    *)
(* fate of the record (Deploy).  Names, descriptions and dates of products *)
(* are left out, but for one name that an update changes.                  *)
(***************************************************************************)
EXTENDS Access, FiniteSets

CONSTANTS
    Request, ProductId, EnvId,
    Name,           \* names of products
    EnvBody,        \* what POST environments may ask for: [name, slug, type]
    Pattern,        \* tag conventions that compile, as stored
    Tag, Matches,   \* image tags, and the pairs of a pattern and a tag it matches
    Default,        \* TAG_CONVENTION_DEFAULT: a pattern, BadPattern, or None
    BadPattern,     \* a pattern that does not compile
    Users,          \* the claims of the users, in the order of their tokens
    StartProducts, StartEnvs,   \* the catalog when the requests arrive
    Asked,          \* the calls the users make
    None

ProductRow == [slug : Slug, name : Name, archived : BOOLEAN, pattern : Pattern \cup {None}]
EnvRow == [product : ProductId, name : {b.name : b \in EnvBody},
           slug : {b.slug : b \in EnvBody}, type : {"dev", "production"}]
Record == [product : ProductId, env : EnvId, tag : Tag]

EnvOps == {"createEnvironment", "deleteEnvironment", "deploy"}

\* What a request asks for.  "body" is what reading the body gives: "ok", or
\* the code of the refusal; a request without a body has nothing to refuse.
Asking(ops, bodies, args) ==
    [op : ops, who : Users \cup {None}, slug : Slug, body : bodies, arg : args]
Call == Asking({"createProduct", "updateProduct"}, {"ok", "400", "422"}, Name)
    \cup Asking({"putConvention"}, {"ok", "400", "422"}, Pattern)
    \cup Asking({"archiveProduct", "deleteConvention"}, {"ok"}, {None})
    \cup Asking({"createEnvironment"}, {"ok", "400", "422"}, EnvBody)
    \cup Asking({"deleteEnvironment"}, {"ok"}, EnvId)
    \cup Asking({"deploy"}, {"ok", "400", "422"}, EnvId \X Tag)

Codes == {"200", "201", "202", "204", "400", "401", "403", "404", "409", "422", "500", "503"}

ASSUME CatalogConstants ==
    /\ IsFiniteSet(Request)
    /\ Users \subseteq Seq(Claim)
    /\ Asked \subseteq Call
    /\ \A b \in EnvBody : b.type \in {"dev", "production"}
    /\ Matches \subseteq Pattern \X Tag
    /\ Default \in Pattern \cup {BadPattern, None}
    /\ BadPattern \notin Pattern
    /\ None \notin Pattern \cup {BadPattern} \cup ProductRow \cup EnvRow \cup Record
                   \cup Call \cup Users \cup Codes \cup ProductId \cup EnvId \cup Request
    /\ \A S \in SUBSET Slug : None # S

\* The catalog the requests find is one earlier requests may have left.
ASSUME StartIsConsistent ==
    /\ StartProducts \in [ProductId -> ProductRow \cup {None}]
    /\ StartEnvs \in [EnvId -> EnvRow \cup {None}]
    /\ \A p, q \in ProductId :
           StartProducts[p] # None /\ StartProducts[q] # None /\ p # q
              => StartProducts[p].slug # StartProducts[q].slug
    /\ \A e \in EnvId : StartEnvs[e] # None => StartProducts[StartEnvs[e].product] # None
    /\ \A e, f \in EnvId :
           StartEnvs[e] # None /\ StartEnvs[f] # None /\ e # f
              /\ StartEnvs[e].product = StartEnvs[f].product
              => StartEnvs[e].slug # StartEnvs[f].slug /\ StartEnvs[e].name # StartEnvs[f].name

VARIABLES
    products, envs,     \* the tables, by primary key
    records,            \* deployments, each under the request that made it
    spent,              \* environment ids ever given out: a UUID is not reused
    at,                 \* where each request's handler stands
    call,               \* what it was asked
    got,                \* the rows its first statements returned
    answer,             \* the code it sent
    inForce,            \* history: the conventions its product has had while it ran
    closed              \* history: the products archived before it was sent

catVars == <<products, envs, records, spent, at, call, got, answer, inForce, closed>>

Phases == {"idle", "sent", "resolved", "checked", "recorded", "done"}

TypeOK ==
    /\ products \in [ProductId -> ProductRow \cup {None}]
    /\ envs \in [EnvId -> EnvRow \cup {None}]
    /\ records \in [Request -> Record \cup {None}]
    /\ spent \subseteq EnvId
    /\ at \in [Request -> Phases]
    /\ call \in [Request -> Call \cup {None}]
    /\ got \in [Request -> [product : ProductId \cup {None}, row : ProductRow \cup {None},
                            env : EnvRow \cup {None}]]
    /\ answer \in [Request -> Codes \cup {None}]
    /\ inForce \in [Request -> SUBSET (Pattern \cup {BadPattern, None})]
    /\ closed \in [Request -> SUBSET ProductId]

Nothing == [product |-> None, row |-> None, env |-> None]

Init ==
    /\ products = StartProducts
    /\ envs = StartEnvs
    /\ records = [r \in Request |-> None]
    /\ spent = {e \in EnvId : StartEnvs[e] # None}
    /\ at = [r \in Request |-> "idle"]
    /\ call = [r \in Request |-> None]
    /\ got = [r \in Request |-> Nothing]
    /\ answer = [r \in Request |-> None]
    /\ inForce = [r \in Request |-> {}]
    /\ closed = [r \in Request |-> {}]

Rows == {p \in ProductId : products[p] # None}
Active == {p \in Rows : ~products[p].archived}
Envs == {e \in EnvId : envs[e] # None}
EnvsOf(p) == {e \in Envs : envs[e].product = p}
RecordsOf(p) == {r \in Request : records[r] # None /\ records[r].product = p}

\* The rows a statement with WHERE slug = ... finds.
Named(s) == {p \in Rows : products[p].slug = s}
ActiveNamed(s) == Named(s) \cap Active

(***************************************************************************)
(* A request, up to its first statement                                    *)
(***************************************************************************)

Step(r, p) == at' = [at EXCEPT ![r] = p]

\* The handler ends, with one of these codes.
Reply(r, codes) ==
    /\ Step(r, "done")
    /\ \E c \in codes : answer' = [answer EXCEPT ![r] = c]

\* When the connection breaks after a statement has been carried out the
\* handler sees an error all the same.
Unsure(code) == {code, "500"}

Effective(row) == IF row.pattern # None THEN row.pattern ELSE Default

Send(r, c) ==
    /\ at[r] = "idle"
    /\ Step(r, "sent")
    /\ call' = [call EXCEPT ![r] = c]
    /\ inForce' = [inForce EXCEPT ![r] = {Effective(products[p]) : p \in Named(c.slug)}]
    /\ closed' = [closed EXCEPT ![r] = Rows \ Active]
    /\ UNCHANGED <<products, envs, records, spent, got, answer>>

\* What the route of a call requires.
Need(op) == IF op = "createProduct" THEN "admin" ELSE "editor"

\* JWTAuth, the middleware of the route, and the check of the handler.
Gate(c) ==
    IF c.who = None THEN "401"
    ELSE LET id == extractRoles(c.who)
             mw == IF Need(c.op) = "admin" THEN RequireAdmin(id)
                   ELSE RequireRole(id, c.slug, Need(c.op)) IN
         IF mw # "pass" \/ c.op = "createProduct" THEN mw
         ELSE checkProductAccess(id, c.slug)

Unchanged == UNCHANGED <<products, envs, records, spent, call, inForce, closed>>

Refuse(r) ==
    /\ at[r] = "sent"
    /\ Gate(call[r]) # "pass"
    /\ Reply(r, {Gate(call[r])})
    /\ UNCHANGED got
    /\ Unchanged

\* POST environments reads its body after it has resolved the product, the
\* other handlers before.
BodyRead(r) == IF call[r].op = "createEnvironment" THEN "resolved" ELSE "sent"

Invalid(r) ==
    /\ at[r] \in {"sent", "resolved"} /\ at[r] = BodyRead(r)
    /\ Gate(call[r]) = "pass"
    /\ call[r].body # "ok"
    /\ Reply(r, {call[r].body})
    /\ UNCHANGED got
    /\ Unchanged

\* A statement fails, and is not carried out.
Fail(r) ==
    /\ at[r] \in {"sent", "resolved", "checked"}
    /\ Gate(call[r]) = "pass"
    /\ at[r] = BodyRead(r) => call[r].body = "ok"
    /\ Reply(r, {"500"})
    /\ UNCHANGED got
    /\ Unchanged

Serving(r, ops) ==
    /\ at[r] = "sent" /\ call[r].op \in ops
    /\ Gate(call[r]) = "pass"
    /\ at[r] = BodyRead(r) => call[r].body = "ok"

(***************************************************************************)
(* Handlers of one statement                                               *)
(***************************************************************************)

\* Bug: the slug of an archived product is free again.
SlugTakenByActive(s) == ActiveNamed(s) # {}

\* INSERT: the slug is unique among all products, the archived ones included.
SlugTaken(s) == Named(s) # {}

\* The conventions of the products a request in progress is about, after a
\* statement.
Observe ==
    inForce' = [q \in Request |-> inForce[q] \cup
        IF at[q] \in {"idle", "done"} THEN {}
        ELSE {Effective(products'[p]) : p \in {n \in ProductId :
                  products'[n] # None /\ products'[n].slug = call[q].slug}}]

CreateProduct(r) ==
    /\ Serving(r, {"createProduct"})
    /\ \/ /\ SlugTaken(call[r].slug)
          /\ Reply(r, {"409"})
          /\ UNCHANGED products
       \/ /\ ~SlugTaken(call[r].slug)
          /\ \E p \in ProductId \ Rows :
                products' = [products EXCEPT ![p] =
                    [slug |-> call[r].slug, name |-> call[r].arg,
                     archived |-> FALSE, pattern |-> None]]
          /\ Reply(r, Unsure("201"))
    /\ Observe
    /\ UNCHANGED <<envs, records, spent, call, got, closed>>

\* Bug: a cleared convention is stored as an empty string.
EditedToEmpty(row, c) ==
    CASE c.op = "updateProduct"    -> [row EXCEPT !.name = c.arg]
      [] c.op = "archiveProduct"   -> [row EXCEPT !.archived = TRUE]
      [] c.op = "putConvention"    -> [row EXCEPT !.pattern = c.arg]
      [] c.op = "deleteConvention" -> [row EXCEPT !.pattern = ""]

\* The row an UPDATE of the operation leaves.
Edited(row, c) ==
    CASE c.op = "updateProduct"    -> [row EXCEPT !.name = c.arg]
      [] c.op = "archiveProduct"   -> [row EXCEPT !.archived = TRUE]
      [] c.op = "putConvention"    -> [row EXCEPT !.pattern = c.arg]
      [] c.op = "deleteConvention" -> [row EXCEPT !.pattern = None]

\* The rows the UPDATE applies to: WHERE slug = ... AND archived_at IS NULL.
Editable(c) == ActiveNamed(c.slug)

\* One UPDATE, of no row or of one.
Edit(r, op, done) ==
    /\ Serving(r, {op})
    /\ products' = [p \in ProductId |-> IF p \in Editable(call[r])
                                        THEN Edited(products[p], call[r]) ELSE products[p]]
    /\ Reply(r, IF Editable(call[r]) = {} THEN {"404"} ELSE Unsure(done))
    /\ Observe
    /\ UNCHANGED <<envs, records, spent, call, got, closed>>

UpdateProduct(r) == Edit(r, "updateProduct", "200")

ArchiveProduct(r) == Edit(r, "archiveProduct", "204")

PutTagConvention(r) == Edit(r, "putConvention", "200")

DeleteTagConvention(r) == Edit(r, "deleteConvention", "204")

(***************************************************************************)
(* Handlers that resolve the product first                                 *)
(***************************************************************************)

\* GetBySlug; an archived product is answered for as one that does not exist.
Resolvable(s) == {p \in Named(s) : ~products[p].archived}

resolveProduct(r) ==
    /\ Serving(r, EnvOps)
    /\ \/ /\ Resolvable(call[r].slug) = {}
          /\ Reply(r, {"404"})
          /\ UNCHANGED got
       \/ /\ Step(r, "resolved")
          /\ \E p \in Resolvable(call[r].slug) :
                 got' = [got EXCEPT ![r] =
                     [product |-> p, row |-> products[p], env |-> None]]
          /\ UNCHANGED answer
    /\ Unchanged

\* Bug: the slugs of environments are not unique.
ConflictsByName(p, b) == {e \in EnvsOf(p) : envs[e].name = b.name}

\* The unique keys of environments: (product, name) and (product, slug).
Conflicts(p, b) == {e \in EnvsOf(p) : envs[e].name = b.name \/ envs[e].slug = b.slug}

CreateEnvironment(r) ==
    /\ at[r] = "resolved" /\ call[r].op = "createEnvironment" /\ call[r].body = "ok"
    /\ \/ /\ Conflicts(got[r].product, call[r].arg) # {}
          /\ Reply(r, {"409"})
          /\ UNCHANGED <<envs, spent>>
       \/ /\ Conflicts(got[r].product, call[r].arg) = {}
          /\ \E e \in EnvId \ spent :
                /\ envs' = [envs EXCEPT ![e] =
                      [product |-> got[r].product, name |-> call[r].arg.name,
                       slug |-> call[r].arg.slug, type |-> call[r].arg.type]]
                /\ spent' = spent \cup {e}
          /\ Reply(r, Unsure("201"))
    /\ UNCHANGED <<products, records, call, got, inForce, closed>>

\* Bug: the statement does not ask for the product.
EnvNamedAnywhere(p, e) == e \in Envs

\* WHERE product_id = ... AND id = ...
EnvNamed(p, e) == e \in EnvsOf(p)

\* Bug: only deployments in progress keep their environment.
HasRunningDeployments(e) ==
    \E r \in Request : records[r] # None /\ records[r].env = e /\ at[r] = "recorded"

\* A foreign key keeps an environment that has deployments.
HasDeployments(e) == \E r \in Request : records[r] # None /\ records[r].env = e

DeleteEnvironment(r) ==
    LET e == call[r].arg IN
    /\ at[r] = "resolved" /\ call[r].op = "deleteEnvironment"
    /\ \/ /\ ~EnvNamed(got[r].product, e)
          /\ Reply(r, {"404"})
          /\ UNCHANGED envs
       \/ /\ EnvNamed(got[r].product, e)
          /\ HasDeployments(e)
          /\ Reply(r, {"409"})
          /\ UNCHANGED envs
       \/ /\ EnvNamed(got[r].product, e)
          /\ ~HasDeployments(e)
          /\ envs' = [envs EXCEPT ![e] = None]
          /\ Reply(r, Unsure("204"))
    /\ UNCHANGED <<products, records, spent, call, got, inForce, closed>>

(***************************************************************************)
(* Deploy, as far as the catalog is concerned                              *)
(***************************************************************************)

\* Bug: a product without a convention of its own is not checked.
CheckOwnConvention(tag, type, row) ==
    IF type # "production" \/ row.pattern = None THEN "pass"
    ELSE IF <<row.pattern, tag>> \in Matches THEN "pass" ELSE "422"

CheckTagConvention(tag, type, row) ==
    IF type # "production" \/ Effective(row) = None THEN "pass"
    ELSE IF Effective(row) = BadPattern THEN "500"
    ELSE IF <<Effective(row), tag>> \in Matches THEN "pass" ELSE "422"

\* The environment is read, and the tag is checked against the convention
\* that was read with the product.
ResolveEnv(r) ==
    LET e == call[r].arg[1]
        verdict == CheckTagConvention(call[r].arg[2], envs[e].type, got[r].row) IN
    /\ at[r] = "resolved" /\ call[r].op = "deploy"
    /\ \/ /\ ~EnvNamed(got[r].product, e)
          /\ Reply(r, {"404"})
          /\ UNCHANGED got
       \/ /\ EnvNamed(got[r].product, e) /\ verdict # "pass"
          /\ Reply(r, {verdict})
          /\ UNCHANGED got
       \/ /\ EnvNamed(got[r].product, e) /\ verdict = "pass"
          /\ Step(r, "checked")
          /\ got' = [got EXCEPT ![r].env = envs[e]]
          /\ UNCHANGED answer
    /\ Unchanged

\* The lock is not had.
Locked(r) ==
    /\ at[r] = "checked"
    /\ Reply(r, {"409"})
    /\ UNCHANGED got
    /\ Unchanged

\* INSERT INTO deployments, in_progress: the environment must still be there.
RecordDeploy(r) ==
    LET e == call[r].arg[1] IN
    /\ at[r] = "checked"
    /\ e \in Envs
    /\ records' = [records EXCEPT ![r] =
            [product |-> got[r].product, env |-> e, tag |-> call[r].arg[2]]]
    /\ \/ Step(r, "recorded") /\ UNCHANGED answer
       \/ Reply(r, {"500"})
    /\ UNCHANGED <<products, envs, spent, call, got, inForce, closed>>

\* Apply ends.  A deploy that could not begin takes its record back, unless
\* the DELETE fails.
Conclude(r) ==
    /\ at[r] = "recorded"
    /\ \/ /\ Reply(r, {"202", "500"})
          /\ UNCHANGED records
       \/ /\ Reply(r, {"422", "503"})
          /\ records' \in {records, [records EXCEPT ![r] = None]}
    /\ UNCHANGED <<products, envs, spent, call, got, inForce, closed>>

Handle(r) ==
    \/ Refuse(r) \/ Invalid(r) \/ Fail(r)
    \/ CreateProduct(r) \/ UpdateProduct(r) \/ ArchiveProduct(r)
    \/ PutTagConvention(r) \/ DeleteTagConvention(r)
    \/ resolveProduct(r) \/ CreateEnvironment(r) \/ DeleteEnvironment(r)
    \/ ResolveEnv(r) \/ Locked(r) \/ RecordDeploy(r) \/ Conclude(r)

Next == \E r \in Request : Handle(r) \/ \E c \in Asked : Send(r, c)

Spec == Init /\ [][Next]_catVars

(***************************************************************************)
(* What the read-only routes answer, each from one statement               *)
(***************************************************************************)

\* GET /products: nil for an admin, else the slugs the caller has a role on.
SlugAllowlist(id) == IF id.admin THEN None ELSE DOMAIN id.roles

\* Bug: an empty allowlist is taken for none.
ListUnlessEmpty(allow, includeArchived) ==
    {p \in Rows : /\ includeArchived \/ ~products[p].archived
                  /\ allow \in {None, {}} \/ products[p].slug \in allow}

\* An empty allowlist lists nothing; only its absence lists everything.
List(allow, includeArchived) ==
    {p \in Rows : /\ includeArchived \/ ~products[p].archived
                  /\ allow = None \/ products[p].slug \in allow}

MyRole(id, slug) ==
    CASE id.admin -> "admin"
      [] ~id.admin /\ slug \in DOMAIN id.roles -> id.roles[slug]
      [] OTHER -> "none"

\* GET /admin/products: products, LEFT JOIN environments, LEFT JOIN deployments.
OrNull(S) == IF S = {} THEN {None} ELSE S
Joined(p) == OrNull(EnvsOf(p)) \X OrNull(RecordsOf(p))

\* Bug: COUNT(e.id), without DISTINCT.
CountRows(rows) == Cardinality({row \in rows : row[1] # None})

\* COUNT(DISTINCT e.id): the rows of the join, by their environment.
CountEnvs(rows) == Cardinality({row[1] : row \in rows} \ {None})

ListWithStats ==
    [p \in Active |-> [envs |-> CountEnvs(Joined(p)),
                       deployed |-> \E row \in Joined(p) : row[2] # None]]

\* GET /stats: the deployments of the model are of the last day.
GetStats(allow) ==
    LET acc == List(allow, FALSE) IN
    [products |-> Cardinality(acc),
     envs |-> Cardinality({e \in Envs : envs[e].product \in acc}),
     deployments |-> Cardinality({r \in Request :
                         records[r] # None /\ records[r].product \in acc})]

(***************************************************************************)
(* Properties                                                              *)
(***************************************************************************)

\* No two environments share the file of their HelmRelease, whose path is made
\* of the two slugs (HelmReleasePath): deploys to one would change the other.
\* That needs the slugs of archived products to stay taken.
PathsAreDistinct ==
    \A e, f \in Envs :
        e # f => <<envs[e].slug, products[envs[e].product].slug>>
                    # <<envs[f].slug, products[envs[f].product].slug>>

\* A recorded deployment keeps its environment, unchanged since the deploy read
\* it, and the two are of one product, however deletions and deploys interleave.
RecordsKeepTheirEnvironment ==
    \A r \in Request : records[r] # None =>
        /\ records[r].env \in Envs
        /\ envs[records[r].env] = got[r].env
        /\ got[r].env.product = records[r].product
        /\ records[r].product \in Rows

\* What a deploy recorded for a production environment matches a convention
\* its product had, or it had none, at some time while the deploy ran.  The
\* convention at the time of the commit may be another: it is read before the
\* lock is taken.
ProductionTagsConform ==
    \A r \in Request :
        records[r] # None /\ got[r].env.type = "production"
            => \E c \in inForce[r] : c = None \/ <<c, records[r].tag>> \in Matches

\* An archive or a deletion that was acknowledged is final: the slug leads to
\* no product any more, the environment does not come back.
AcknowledgedStays ==
    \A r \in Request : at[r] = "done" /\ answer[r] = "204" =>
        /\ call[r].op = "archiveProduct" => ActiveNamed(call[r].slug) = {}
        /\ call[r].op = "deleteEnvironment" => call[r].arg \notin Envs

\* GET /products shows a caller the active products whose routes let him in,
\* with a role that says whether he may change them: the list and the
\* middleware read the roles in ways of their own.
ListingMatchesGate ==
    \A u \in Users : LET id == extractRoles(u) IN
        \A p \in Active : LET s == products[p].slug IN
            /\ p \in List(SlugAllowlist(id), FALSE) <=> RequireRole(id, s, "viewer") = "pass"
            /\ MyRole(id, s) \in {"editor", "admin"} <=> RequireRole(id, s, "editor") = "pass"

\* The admin page, the home page and the list of products are three queries
\* over the same tables; what they say of a product agrees.
PagesAgree ==
    /\ GetStats(None).products = Cardinality(DOMAIN ListWithStats)
    /\ \A p \in Active :
          LET one == GetStats({products[p].slug}) IN
          /\ one.products = 1
          /\ one.envs = ListWithStats[p].envs
          /\ one.deployments > 0 <=> ListWithStats[p].deployed

\* The read-only routes, each with a query of its own, agree with one another
\* and with what the caller may do.
ListingsAgree == ListingMatchesGate /\ PagesAgree

\* Who may change a product, by his token: an admin, or an editor by the last
\* claim on its slug.
MayEdit(claims, slug) ==
    \/ \E i \in DOMAIN claims : claims[i] = [slug |-> Realm, role |-> "devops-admin"]
    \/ \E i \in DOMAIN claims :
          /\ claims[i] = [slug |-> slug, role |-> "editor"]
          /\ \A j \in DOMAIN claims : j > i => claims[j] # [slug |-> slug, role |-> "viewer"]

\* A step changes something of a product: its row, an environment, a record.
Touches(p) ==
    \/ products'[p] # products[p]
    \/ \E e \in EnvId : envs'[e] # envs[e] /\ (e \in EnvsOf(p) \/ e \in EnvsOf(p)')
    \/ \E r \in Request : records'[r] # records[r]
                            /\ (r \in RecordsOf(p) \/ r \in RecordsOf(p)')

\* Whatever identifiers a request names and however it interleaves with others,
\* only somebody who may edit a product changes it or what belongs to it, and
\* only with a request sent before the product was archived: an archived product
\* is closed to those that come later.
OnlyEditorsChange ==
    [][\A p \in ProductId : Touches(p) =>
          \E r \in Request : /\ at'[r] # at[r] /\ call[r].who # None
                            /\ MayEdit(call[r].who, products'[p].slug)
                            /\ p \notin closed[r]]_catVars
=============================================================================
