---------------------------- MODULE CatalogProofs ----------------------------
(***************************************************************************)
(* Theorems about Catalog and Access, for all users, calls, numbers of     *)
(* concurrent requests and sizes of the tables.                            *)
(***************************************************************************)
EXTENDS Catalog, FiniteSetTheorems, WellFoundedInduction, TLAPS

(***************************************************************************)
(* The inductive invariant                                                 *)
(***************************************************************************)

Holding == {"resolved", "checked", "recorded"}

\* Who is past the gate was let through it, and by the routes of its handler.
CallsAreLet ==
    /\ \A r \in Request : at[r] # "idle" => call[r] \in Call
    /\ \A r \in Request : at[r] \in Holding =>
          call[r].op \in EnvOps /\ Gate(call[r]) = "pass"

\* The unique keys and the foreign key of the catalog.
KeysHold ==
    /\ \A p, q \in Rows : p # q => products[p].slug # products[q].slug
    /\ \A e \in Envs : envs[e].product \in Rows
    /\ \A e, f \in Envs : e # f /\ envs[e].product = envs[f].product =>
          envs[e].slug # envs[f].slug /\ envs[e].name # envs[f].name
    /\ Envs \subseteq spent

\* An archived product stays: who was sent after it was archived finds it so.
ClosedAreArchived ==
    \A r \in Request : \A p \in closed[r] : p \in Rows /\ products[p].archived

\* The conventions in force are observed while a request runs.
ConventionsAreSeen ==
    \A r \in Request : at[r] \notin {"idle", "done"} =>
        \A p \in Named(call[r].slug) : Effective(products[p]) \in inForce[r]

\* What a request has resolved is the product it named, which was open.
ResolvedHolds ==
    \A r \in Request : at[r] \in Holding \/ records[r] # None =>
        /\ got[r].product \in Rows \ closed[r]
        /\ products[got[r].product].slug = call[r].slug
        /\ got[r].row \in ProductRow
        /\ Effective(got[r].row) \in inForce[r]

\* What a deploy has checked is its environment, which is as it was or gone.
CheckedHolds ==
    \A r \in Request : at[r] = "checked" \/ records[r] # None =>
        /\ call[r].op = "deploy"
        /\ call[r].arg[1] \in spent
        /\ call[r].arg[1] \in Envs => envs[call[r].arg[1]] = got[r].env
        /\ got[r].env \in EnvRow
        /\ got[r].env.product = got[r].product
        /\ CheckTagConvention(call[r].arg[2], got[r].env.type, got[r].row) = "pass"

\* A record says what its request asked for, and holds its environment.
RecordsHold ==
    /\ \A r \in Request : at[r] = "recorded" => call[r].op = "deploy"
    /\ \A r \in Request : records[r] # None =>
          /\ at[r] \in {"recorded", "done"}
          /\ records[r].product = got[r].product
          /\ records[r].env = call[r].arg[1]
          /\ records[r].tag = call[r].arg[2]
          /\ call[r].arg[1] \in Envs

\* What was acknowledged cannot be undone: the slug stays taken, the id spent.
AcksHold ==
    \A r \in Request : at[r] = "done" /\ answer[r] = "204" =>
        /\ call[r].op = "archiveProduct" =>
              Named(call[r].slug) # {} /\ ActiveNamed(call[r].slug) = {}
        /\ call[r].op = "deleteEnvironment" => call[r].arg \in spent \ Envs

CatInv ==
    /\ TypeOK
    /\ CallsAreLet
    /\ KeysHold
    /\ ClosedAreArchived
    /\ ConventionsAreSeen
    /\ ResolvedHolds
    /\ CheckedHolds
    /\ RecordsHold
    /\ AcksHold

(***************************************************************************)
(* Types                                                                   *)
(***************************************************************************)

\* What each operation is called with.
LEMMA CallTypes ==
    ASSUME NEW c \in Call
    PROVE  /\ c.slug \in Slug /\ c.who \in Users \cup {None}
           /\ c.body \in {"ok", "400", "422"}
           /\ c.op \in {"createProduct", "updateProduct"} => c.arg \in Name
           /\ c.op = "putConvention" => c.arg \in Pattern
           /\ c.op = "createEnvironment" => c.arg \in EnvBody
           /\ c.op = "deleteEnvironment" => c.arg \in EnvId
           /\ c.op = "deploy" => c.arg \in EnvId \X Tag
  BY DEF Call, Asking

LEMMA BodyTypes ==
    ASSUME NEW b \in EnvBody
    PROVE  /\ b.name \in {d.name : d \in EnvBody} /\ b.slug \in {d.slug : d \in EnvBody}
           /\ b.type \in {"dev", "production"}
  BY CatalogConstants

LEMMA GateCodes ==
    ASSUME NEW c \in Call
    PROVE  Gate(c) \in {"pass", "401", "403", "404"}
  BY DEF Gate, RequireAdmin, RequireRole, checkProductAccess

LEMMA CatInitKeeps == Init => CatInv
<1> SUFFICES ASSUME Init PROVE CatInv
  OBVIOUS
<1>1. TypeOK
  BY StartIsConsistent DEF Init, TypeOK, Phases, Nothing
<1>2. CallsAreLet /\ ClosedAreArchived /\ ConventionsAreSeen /\ AcksHold
  BY DEF Init, CallsAreLet, ClosedAreArchived, ConventionsAreSeen, AcksHold, Holding
<1>3. KeysHold
  <2>1. \A e \in Envs : envs[e] \in EnvRow /\ envs[e].product \in ProductId
    BY <1>1 DEF TypeOK, Envs, EnvRow
  <2>2. \A p, q \in Rows : p # q => products[p].slug # products[q].slug
    BY StartIsConsistent DEF Init, Rows
  <2>3. \A e \in Envs : envs[e].product \in Rows
    BY <2>1, StartIsConsistent DEF Init, Rows, Envs
  <2>4. \A e, f \in Envs : e # f /\ envs[e].product = envs[f].product =>
          envs[e].slug # envs[f].slug /\ envs[e].name # envs[f].name
    BY StartIsConsistent DEF Init, Envs
  <2>5. Envs \subseteq spent
    BY DEF Init, Envs
  <2> QED
    BY <2>2, <2>3, <2>4, <2>5 DEF KeysHold
<1>4. ResolvedHolds /\ CheckedHolds /\ RecordsHold
  BY DEF Init, ResolvedHolds, CheckedHolds, RecordsHold, Holding
<1> QED
  BY <1>1, <1>2, <1>3, <1>4 DEF CatInv

(***************************************************************************)
(* Actions that leave the tables alone                                     *)
(***************************************************************************)

\* A request that ends with anything but a 204 leaves nothing to answer for.
LEMMA EndKeeps ==
    ASSUME CatInv, NEW r \in Request, NEW codes \in SUBSET (Codes \ {"204"}),
           at[r] # "idle", records[r] = None, Reply(r, codes), UNCHANGED got, Unchanged
    PROVE  CatInv'
<1> USE DEF Reply, Step, Unchanged
<1>1. TypeOK'
  BY DEF CatInv, TypeOK, Phases
<1>2. CallsAreLet' /\ KeysHold' /\ ClosedAreArchived'
  BY DEF CatInv, TypeOK, CallsAreLet, KeysHold, ClosedAreArchived, Rows, Envs, Holding
<1>3. ConventionsAreSeen'
  BY DEF CatInv, TypeOK, ConventionsAreSeen, Named, Rows
<1>4. ResolvedHolds' /\ CheckedHolds' /\ RecordsHold'
  BY DEF CatInv, TypeOK, ResolvedHolds, CheckedHolds, RecordsHold, Rows, Envs, Holding
<1>5. AcksHold'
  BY DEF CatInv, TypeOK, AcksHold, Named, ActiveNamed, Active, Rows, Envs
<1> QED
  BY <1>1, <1>2, <1>3, <1>4, <1>5 DEF CatInv

\* No record before it is inserted.
LEMMA NoRecordYet ==
    ASSUME CatInv, NEW r \in Request, at[r] \notin {"recorded", "done"}
    PROVE  records[r] = None
  BY DEF CatInv, RecordsHold

LEMMA RefusalsKeep ==
    ASSUME CatInv, NEW r \in Request, Refuse(r) \/ Invalid(r) \/ Fail(r) \/ Locked(r)
    PROVE  CatInv'
<1>1. at[r] \in {"sent", "resolved", "checked"} /\ records[r] = None /\ UNCHANGED got /\ Unchanged
  BY NoRecordYet DEF Refuse, Invalid, Fail, Locked
<1>2. call[r] \in Call
  BY <1>1 DEF CatInv, CallsAreLet
<1>3. CASE Refuse(r)
  <2>1. Reply(r, {Gate(call[r])}) /\ {Gate(call[r])} \in SUBSET (Codes \ {"204"})
    BY <1>2, <1>3, GateCodes DEF Refuse, Codes
  <2> QED
    BY <1>1, <2>1, EndKeeps
<1>4. CASE Invalid(r)
  <2>1. Reply(r, {call[r].body}) /\ {call[r].body} \in SUBSET (Codes \ {"204"})
    BY <1>2, <1>4, CallTypes DEF Invalid, Codes
  <2> QED
    BY <1>1, <2>1, EndKeeps
<1>5. CASE Fail(r) \/ Locked(r)
  <2>1. PICK codes \in {{"500"}, {"409"}} : Reply(r, codes)
    BY <1>5 DEF Fail, Locked
  <2>2. codes \in SUBSET (Codes \ {"204"})
    BY DEF Codes
  <2> QED
    BY <1>1, <2>1, <2>2, EndKeeps
<1> QED
  BY <1>3, <1>4, <1>5

LEMMA SendKeeps ==
    ASSUME CatInv, NEW r \in Request, NEW c \in Asked, Send(r, c)
    PROVE  CatInv'
<1> USE DEF Send, Step
<1>1. c \in Call /\ records[r] = None
  BY CatalogConstants, NoRecordYet
<1>2. \A p \in Rows : products[p] \in ProductRow /\ Effective(products[p]) \in Pattern \cup {BadPattern, None}
  BY CatalogConstants DEF CatInv, TypeOK, Rows, ProductRow, Effective
<1>3. TypeOK'
  BY <1>1, <1>2 DEF CatInv, TypeOK, Phases, Named, Rows, Active
<1>4. CallsAreLet' /\ KeysHold'
  BY <1>1 DEF CatInv, TypeOK, CallsAreLet, KeysHold, Rows, Envs, Holding
<1>5. ClosedAreArchived'
  BY DEF CatInv, TypeOK, ClosedAreArchived, Rows, Active
<1>6. ConventionsAreSeen'
  <2> SUFFICES ASSUME NEW q \in Request, at'[q] \notin {"idle", "done"},
                      NEW p \in Rows, products[p].slug = call'[q].slug
               PROVE  Effective(products[p]) \in inForce'[q]
    BY DEF ConventionsAreSeen, Named, Rows, Effective
  <2>1. CASE q = r
    BY <2>1 DEF CatInv, TypeOK, Named
  <2>2. CASE q # r
    BY <2>2 DEF CatInv, TypeOK, ConventionsAreSeen, Named
  <2> QED
    BY <2>1, <2>2
<1>7. ResolvedHolds'
  BY <1>1 DEF CatInv, TypeOK, ResolvedHolds, Rows, Holding
<1>8. CheckedHolds' /\ RecordsHold'
  BY <1>1 DEF CatInv, TypeOK, CheckedHolds, RecordsHold, Envs
<1>9. AcksHold'
  BY DEF CatInv, TypeOK, AcksHold, Named, ActiveNamed, Active, Rows, Envs
<1> QED
  BY <1>3, <1>4, <1>5, <1>6, <1>7, <1>8, <1>9 DEF CatInv

\* The product is resolved: open now, it is not among those closed before.
LEMMA ResolveKeeps == ASSUME CatInv, NEW r \in Request, resolveProduct(r) PROVE CatInv'
<1> USE DEF Serving
<1>1. at[r] = "sent" /\ records[r] = None /\ call[r] \in Call
  BY NoRecordYet DEF CatInv, CallsAreLet, resolveProduct
<1>2. CASE Resolvable(call[r].slug) = {}
  <2>1. Reply(r, {"404"}) /\ UNCHANGED got /\ Unchanged /\ {"404"} \in SUBSET (Codes \ {"204"})
    BY <1>2 DEF resolveProduct, Codes
  <2> QED
    BY <1>1, <2>1, EndKeeps
<1>3. CASE Step(r, "resolved") /\ Resolvable(call[r].slug) # {}
  <2>1. PICK p \in Resolvable(call[r].slug) :
            got' = [got EXCEPT ![r] = [product |-> p, row |-> products[p], env |-> None]]
    BY <1>2, <1>3 DEF resolveProduct, Reply, Step
  <2>2. /\ p \in Rows \ closed[r] /\ products[p].slug = call[r].slug
        /\ products[p] \in ProductRow /\ Effective(products[p]) \in inForce[r]
    BY <1>1, <2>1 DEF CatInv, TypeOK, ClosedAreArchived, ConventionsAreSeen, Resolvable, Named, Rows
  <2>3. UNCHANGED <<answer, products, envs, records, spent, call, inForce, closed>>
    BY <1>1, <1>3 DEF resolveProduct, Unchanged, Reply, Step, CatInv, TypeOK
  <2>4. TypeOK'
    BY <1>3, <2>1, <2>2, <2>3 DEF CatInv, TypeOK, Phases, Step, Rows
  <2>5. CallsAreLet'
    BY <1>1, <1>3, <2>3 DEF CatInv, TypeOK, CallsAreLet, Step, Holding, resolveProduct
  <2>6. KeysHold' /\ ClosedAreArchived'
    BY <2>3 DEF CatInv, KeysHold, ClosedAreArchived, Rows, Envs
  <2>7. ConventionsAreSeen'
    BY <1>1, <1>3, <2>3 DEF CatInv, TypeOK, ConventionsAreSeen, Named, Rows, Effective, Step
  <2>8. ResolvedHolds'
    BY <1>1, <1>3, <2>1, <2>2, <2>3 DEF CatInv, TypeOK, ResolvedHolds, Rows, Effective, Holding, Step
  <2>9. CheckedHolds' /\ RecordsHold'
    BY <1>1, <1>3, <2>1, <2>3
    DEF CatInv, TypeOK, CheckedHolds, RecordsHold, Envs, Step, CheckTagConvention, Effective
  <2>10. AcksHold'
    BY <1>3, <2>3 DEF CatInv, TypeOK, AcksHold, Named, ActiveNamed, Active, Rows, Envs, Step
  <2> QED
    BY <2>4, <2>5, <2>6, <2>7, <2>8, <2>9, <2>10 DEF CatInv
<1> QED
  BY <1>2, <1>3 DEF resolveProduct

(***************************************************************************)
(* Actions that change the products                                        *)
(***************************************************************************)

\* No statement gives a product another slug or opens it again, and a new one
\* has a slug no product had.
ProductsKept ==
    /\ \A p \in Rows : /\ p \in Rows' /\ products'[p].slug = products[p].slug
                       /\ products[p].archived => products'[p].archived
    /\ \A p \in Rows' \ Rows : /\ \A q \in Rows : products'[p].slug # products[q].slug
                               /\ \A q \in Rows' \ Rows : q = p

\* What is observed is a convention.
LEMMA ObserveTypes ==
    ASSUME CatInv, products' \in [ProductId -> ProductRow \cup {None}], Observe
    PROVE  inForce' \in [Request -> SUBSET (Pattern \cup {BadPattern, None})]
<1>1. \A p \in ProductId : products'[p] # None =>
        Effective(products'[p]) \in Pattern \cup {BadPattern, None}
  BY CatalogConstants DEF ProductRow, Effective
<1> QED
  BY <1>1 DEF Observe, CatInv, TypeOK

\* What follows from that alone.
LEMMA KeptKeeps ==
    ASSUME CatInv, TypeOK', NEW r \in Request, at[r] = "sent",
           ProductsKept, Step(r, "done"), Observe,
           UNCHANGED <<envs, records, spent, call, got, closed>>
    PROVE  /\ CallsAreLet' /\ KeysHold' /\ ClosedAreArchived' /\ ConventionsAreSeen'
           /\ ResolvedHolds' /\ CheckedHolds' /\ RecordsHold'
<1> USE DEF Step
<1>1. records[r] = None
  BY NoRecordYet
<1>2. at' = [at EXCEPT ![r] = "done"]
  OBVIOUS
<1>3. CallsAreLet'
  BY DEF CatInv, TypeOK, CallsAreLet, Holding
<1>4. KeysHold'
  <2>1. \A p, q \in Rows' : p # q => products'[p].slug # products'[q].slug
    BY DEF CatInv, KeysHold, ProductsKept
  <2>2. \A e \in Envs' : envs'[e].product \in Rows'
    BY DEF CatInv, KeysHold, ProductsKept, Envs
  <2> QED
    BY <2>1, <2>2 DEF CatInv, KeysHold, Envs
<1>5. ClosedAreArchived'
  BY DEF CatInv, ClosedAreArchived, ProductsKept
<1>6. ConventionsAreSeen'
  <2> SUFFICES ASSUME NEW q \in Request, at'[q] \notin {"idle", "done"},
                      NEW p \in Rows', products'[p].slug = call'[q].slug
               PROVE  Effective(products'[p]) \in inForce'[q]
    BY DEF ConventionsAreSeen, Named, Effective
  <2>1. at[q] \notin {"idle", "done"} /\ p \in ProductId /\ products'[p] # None
    BY DEF CatInv, TypeOK, Rows
  <2>2. inForce'[q] = inForce[q] \cup
            {Effective(products'[n]) : n \in {m \in ProductId :
                products'[m] # None /\ products'[m].slug = call[q].slug}}
    BY <2>1 DEF Observe
  <2> QED
    BY <2>1, <2>2
<1>7. \A q \in Request : inForce[q] \subseteq inForce'[q]
  BY DEF Observe
<1>8. ResolvedHolds'
  BY <1>1, <1>7 DEF CatInv, TypeOK, ResolvedHolds, ProductsKept, Holding, Effective
<1>9. CheckedHolds' /\ RecordsHold'
  BY <1>1 DEF CatInv, TypeOK, CheckedHolds, RecordsHold, Envs, CheckTagConvention, Effective
<1> QED
  BY <1>3, <1>4, <1>5, <1>6, <1>8, <1>9

\* An acknowledged archive stays one: its slug is not free and not opened.
LEMMA KeptAcks ==
    ASSUME CatInv, ProductsKept, UNCHANGED <<envs, spent, call>>,
           NEW q \in Request, at[q] = "done", answer[q] = "204"
    PROVE  /\ call[q].op = "archiveProduct" =>
                 Named(call[q].slug)' # {} /\ ActiveNamed(call[q].slug)' = {}
           /\ call[q].op = "deleteEnvironment" => call'[q].arg \in spent' \ Envs'
<1>1. ASSUME call[q].op = "archiveProduct"
      PROVE  Named(call[q].slug)' # {} /\ ActiveNamed(call[q].slug)' = {}
  <2>1. PICK p \in Rows : products[p].slug = call[q].slug /\ products[p].archived
    BY <1>1 DEF CatInv, AcksHold, Named, ActiveNamed, Active
  <2>2. \A n \in Rows : products[n].slug = call[q].slug => products[n].archived
    BY <1>1 DEF CatInv, AcksHold, Named, ActiveNamed, Active
  <2>3. p \in Rows' /\ products'[p].slug = call'[q].slug
    BY <2>1 DEF ProductsKept
  <2>4. \A n \in Rows' : products'[n].slug = call'[q].slug => products'[n].archived
    BY <2>1, <2>2 DEF ProductsKept
  <2> QED
    BY <2>3, <2>4 DEF Named, ActiveNamed, Active
<1>2. call[q].op = "deleteEnvironment" => call'[q].arg \in spent' \ Envs'
  BY DEF CatInv, AcksHold, Envs
<1> QED
  BY <1>1, <1>2

LEMMA CreateProductKeeps == ASSUME CatInv, NEW r \in Request, CreateProduct(r) PROVE CatInv'
<1> USE DEF CreateProduct, Serving, Reply, Step, Unsure
<1>1. /\ at[r] = "sent" /\ call[r].op = "createProduct" /\ call[r] \in Call
      /\ call[r].slug \in Slug /\ call[r].arg \in Name
  BY CallTypes DEF CatInv, CallsAreLet
<1>2. PICK c \in {"409", "201", "500"} : answer' = [answer EXCEPT ![r] = c]
  OBVIOUS
<1>3. ProductsKept /\ products' \in [ProductId -> ProductRow \cup {None}]
  <2>1. CASE UNCHANGED products
    BY <2>1 DEF CatInv, TypeOK, ProductsKept, Rows
  <2>2. CASE ~SlugTaken(call[r].slug)
    <3> DEFINE row == [slug |-> call[r].slug, name |-> call[r].arg,
                       archived |-> FALSE, pattern |-> None]
    <3>1. row \in ProductRow /\ row # None /\ row.slug = call[r].slug
      <4>1. row \in ProductRow
        BY <1>1 DEF ProductRow
      <4> QED
        BY <4>1, CatalogConstants
    <3> HIDE DEF row
    <3>2. PICK p \in ProductId \ Rows : products' = [products EXCEPT ![p] = row]
      BY <1>1, <2>2 DEF row, CatInv, TypeOK
    <3>3. Rows' = Rows \cup {p} /\ \A q \in Rows : products'[q] = products[q]
      BY <3>1, <3>2 DEF CatInv, TypeOK, Rows
    <3>4. products'[p] = row /\ products' \in [ProductId -> ProductRow \cup {None}]
      BY <3>1, <3>2 DEF CatInv, TypeOK
    <3>5. \A q \in Rows : products[q].slug # row.slug
      BY <2>2, <3>1 DEF SlugTaken, Named
    <3> QED
      BY <3>3, <3>4, <3>5 DEF ProductsKept
  <2> QED
    BY <2>1, <2>2
<1>4. TypeOK'
  BY <1>1, <1>2, <1>3, ObserveTypes DEF CatInv, TypeOK, Phases, Codes
<1>5. AcksHold'
  BY <1>1, <1>2, <1>3, KeptAcks DEF CatInv, TypeOK, AcksHold
<1> QED
  BY <1>1, <1>3, <1>4, <1>5, KeptKeeps DEF CatInv

LEMMA EditKeeps ==
    ASSUME CatInv, NEW r \in Request,
           NEW op \in {"updateProduct", "archiveProduct", "putConvention", "deleteConvention"},
           NEW done \in {"200", "204"}, Edit(r, op, done)
    PROVE  CatInv'
<1> USE DEF Edit, Serving, Reply, Step, Unsure
<1>1. at[r] = "sent" /\ call[r].op = op /\ call[r] \in Call
  BY DEF CatInv, CallsAreLet
<1>2. PICK c \in {"404", done, "500"} : /\ answer' = [answer EXCEPT ![r] = c]
                                       /\ c = done => Editable(call[r]) # {}
  BY DEF Edit
<1>3. \A p \in Rows : LET row == Edited(products[p], call[r]) IN
        /\ row \in ProductRow /\ row # None
        /\ row.slug = products[p].slug /\ (products[p].archived => row.archived)
        /\ op = "archiveProduct" => row.archived
  <2> SUFFICES ASSUME NEW p \in Rows
               PROVE  LET row == Edited(products[p], call[r]) IN
                      /\ row \in ProductRow /\ row # None
                      /\ row.slug = products[p].slug
                      /\ products[p].archived => row.archived
                      /\ op = "archiveProduct" => row.archived
    OBVIOUS
  <2>1. products[p] \in ProductRow
    BY DEF CatInv, TypeOK, Rows
  <2>2. /\ op = "updateProduct" => call[r].arg \in Name
        /\ op = "putConvention" => call[r].arg \in Pattern
    BY <1>1, CallTypes
  <2>3. None \notin ProductRow
    BY CatalogConstants
  <2> QED
    BY <1>1, <2>1, <2>2, <2>3 DEF Edited, ProductRow
<1>4. /\ ProductsKept /\ products' \in [ProductId -> ProductRow \cup {None}]
      /\ Rows' = Rows
  <2>1. Editable(call[r]) \subseteq Rows
    BY DEF Editable, ActiveNamed, Named
  <2>2. Rows' = Rows
    BY <1>3, <2>1 DEF Rows
  <2>3. products' \in [ProductId -> ProductRow \cup {None}]
    BY <1>3, <2>1 DEF CatInv, TypeOK
  <2> QED
    BY <1>3, <2>1, <2>2, <2>3 DEF ProductsKept, Rows
<1>5. TypeOK'
  BY <1>1, <1>2, <1>4, ObserveTypes DEF CatInv, TypeOK, Phases, Codes
<1>6. AcksHold'
  <2> SUFFICES ASSUME NEW q \in Request, at'[q] = "done", answer'[q] = "204"
               PROVE  /\ call'[q].op = "archiveProduct" =>
                            Named(call[q].slug)' # {} /\ ActiveNamed(call[q].slug)' = {}
                      /\ call'[q].op = "deleteEnvironment" => call'[q].arg \in spent' \ Envs'
    BY DEF AcksHold
  <2>1. CASE q # r
    BY <1>2, <1>4, <2>1, KeptAcks DEF CatInv, TypeOK
  <2>2. CASE q = r
    <3>1. Editable(call[r]) # {}
      BY <1>2, <2>2 DEF CatInv, TypeOK
    <3>2. \A p \in Editable(call[r]) : products'[p] = Edited(products[p], call[r])
      BY DEF Editable, ActiveNamed, Named, Rows
    <3>3. \A p \in Rows : products[p].slug = call[r].slug =>
            p \in Editable(call[r]) \/ products[p].archived
      BY DEF Editable, ActiveNamed, Named, Active
    <3>4. op = "archiveProduct" => Named(call[r].slug)' # {} /\ ActiveNamed(call[r].slug)' = {}
      <4> SUFFICES ASSUME op = "archiveProduct"
                   PROVE  Named(call[r].slug)' # {} /\ ActiveNamed(call[r].slug)' = {}
        OBVIOUS
      <4>1. PICK p \in Editable(call[r]) : TRUE
        BY <3>1
      <4>2. p \in Rows /\ products[p].slug = call[r].slug
        BY DEF Editable, ActiveNamed, Named
      <4>3. p \in Rows' /\ products'[p].slug = call'[r].slug
        BY <1>4, <4>2 DEF ProductsKept
      <4>4. ASSUME NEW n \in Rows', products'[n].slug = call'[r].slug
            PROVE  products'[n].archived
        <5>1. n \in Rows /\ products[n].slug = call[r].slug
          BY <1>4, <4>4 DEF ProductsKept
        <5>2. CASE n \in Editable(call[r])
          BY <1>3, <3>2, <5>1, <5>2
        <5>3. CASE products[n].archived
          BY <1>4, <5>1, <5>3 DEF ProductsKept
        <5> QED
          BY <3>3, <5>1, <5>2, <5>3
      <4> QED
        BY <4>3, <4>4 DEF Named, ActiveNamed, Active
    <3> QED
      BY <1>1, <2>2, <3>4
  <2> QED
    BY <2>1, <2>2
<1> QED
  BY <1>1, <1>4, <1>5, <1>6, KeptKeeps DEF CatInv

(***************************************************************************)
(* Actions that change the environments                                    *)
(***************************************************************************)

LEMMA CreateEnvironmentKeeps ==
    ASSUME CatInv, NEW r \in Request, CreateEnvironment(r)
    PROVE  CatInv'
<1>1. /\ at[r] = "resolved" /\ call[r].op = "createEnvironment" /\ call[r] \in Call
      /\ records[r] = None /\ call[r].arg \in EnvBody
  BY NoRecordYet, CallTypes DEF CreateEnvironment, CatInv, CallsAreLet
<1>2. CASE Conflicts(got[r].product, call[r].arg) # {}
  <2>1. Reply(r, {"409"}) /\ UNCHANGED got /\ Unchanged /\ {"409"} \in SUBSET (Codes \ {"204"})
    BY <1>2 DEF CreateEnvironment, Unchanged, Codes
  <2> QED
    BY <1>1, <2>1, EndKeeps
<1>3. CASE Conflicts(got[r].product, call[r].arg) = {}
  <2> DEFINE row == [product |-> got[r].product, name |-> call[r].arg.name,
                     slug |-> call[r].arg.slug, type |-> call[r].arg.type]
  <2>1. got[r].product \in Rows
    BY <1>1 DEF CatInv, ResolvedHolds, Holding
  <2>2. PICK c \in {"201", "500"} : answer' = [answer EXCEPT ![r] = c]
    BY <1>3 DEF CreateEnvironment, Reply, Unsure
  <2>3. PICK e \in EnvId \ spent : envs' = [envs EXCEPT ![e] = row] /\ spent' = spent \cup {e}
    BY <1>3 DEF CreateEnvironment
  <2>4. /\ at' = [at EXCEPT ![r] = "done"]
        /\ UNCHANGED <<products, records, call, got, inForce, closed>>
    BY <1>3 DEF CreateEnvironment, Reply, Step
  <2>5. row \in EnvRow /\ row.product = got[r].product
    BY <1>1, <2>1, BodyTypes DEF EnvRow, Rows
  <2>6. row # None
    BY <2>5, CatalogConstants
  <2>7. \A f \in EnvsOf(got[r].product) : envs[f].name # row.name /\ envs[f].slug # row.slug
    BY <1>3 DEF Conflicts
  <2> HIDE DEF row
  <2>8. Envs' = Envs \cup {e} /\ envs'[e] = row /\ e \notin Envs
        /\ \A f \in Envs : envs'[f] = envs[f]
    BY <2>3, <2>6 DEF CatInv, TypeOK, KeysHold, Envs
  <2>9. TypeOK'
    BY <2>2, <2>3, <2>4, <2>5 DEF CatInv, TypeOK, Phases, Codes
  <2>10. CallsAreLet' /\ ClosedAreArchived'
    <3>1. CallsAreLet'
      <4>1. call' = call /\ \A q \in Request : at'[q] = at[q] \/ at'[q] = "done"
        BY <2>4 DEF CatInv, TypeOK
      <4>2. at[r] # "idle"
        BY <1>1
      <4> QED
        BY <2>4, <4>1, <4>2 DEF CatInv, CallsAreLet, Holding
    <3>2. ClosedAreArchived'
      BY <2>4 DEF CatInv, ClosedAreArchived, Rows
    <3> QED
      BY <3>1, <3>2
  <2>11. KeysHold'
    <3>1. \A f \in Envs' : envs'[f].product \in Rows'
      BY <2>1, <2>4, <2>5, <2>8 DEF CatInv, KeysHold, Rows
    <3>2. \A f \in Envs : envs[f].product = row.product =>
            envs[f].name # row.name /\ envs[f].slug # row.slug
      BY <2>5, <2>7 DEF EnvsOf
    <3>3. \A f, g \in Envs' : f # g /\ envs'[f].product = envs'[g].product =>
            envs'[f].slug # envs'[g].slug /\ envs'[f].name # envs'[g].name
      BY <2>8, <3>2 DEF CatInv, KeysHold
    <3>4. Envs' \subseteq spent'
      BY <2>3, <2>8 DEF CatInv, KeysHold
    <3>5. \A p, q \in Rows' : p # q => products'[p].slug # products'[q].slug
      BY <2>4 DEF CatInv, KeysHold, Rows
    <3> QED
      BY <3>1, <3>3, <3>4, <3>5 DEF KeysHold
  <2>12. ConventionsAreSeen'
    BY <2>4 DEF CatInv, TypeOK, ConventionsAreSeen, Named, Rows, Effective
  <2>13. ResolvedHolds'
    BY <1>1, <2>4 DEF CatInv, TypeOK, ResolvedHolds, Rows, Holding, Effective
  <2>14. CheckedHolds'
    <3>1. CheckTagConvention(call[r].arg[2], got[r].env.type, got[r].row)' =
            CheckTagConvention(call[r].arg[2], got[r].env.type, got[r].row)
      BY <2>4 DEF CheckTagConvention, Effective
    <3> QED
      BY <1>1, <2>3, <2>4, <2>8
      DEF CatInv, TypeOK, CheckedHolds, CheckTagConvention, Effective
  <2>15. RecordsHold'
    BY <1>1, <2>4, <2>8 DEF CatInv, TypeOK, RecordsHold
  <2>16. AcksHold'
    BY <1>1, <2>2, <2>3, <2>4, <2>8
    DEF CatInv, TypeOK, AcksHold, Named, ActiveNamed, Active, Rows
  <2> QED
    BY <2>9, <2>10, <2>11, <2>12, <2>13, <2>14, <2>15, <2>16 DEF CatInv
<1> QED
  BY <1>2, <1>3

LEMMA DeleteEnvironmentKeeps ==
    ASSUME CatInv, NEW r \in Request, DeleteEnvironment(r)
    PROVE  CatInv'
<1> DEFINE e == call[r].arg
<1>1. /\ at[r] = "resolved" /\ call[r].op = "deleteEnvironment" /\ call[r] \in Call
      /\ records[r] = None /\ e \in EnvId
  BY NoRecordYet, CallTypes DEF DeleteEnvironment, CatInv, CallsAreLet
<1>2. CASE Reply(r, {"404"}) /\ UNCHANGED envs
  <2>1. UNCHANGED got /\ Unchanged /\ {"404"} \in SUBSET (Codes \ {"204"})
    BY <1>2 DEF DeleteEnvironment, Unchanged, Codes
  <2> QED
    BY <1>1, <1>2, <2>1, EndKeeps
<1>3. CASE Reply(r, {"409"}) /\ UNCHANGED envs
  <2>1. UNCHANGED got /\ Unchanged /\ {"409"} \in SUBSET (Codes \ {"204"})
    BY <1>3 DEF DeleteEnvironment, Unchanged, Codes
  <2> QED
    BY <1>1, <1>3, <2>1, EndKeeps
<1>4. CASE /\ EnvNamed(got[r].product, e) /\ ~HasDeployments(e)
           /\ envs' = [envs EXCEPT ![e] = None] /\ Reply(r, Unsure("204"))
  <2>1. PICK c \in {"204", "500"} : answer' = [answer EXCEPT ![r] = c]
    BY <1>4 DEF Reply, Unsure
  <2>2. /\ at' = [at EXCEPT ![r] = "done"]
        /\ UNCHANGED <<products, records, spent, call, got, inForce, closed>>
    BY <1>4 DEF DeleteEnvironment, Reply, Step
  <2>3. e \in Envs
    BY <1>4 DEF EnvNamed, EnvsOf
  <2> HIDE DEF e
  <2>4. Envs' = Envs \ {e} /\ \A f \in Envs' : envs'[f] = envs[f]
    BY <1>4, <1>1 DEF CatInv, TypeOK, Envs
  <2>5. TypeOK'
    BY <1>4, <2>1, <2>2 DEF CatInv, TypeOK, Phases, Codes
  <2>6. CallsAreLet' /\ ClosedAreArchived'
    <3>1. CallsAreLet'
      <4>1. call' = call /\ \A q \in Request : at'[q] = at[q] \/ at'[q] = "done"
        BY <2>2 DEF CatInv, TypeOK
      <4>2. at[r] # "idle"
        BY <1>1
      <4> QED
        BY <2>2, <4>1, <4>2 DEF CatInv, CallsAreLet, Holding
    <3>2. ClosedAreArchived'
      BY <2>2 DEF CatInv, ClosedAreArchived, Rows
    <3> QED
      BY <3>1, <3>2
  <2>7. KeysHold'
    BY <2>2, <2>4 DEF CatInv, KeysHold, Rows
  <2>8. ConventionsAreSeen'
    BY <2>2 DEF CatInv, TypeOK, ConventionsAreSeen, Named, Rows, Effective
  <2>9. ResolvedHolds'
    BY <1>1, <2>2 DEF CatInv, TypeOK, ResolvedHolds, Rows, Holding, Effective
  <2>10. CheckedHolds'
    BY <1>1, <2>2, <2>4 DEF CatInv, TypeOK, CheckedHolds, CheckTagConvention, Effective
  <2>11. RecordsHold'
    <3>1. \A q \in Request : records[q] # None => call[q].arg[1] # e
      BY <1>4 DEF HasDeployments, CatInv, RecordsHold
    <3> QED
      BY <1>1, <2>2, <2>4, <3>1 DEF CatInv, TypeOK, RecordsHold
  <2>12. AcksHold'
    BY <1>1, <2>1, <2>2, <2>3, <2>4
    DEF e, CatInv, TypeOK, KeysHold, AcksHold, Named, ActiveNamed, Active, Rows
  <2> QED
    BY <2>5, <2>6, <2>7, <2>8, <2>9, <2>10, <2>11, <2>12 DEF CatInv
<1> QED
  BY <1>2, <1>3, <1>4 DEF DeleteEnvironment

(***************************************************************************)
(* Deploys                                                                 *)
(***************************************************************************)

LEMMA ResolveEnvKeeps == ASSUME CatInv, NEW r \in Request, ResolveEnv(r) PROVE CatInv'
<1> DEFINE e == call[r].arg[1]
<1> DEFINE verdict == CheckTagConvention(call[r].arg[2], envs[e].type, got[r].row)
<1>1. /\ at[r] = "resolved" /\ call[r].op = "deploy" /\ call[r] \in Call
      /\ records[r] = None /\ e \in EnvId
  BY NoRecordYet, CallTypes DEF ResolveEnv, CatInv, CallsAreLet
<1>2. verdict \in {"pass", "500", "422"}
  BY DEF CheckTagConvention
<1>3. CASE ~EnvNamed(got[r].product, e) \/ verdict # "pass"
  <2>1. PICK codes \in SUBSET (Codes \ {"204"}) : Reply(r, codes)
    BY <1>2, <1>3 DEF ResolveEnv, Codes
  <2>2. UNCHANGED got /\ Unchanged
    BY <1>3 DEF ResolveEnv
  <2> QED
    BY <1>1, <2>1, <2>2, EndKeeps
<1>4. CASE EnvNamed(got[r].product, e) /\ verdict = "pass"
  <2>1. /\ at' = [at EXCEPT ![r] = "checked"]
        /\ got' = [got EXCEPT ![r].env = envs[e]]
        /\ UNCHANGED <<answer, products, envs, records, spent, call, inForce, closed>>
    BY <1>4 DEF ResolveEnv, Step, Unchanged
  <2>2. e \in Envs /\ envs[e] \in EnvRow /\ envs[e].product = got[r].product /\ e \in spent
    BY <1>4 DEF EnvNamed, EnvsOf, Envs, CatInv, TypeOK, KeysHold
  <2>3. /\ got'[r].product = got[r].product /\ got'[r].row = got[r].row /\ got'[r].env = envs[e]
        /\ \A q \in Request \ {r} : got'[q] = got[q]
    BY <2>1 DEF CatInv, TypeOK
  <2> HIDE DEF e
  <2>4. TypeOK'
    BY <2>1, <2>2, SMTT(30) DEF CatInv, TypeOK, Phases
  <2>5. CallsAreLet'
    BY <1>1, <2>1 DEF CatInv, TypeOK, CallsAreLet, Holding
  <2>6. KeysHold' /\ ClosedAreArchived'
    BY <2>1 DEF CatInv, KeysHold, ClosedAreArchived, Rows, Envs
  <2>7. ConventionsAreSeen'
    BY <1>1, <2>1 DEF CatInv, TypeOK, ConventionsAreSeen, Named, Rows, Effective
  <2>8. ResolvedHolds'
    BY <1>1, <2>1, <2>3 DEF CatInv, TypeOK, ResolvedHolds, Rows, Holding, Effective
  <2>9. CheckedHolds'
    <3> SUFFICES ASSUME NEW q \in Request, at'[q] = "checked" \/ records'[q] # None
                 PROVE  /\ call'[q].op = "deploy"
                        /\ call'[q].arg[1] \in spent'
                        /\ call'[q].arg[1] \in Envs' => envs'[call'[q].arg[1]] = got'[q].env
                        /\ got'[q].env \in EnvRow
                        /\ got'[q].env.product = got'[q].product
                        /\ CheckTagConvention(call[q].arg[2], got[q].env.type, got[q].row)'
                             = "pass"
      BY DEF CheckedHolds
    <3>1. CASE q = r
      BY <1>1, <1>4, <2>1, <2>2, <2>3, <3>1 DEF e, CheckTagConvention
    <3>2. CASE q # r
      BY <2>1, <2>3, <3>2 DEF CatInv, TypeOK, CheckedHolds, Envs, CheckTagConvention
    <3> QED
      BY <3>1, <3>2
  <2>10. RecordsHold'
    BY <1>1, <2>1, <2>3 DEF CatInv, TypeOK, RecordsHold, Envs
  <2>11. AcksHold'
    BY <2>1 DEF CatInv, TypeOK, AcksHold, Named, ActiveNamed, Active, Rows, Envs
  <2> QED
    BY <2>4, <2>5, <2>6, <2>7, <2>8, <2>9, <2>10, <2>11 DEF CatInv
<1> QED
  BY <1>3, <1>4

\* The records of other requests stay as they are.
LEMMA RecordKeeps ==
    ASSUME CatInv, NEW r \in Request, at[r] \in {"checked", "recorded"},
           call[r].op = "deploy", CheckedHolds', RecordsHold', ResolvedHolds',
           NEW p \in {"recorded", "done"}, Step(r, p),
           NEW a \in (Codes \ {"204"}) \cup {answer[r]}, answer' = [answer EXCEPT ![r] = a],
           records' \in [Request -> Record \cup {None}],
           UNCHANGED <<products, envs, spent, call, got, inForce, closed>>
    PROVE  CatInv'
<1>1. TypeOK'
  BY DEF CatInv, TypeOK, Step, Phases
<1>2. CallsAreLet'
  BY DEF CatInv, TypeOK, CallsAreLet, Step, Holding
<1>3. KeysHold' /\ ClosedAreArchived'
  BY DEF CatInv, KeysHold, ClosedAreArchived, Rows, Envs
<1>4. ConventionsAreSeen'
  BY DEF CatInv, TypeOK, ConventionsAreSeen, Named, Rows, Effective, Step
<1>5. AcksHold'
  BY DEF CatInv, TypeOK, AcksHold, Named, ActiveNamed, Active, Rows, Envs, Step
<1> QED
  BY <1>1, <1>2, <1>3, <1>4, <1>5 DEF CatInv

LEMMA RecordDeployKeeps == ASSUME CatInv, NEW r \in Request, RecordDeploy(r) PROVE CatInv'
<1> DEFINE rec == [product |-> got[r].product, env |-> call[r].arg[1], tag |-> call[r].arg[2]]
<1>1. /\ at[r] = "checked" /\ call[r].op = "deploy" /\ call[r] \in Call
      /\ call[r].arg[1] \in Envs /\ got[r].product \in ProductId
      /\ call[r].arg[1] \in EnvId /\ call[r].arg[2] \in Tag
  BY CallTypes
  DEF RecordDeploy, CatInv, CallsAreLet, CheckedHolds, ResolvedHolds, Holding, Rows
<1>2. rec \in Record /\ rec # None
  <2>1. rec \in Record
    BY <1>1 DEF Record
  <2> QED
    BY <2>1, CatalogConstants
<1>3. /\ records' = [records EXCEPT ![r] = rec]
      /\ UNCHANGED <<products, envs, spent, call, got, inForce, closed>>
  BY DEF RecordDeploy
<1>4. PICK p \in {"recorded", "done"}, a \in {"500", answer[r]} :
        Step(r, p) /\ answer' = [answer EXCEPT ![r] = a]
  BY DEF RecordDeploy, Reply, CatInv, TypeOK
<1>5. rec.product = got[r].product /\ rec.env = call[r].arg[1] /\ rec.tag = call[r].arg[2]
  OBVIOUS
<1> HIDE DEF rec
<1>6. CheckedHolds'
  BY <1>1, <1>3, <1>4 DEF CatInv, TypeOK, CheckedHolds, Envs, CheckTagConvention, Effective, Step
<1>7. RecordsHold'
  BY <1>1, <1>2, <1>3, <1>4, <1>5 DEF CatInv, TypeOK, RecordsHold, Envs, Step
<1>8. ResolvedHolds'
  BY <1>1, <1>3, <1>4 DEF CatInv, TypeOK, ResolvedHolds, Rows, Holding, Effective, Step
<1>9. records' \in [Request -> Record \cup {None}]
  BY <1>2, <1>3 DEF CatInv, TypeOK
<1>10. a \in (Codes \ {"204"}) \cup {answer[r]}
  BY DEF Codes
<1> QED
  BY <1>1, <1>3, <1>4, <1>6, <1>7, <1>8, <1>9, <1>10, RecordKeeps

LEMMA ConcludeKeeps == ASSUME CatInv, NEW r \in Request, Conclude(r) PROVE CatInv'
<1>1. at[r] = "recorded" /\ call[r].op = "deploy"
  BY DEF Conclude, CatInv, RecordsHold
<1>2. /\ Step(r, "done")
      /\ \E a \in {"202", "500", "422", "503"} : answer' = [answer EXCEPT ![r] = a]
      /\ records' \in {records, [records EXCEPT ![r] = None]}
      /\ UNCHANGED <<products, envs, spent, call, got, inForce, closed>>
  BY DEF Conclude, Reply
<1>3. PICK a \in {"202", "500", "422", "503"} : answer' = [answer EXCEPT ![r] = a]
  BY <1>2
<1>4. /\ records' \in [Request -> Record \cup {None}]
      /\ \A q \in Request : records'[q] # None => records'[q] = records[q]
  BY <1>2 DEF CatInv, TypeOK
<1>5. CheckedHolds'
  BY <1>1, <1>2, <1>4 DEF CatInv, TypeOK, CheckedHolds, Envs, CheckTagConvention, Effective, Step
<1>6. RecordsHold'
  BY <1>1, <1>2, <1>4 DEF CatInv, TypeOK, RecordsHold, Envs, Step
<1>7. ResolvedHolds'
  BY <1>1, <1>2, <1>4 DEF CatInv, TypeOK, ResolvedHolds, Rows, Holding, Effective, Step
<1>8. a \in (Codes \ {"204"}) \cup {answer[r]}
  BY DEF Codes
<1> QED
  BY <1>1, <1>2, <1>3, <1>4, <1>5, <1>6, <1>7, <1>8, RecordKeeps

(***************************************************************************)
(* Theorems: the state                                                     *)
(***************************************************************************)

\* The keys, what requests hold in memory, and what was acknowledged.
THEOREM CatalogInvariant == Spec => []CatInv
<1>1. CatInv /\ [Next]_catVars => CatInv'
  <2> SUFFICES ASSUME CatInv, [Next]_catVars PROVE CatInv'
    OBVIOUS
  <2>1. ASSUME NEW r \in Request, Handle(r) PROVE CatInv'
    <3>1. CASE Refuse(r) \/ Invalid(r) \/ Fail(r) \/ Locked(r)
      BY <3>1, RefusalsKeep
    <3>2. CASE CreateProduct(r)
      BY <3>2, CreateProductKeeps
    <3>3. CASE \/ UpdateProduct(r) \/ ArchiveProduct(r)
               \/ PutTagConvention(r) \/ DeleteTagConvention(r)
      BY <3>3, EditKeeps
      DEF UpdateProduct, ArchiveProduct, PutTagConvention, DeleteTagConvention
    <3>4. CASE resolveProduct(r)
      BY <3>4, ResolveKeeps
    <3>5. CASE CreateEnvironment(r) \/ DeleteEnvironment(r)
      BY <3>5, CreateEnvironmentKeeps, DeleteEnvironmentKeeps
    <3>6. CASE ResolveEnv(r) \/ RecordDeploy(r) \/ Conclude(r)
      BY <3>6, ResolveEnvKeeps, RecordDeployKeeps, ConcludeKeeps
    <3> QED
      BY <2>1, <3>1, <3>2, <3>3, <3>4, <3>5, <3>6 DEF Handle
  <2>2. ASSUME NEW r \in Request, NEW c \in Asked, Send(r, c) PROVE CatInv'
    BY <2>2, SendKeeps
  <2>3. CASE UNCHANGED catVars
    <3> USE <2>3 DEF catVars
    <3>1. TypeOK' /\ CallsAreLet' /\ KeysHold' /\ ClosedAreArchived'
      BY DEF CatInv, TypeOK, CallsAreLet, KeysHold, ClosedAreArchived, Rows, Envs
    <3>2. ConventionsAreSeen' /\ ResolvedHolds' /\ AcksHold'
      BY DEF CatInv, ConventionsAreSeen, ResolvedHolds, AcksHold, Named, ActiveNamed,
        Active, Rows, Envs, Effective
    <3>3. CheckedHolds' /\ RecordsHold'
      BY DEF CatInv, CheckedHolds, RecordsHold, Envs, CheckTagConvention, Effective
    <3> QED
      BY <3>1, <3>2, <3>3 DEF CatInv
  <2> QED
    BY <2>1, <2>2, <2>3 DEF Next
<1> QED
  BY CatInitKeeps, <1>1, PTL DEF Spec

\* The types of the catalog.
THEOREM CatalogTypes == Spec => []TypeOK
  BY CatalogInvariant, PTL DEF CatInv

\* No two environments share a HelmRelease file (product_store.go:62), by the
\* two unique keys and because archived products keep their slugs.
THEOREM PathsDiffer == Spec => []PathsAreDistinct
<1>1. CatInv => PathsAreDistinct
  BY DEF CatInv, KeysHold, PathsAreDistinct
<1> QED
  BY <1>1, CatalogInvariant, PTL

\* A record holds the environment its deploy read (environment_store.go:108).
THEOREM RecordsHoldEnvironments == Spec => []RecordsKeepTheirEnvironment
<1>1. CatInv => RecordsKeepTheirEnvironment
  BY DEF CatInv, RecordsHold, CheckedHolds, ResolvedHolds, RecordsKeepTheirEnvironment
<1> QED
  BY <1>1, CatalogInvariant, PTL

\* A production deploy conformed to a convention in force while it ran
\* (deploy.go:105).
THEOREM TagsConform == Spec => []ProductionTagsConform
<1>1. CatInv => ProductionTagsConform
  BY DEF CatInv, RecordsHold, CheckedHolds, ResolvedHolds, ProductionTagsConform,
    CheckTagConvention
<1> QED
  BY <1>1, CatalogInvariant, PTL

\* An acknowledged archive or deletion is final (product_store.go, Archive;
\* environment_store.go, Delete).
THEOREM AcksStay == Spec => []AcknowledgedStays
<1>1. CatInv => AcknowledgedStays
  BY DEF CatInv, AcksHold, AcknowledgedStays
<1> QED
  BY <1>1, CatalogInvariant, PTL

(***************************************************************************)
(* Roles                                                                   *)
(***************************************************************************)

\* A set of places in a list has a last one.
LEMMA LastPlace ==
    ASSUME NEW n \in Nat, NEW S \in SUBSET (1..n), S # {}
    PROVE  Last(S) \in S /\ \A j \in S : j <= Last(S)
<1> DEFINE T == {n - i : i \in S}
<1>1. T \in SUBSET Nat /\ T # {}
  <2>1. \A i \in S : i \in Nat /\ n - i \in Nat
    OBVIOUS
  <2> QED
    BY <2>1
<1>2. PICK x \in T : \A y \in T : x <= y
  <2>1. IsWellFoundedOn(OpToRel(<, Nat), Nat)
    BY NatLessThanWellFounded
  <2> DEFINE R == OpToRel(<, Nat)
  <2>2. \A a, b \in Nat : b < a => <<b, a>> \in R
    BY DEF OpToRel
  <2> HIDE DEF R, T
  <2>3. PICK x \in T : \A y \in T : ~(<<y, x>> \in R)
    BY <1>1, <2>1, WFMin DEF R
  <2>4. ASSUME NEW y \in T PROVE x <= y
    <3>1. x \in Nat /\ y \in Nat
      BY <1>1
    <3>2. ~(y < x)
      BY <2>2, <2>3, <3>1
    <3> QED
      BY <3>1, <3>2
  <2> QED
    BY <2>4
<1>3. PICK i \in S : x = n - i
  BY <1>2
<1>4. \A j \in S : j <= i
  BY <1>2, <1>3
<1> QED
  BY <1>3, <1>4 DEF Last

\* The role of a token on a product is that of the last claim on it.
LEMMA LastClaimWins ==
    ASSUME NEW claims \in Seq(Claim), NEW slug \in DOMAIN extractRoles(claims).roles
    PROVE  \E i \in ProductClaims(claims) :
              /\ claims[i].slug = slug
              /\ extractRoles(claims).roles[slug] = claims[i].role
              /\ \A j \in ProductClaims(claims) : claims[j].slug = slug => j <= i
<1> DEFINE S == {i \in ProductClaims(claims) : claims[i].slug = slug}
<1>1. S # {} /\ S \in SUBSET (1..Len(claims)) /\ Len(claims) \in Nat
  BY DEF extractRoles, ProductClaims
<1>2. Last(S) \in S /\ \A j \in S : j <= Last(S)
  BY <1>1, LastPlace
<1>3. extractRoles(claims).roles[slug] = claims[Last(S)].role
  BY DEF extractRoles
<1> QED
  BY <1>2, <1>3

\* RequireRole lets in who may edit, by the words of the token.
LEMMA EditorsMayEdit ==
    ASSUME NEW claims \in Seq(Claim), NEW slug,
           RequireRole(extractRoles(claims), slug, "editor") = "pass"
    PROVE  MayEdit(claims, slug)
<1> DEFINE id == extractRoles(claims)
<1>1. CASE id.admin
  BY <1>1 DEF extractRoles, MayEdit
<1>2. CASE ~id.admin
  <2>1. slug \in DOMAIN id.roles /\ RoleAtLeast(id.roles[slug], "editor")
    BY <1>2 DEF RequireRole
  <2>2. PICK i \in ProductClaims(claims) :
            /\ claims[i].slug = slug
            /\ id.roles[slug] = claims[i].role
            /\ \A j \in ProductClaims(claims) : claims[j].slug = slug => j <= i
    BY <2>1, LastClaimWins
  <2>3. i \in DOMAIN claims /\ claims[i] \in Claim /\ claims[i].role \in Role
    BY DEF ProductClaims
  <2>4. claims[i].role = "editor"
    BY <2>1, <2>2, <2>3 DEF RoleAtLeast, roleOrder, Role
  <2>5. claims[i] = [slug |-> slug, role |-> "editor"]
    BY <2>2, <2>3, <2>4 DEF Claim
  <2>6. ASSUME NEW j \in DOMAIN claims, j > i, claims[j] = [slug |-> slug, role |-> "viewer"]
        PROVE  FALSE
    <3>1. slug \in Slug
      BY <2>2 DEF ProductClaims
    <3>2. claims[j].slug = slug /\ claims[j].role = "viewer"
      BY <2>6
    <3>3. j \in ProductClaims(claims)
      BY <3>1, <3>2 DEF ProductClaims, Role
    <3>4. j <= i /\ i \in Nat /\ j \in Nat
      BY <2>2, <2>3, <3>2, <3>3
    <3> QED
      BY <2>6, <3>4
  <2> QED
    BY <2>3, <2>5, <2>6 DEF MayEdit
<1> QED
  BY <1>1, <1>2

\* What a gate lets through comes from somebody who may edit its product.
LEMMA GateLetsEditors ==
    ASSUME NEW c \in Call, Gate(c) = "pass"
    PROVE  c.who # None /\ MayEdit(c.who, c.slug)
<1>1. c.who # None /\ c.who \in Seq(Claim)
  BY CallTypes, CatalogConstants DEF Gate
<1>2. CASE c.op = "createProduct"
  BY <1>1, <1>2 DEF Gate, Need, RequireAdmin, MayEdit, extractRoles
<1>3. CASE c.op # "createProduct"
  <2>1. RequireRole(extractRoles(c.who), c.slug, "editor") = "pass"
    BY <1>1, <1>3 DEF Gate, Need
  <2> QED
    BY <1>1, <2>1, EditorsMayEdit
<1> QED
  BY <1>2, <1>3

\* The list of products and the middleware agree, for every token, whatever
\* claims it carries (roles.go:28, product_store.go:95).
THEOREM ListsMatchTheGate == Spec => []ListingMatchesGate
<1>1. ASSUME NEW u \in Users, NEW slug
      PROVE  LET id == extractRoles(u) IN
             /\ (SlugAllowlist(id) = None \/ slug \in SlugAllowlist(id))
                    <=> RequireRole(id, slug, "viewer") = "pass"
             /\ MyRole(id, slug) \in {"editor", "admin"}
                    <=> RequireRole(id, slug, "editor") = "pass"
  <2> DEFINE id == extractRoles(u)
  <2>1. u \in Seq(Claim)
    BY CatalogConstants
  <2>2. DOMAIN id.roles \in SUBSET Slug
    BY DEF extractRoles, ProductClaims
  <2>3. DOMAIN id.roles # None
    BY <2>2, CatalogConstants
  <2>4. slug \in DOMAIN id.roles => id.roles[slug] \in Role
    BY <2>1, LastClaimWins DEF ProductClaims
  <2>5. id.admin \in BOOLEAN
    BY DEF extractRoles
  <2> DEFINE listed == SlugAllowlist(id) = None \/ slug \in SlugAllowlist(id)
  <2> DEFINE edits == MyRole(id, slug) \in {"editor", "admin"}
  <2> HIDE DEF id
  <2>6. CASE id.admin
    <3>1. listed /\ edits
      BY <2>6 DEF SlugAllowlist, MyRole
    <3>2. \A need \in Role : RequireRole(id, slug, need) = "pass"
      BY <2>6 DEF RequireRole
    <3> QED
      BY <3>1, <3>2 DEF id, Role
  <2>7. CASE ~id.admin /\ slug \notin DOMAIN id.roles
    <3>1. ~listed /\ ~edits
      BY <2>3, <2>7 DEF SlugAllowlist, MyRole
    <3>2. \A need \in Role : RequireRole(id, slug, need) # "pass"
      BY <2>7 DEF RequireRole
    <3> QED
      BY <3>1, <3>2 DEF id, Role
  <2>8. CASE ~id.admin /\ slug \in DOMAIN id.roles
    <3>1. listed /\ (edits <=> id.roles[slug] = "editor")
      BY <2>4, <2>8 DEF SlugAllowlist, MyRole, Role
    <3>2. RequireRole(id, slug, "viewer") = "pass"
      BY <2>4, <2>8 DEF RequireRole, RoleAtLeast, roleOrder, Role
    <3>3. RequireRole(id, slug, "editor") = "pass" <=> id.roles[slug] = "editor"
      BY <2>4, <2>8 DEF RequireRole, RoleAtLeast, roleOrder, Role
    <3> QED
      BY <3>1, <3>2, <3>3 DEF id
  <2> QED
    BY <2>5, <2>6, <2>7, <2>8
<1>2. ListingMatchesGate
  <2> SUFFICES ASSUME NEW u \in Users, NEW p \in Active
               PROVE  LET id == extractRoles(u)
                          s == products[p].slug IN
                      /\ p \in List(SlugAllowlist(id), FALSE)
                            <=> RequireRole(id, s, "viewer") = "pass"
                      /\ MyRole(id, s) \in {"editor", "admin"}
                            <=> RequireRole(id, s, "editor") = "pass"
    BY DEF ListingMatchesGate
  <2>1. p \in Rows /\ ~products[p].archived
    BY DEF Active
  <2> QED
    BY <1>1, <2>1 DEF List
<1> QED
  BY <1>2, PTL

\* The three queries count the same rows (product_store.go:253).
THEOREM QueriesAgree == Spec => []PagesAgree
<1>1. ASSUME CatInv, NEW p \in Active
      PROVE  LET one == GetStats({products[p].slug}) IN
             /\ one.products = 1
             /\ one.envs = ListWithStats[p].envs
             /\ one.deployments > 0 <=> ListWithStats[p].deployed
  <2> DEFINE s == products[p].slug
  <2>1. p \in Rows /\ ~products[p].archived /\ p \in ProductId /\ s \in Slug
    BY <1>1 DEF Active, Rows, CatInv, TypeOK, ProductRow
  <2>2. List({s}, FALSE) = {p}
    <3>1. {s} # None
      BY <2>1, CatalogConstants
    <3> QED
      BY <1>1, <2>1, <3>1 DEF List, CatInv, KeysHold
  <2> HIDE DEF s
  <2>3. Cardinality(List({s}, FALSE)) = 1
    BY <2>2, FS_Singleton
  <2>4. CountEnvs(Joined(p)) = Cardinality(EnvsOf(p))
    <3> DEFINE E == OrNull(EnvsOf(p))
    <3> DEFINE D == OrNull(RecordsOf(p))
    <3>1. \E d : d \in D
      BY DEF OrNull
    <3>2. {row[1] : row \in E \X D} = E
      <4>1. PICK d \in D : TRUE
        BY <3>1
      <4>2. ASSUME NEW e \in E PROVE \E row \in E \X D : row[1] = e
        <5>1. <<e, d>> \in E \X D /\ <<e, d>>[1] = e
          BY <4>1
        <5> QED
          BY <5>1
      <4>3. \A row \in E \X D : row[1] \in E
        OBVIOUS
      <4> HIDE DEF E, D
      <4> QED
        BY <4>2, <4>3
    <3>3. None \notin EnvsOf(p)
      BY CatalogConstants DEF EnvsOf, Envs
    <3>4. E \ {None} = EnvsOf(p)
      BY <3>3 DEF OrNull
    <3> HIDE DEF E, D
    <3>5. CountEnvs(E \X D) = Cardinality(EnvsOf(p))
      BY <3>2, <3>4 DEF CountEnvs
    <3> QED
      BY <3>5 DEF Joined, E, D
  <2>5. (\E row \in Joined(p) : row[2] # None) <=> RecordsOf(p) # {}
    <3>1. None \notin RecordsOf(p)
      BY CatalogConstants DEF RecordsOf
    <3>2. ASSUME NEW r \in RecordsOf(p) PROVE \E row \in Joined(p) : row[2] # None
      <4>1. PICK e \in OrNull(EnvsOf(p)) : TRUE
        BY DEF OrNull
      <4>2. <<e, r>> \in Joined(p) /\ <<e, r>>[2] # None
        BY <3>1, <4>1 DEF Joined, OrNull
      <4> QED
        BY <4>2
    <3>3. RecordsOf(p) = {} => \A row \in Joined(p) : row[2] = None
      BY DEF Joined, OrNull
    <3> QED
      BY <3>2, <3>3
  <2>6. {e \in Envs : envs[e].product \in {p}} = EnvsOf(p)
        /\ {r \in Request : records[r] # None /\ records[r].product \in {p}} = RecordsOf(p)
    BY DEF EnvsOf, RecordsOf
  <2>7. Cardinality(RecordsOf(p)) > 0 <=> RecordsOf(p) # {}
    <3>1. RecordsOf(p) \in SUBSET Request
      BY DEF RecordsOf
    <3>2. IsFiniteSet(RecordsOf(p)) /\ Cardinality(RecordsOf(p)) \in Nat
      BY <3>1, CatalogConstants, FS_Subset, FS_CardinalityType
    <3> QED
      BY <3>2, FS_EmptySet
  <2>8. /\ GetStats({s}).products = 1
        /\ GetStats({s}).envs = Cardinality(EnvsOf(p))
        /\ GetStats({s}).deployments = Cardinality(RecordsOf(p))
    BY <2>2, <2>3, <2>6 DEF GetStats
  <2>9. /\ ListWithStats[p].envs = Cardinality(EnvsOf(p))
        /\ ListWithStats[p].deployed <=> RecordsOf(p) # {}
    BY <2>4, <2>5, <1>1 DEF ListWithStats
  <2> QED
    BY <2>7, <2>8, <2>9 DEF s
<1>2. GetStats(None).products = Cardinality(DOMAIN ListWithStats)
  <2>1. List(None, FALSE) = Active
    BY DEF List, Active
  <2> QED
    BY <2>1 DEF GetStats, ListWithStats
<1>3. CatInv => PagesAgree
  BY <1>1, <1>2 DEF PagesAgree
<1> QED
  BY <1>3, CatalogInvariant, PTL

\* The read-only routes agree with one another and with the gate.
THEOREM ListingsHold == Spec => []ListingsAgree
  BY ListsMatchTheGate, QueriesAgree, PTL DEF ListingsAgree

(***************************************************************************)
(* Theorems: the steps                                                     *)
(***************************************************************************)

\* What a step of a request touches belongs to the product the request named,
\* which was open when it was sent, and the request is past its gate.
Touched(r, p) ==
    /\ call[r] \in Call /\ Gate(call[r]) = "pass" /\ at'[r] # at[r]
    /\ products'[p].slug = call[r].slug
    /\ p \notin closed[r]

LEMMA ProductTouched ==
    ASSUME CatInv, CatInv', NEW r \in Request, NEW p \in ProductId, Touches(p),
           at[r] = "sent", at' = [at EXCEPT ![r] = "done"], Gate(call[r]) = "pass",
           products'[p] # products[p] => p \notin closed[r] /\ products'[p].slug = call[r].slug,
           UNCHANGED <<envs, records>>
    PROVE  Touched(r, p)
  BY DEF CatInv, TypeOK, CallsAreLet, Touched, Touches

\* The product a request has resolved.
LEMMA HeldTouched ==
    ASSUME CatInv, CatInv', NEW r \in Request, at[r] \in Holding, at'[r] # at[r],
           UNCHANGED products
    PROVE  Touched(r, got[r].product)
  BY DEF CatInv, CallsAreLet, ResolvedHolds, Holding, Touched

LEMMA EnvTouched ==
    ASSUME CatInv, CatInv', NEW r \in Request, NEW p \in ProductId, Touches(p),
           CreateEnvironment(r) \/ DeleteEnvironment(r)
    PROVE  Touched(r, p)
<1>1. /\ at[r] \in Holding /\ at' = [at EXCEPT ![r] = "done"] /\ at'[r] # at[r]
      /\ UNCHANGED <<products, records>>
  BY DEF CreateEnvironment, DeleteEnvironment, Reply, Step, Holding, CatInv, TypeOK
<1>2. PICK e \in EnvId : envs'[e] # envs[e] /\ (e \in EnvsOf(p) \/ e \in EnvsOf(p)')
  BY <1>1 DEF Touches
<1>3. CASE CreateEnvironment(r)
  <2>1. PICK f \in EnvId \ spent : envs' = [envs EXCEPT ![f] =
            [product |-> got[r].product, name |-> call[r].arg.name,
             slug |-> call[r].arg.slug, type |-> call[r].arg.type]]
    BY <1>2, <1>3 DEF CreateEnvironment
  <2>2. f = e /\ e \notin Envs /\ envs'[e].product = got[r].product
    BY <1>2, <2>1 DEF CatInv, TypeOK, KeysHold
  <2> QED
    BY <1>1, <1>2, <2>2, HeldTouched DEF EnvsOf
<1>4. CASE DeleteEnvironment(r)
  <2>1. /\ envs' = [envs EXCEPT ![call[r].arg] = None]
        /\ EnvNamed(got[r].product, call[r].arg)
    BY <1>2, <1>4 DEF DeleteEnvironment
  <2>2. e = call[r].arg /\ envs[e].product = got[r].product /\ envs'[e] = None
    BY <1>2, <2>1 DEF CatInv, TypeOK, EnvNamed, EnvsOf
  <2> QED
    BY <1>1, <1>2, <2>2, HeldTouched DEF EnvsOf, Envs
<1> QED
  BY <1>3, <1>4

LEMMA RecordTouched ==
    ASSUME CatInv, CatInv', NEW r \in Request, NEW p \in ProductId, Touches(p),
           RecordDeploy(r) \/ Conclude(r)
    PROVE  Touched(r, p)
<1>1. /\ at[r] \in Holding /\ at'[r] # at[r] /\ UNCHANGED <<products, envs, got>>
      /\ \A q \in Request \ {r} : records'[q] = records[q]
  BY DEF RecordDeploy, Conclude, Reply, Step, Holding, CatInv, TypeOK
<1>2. records'[r] # records[r] /\ (r \in RecordsOf(p) \/ r \in RecordsOf(p)')
  BY <1>1 DEF Touches
<1>3. /\ records[r] # None => records[r].product = got[r].product
      /\ records'[r] # None => records'[r].product = got[r].product
  BY <1>1 DEF CatInv, RecordsHold
<1>4. p = got[r].product
  BY <1>2, <1>3 DEF RecordsOf
<1> QED
  BY <1>1, <1>4, HeldTouched

LEMMA StepTouches ==
    ASSUME CatInv, CatInv', NEW r \in Request, NEW p \in ProductId, Touches(p), Handle(r)
    PROVE  Touched(r, p)
<1>1. CASE \/ Refuse(r) \/ Invalid(r) \/ Fail(r) \/ Locked(r)
           \/ resolveProduct(r) \/ ResolveEnv(r)
  <2>1. UNCHANGED <<products, envs, records>>
    BY <1>1 DEF Refuse, Invalid, Fail, Locked, resolveProduct, ResolveEnv, Unchanged
  <2> QED
    BY <2>1 DEF Touches
<1>2. CASE CreateProduct(r)
  <2>1. /\ at[r] = "sent" /\ at' = [at EXCEPT ![r] = "done"] /\ Gate(call[r]) = "pass"
        /\ UNCHANGED <<envs, records>>
    BY <1>2 DEF CreateProduct, Serving, Reply, Step
  <2>2. ASSUME products'[p] # products[p]
        PROVE  p \notin closed[r] /\ products'[p].slug = call[r].slug
    <3>1. PICK n \in ProductId \ Rows : products' = [products EXCEPT ![n] =
              [slug |-> call[r].slug, name |-> call[r].arg,
               archived |-> FALSE, pattern |-> None]]
      BY <1>2, <2>2 DEF CreateProduct
    <3>2. p = n /\ products'[p].slug = call[r].slug
      BY <2>2, <3>1 DEF CatInv, TypeOK
    <3> QED
      BY <3>1, <3>2 DEF CatInv, ClosedAreArchived
  <2> QED
    BY <2>1, <2>2, ProductTouched
<1>3. CASE \/ UpdateProduct(r) \/ ArchiveProduct(r)
           \/ PutTagConvention(r) \/ DeleteTagConvention(r)
  <2>1. PICK op \in {"updateProduct", "archiveProduct", "putConvention", "deleteConvention"},
             done \in {"200", "204"} : Edit(r, op, done)
    BY <1>3 DEF UpdateProduct, ArchiveProduct, PutTagConvention, DeleteTagConvention
  <2>2. /\ at[r] = "sent" /\ at' = [at EXCEPT ![r] = "done"] /\ Gate(call[r]) = "pass"
        /\ call[r].op = op /\ UNCHANGED <<envs, records>>
    BY <2>1 DEF Edit, Serving, Reply, Step
  <2>3. ASSUME products'[p] # products[p]
        PROVE  p \notin closed[r] /\ products'[p].slug = call[r].slug
    <3>1. p \in Editable(call[r]) /\ products'[p] = Edited(products[p], call[r])
      BY <2>1, <2>3 DEF Edit
    <3>2. /\ p \in Rows /\ ~products[p].archived /\ products[p].slug = call[r].slug
          /\ products[p] \in ProductRow
      BY <3>1 DEF Editable, ActiveNamed, Named, Active, Rows, CatInv, TypeOK
    <3>3. products'[p].slug = products[p].slug
      BY <2>2, <3>1, <3>2 DEF Edited, ProductRow
    <3> QED
      BY <3>2, <3>3 DEF CatInv, ClosedAreArchived
  <2> QED
    BY <2>2, <2>3, ProductTouched
<1> QED
  BY <1>1, <1>2, <1>3, EnvTouched, RecordTouched DEF Handle

\* Every change is some request's.
LEMMA ChangeHasAuthor ==
    ASSUME CatInv, CatInv', [Next]_catVars, NEW p \in ProductId, Touches(p)
    PROVE  \E r \in Request : Touched(r, p)
<1>1. ASSUME NEW r \in Request, NEW c \in Asked, Send(r, c) PROVE FALSE
  BY <1>1 DEF Send, Touches
<1>2. ~UNCHANGED catVars
  BY DEF catVars, Touches
<1> QED
  BY <1>1, <1>2, StepTouches DEF Next

\* Only who may edit a product changes it or what belongs to it, whatever ids
\* his request names and whatever runs beside it, and nobody whose request came
\* after the archive (roles.go:28, environment_store.go:91, environments.go:60).
THEOREM EditorsChange == Spec => OnlyEditorsChange
<1> DEFINE Author(p) ==
      \E r \in Request : /\ at'[r] # at[r] /\ call[r].who # None
                        /\ MayEdit(call[r].who, products'[p].slug)
                        /\ p \notin closed[r]
<1> DEFINE Authored == \A p \in ProductId : Touches(p) => Author(p)
<1>1. CatInv /\ CatInv' /\ [Next]_catVars => Authored
  <2> SUFFICES ASSUME CatInv, CatInv', [Next]_catVars, NEW p \in ProductId, Touches(p)
               PROVE  Author(p)
    OBVIOUS
  <2>1. PICK r \in Request : Touched(r, p)
    BY ChangeHasAuthor
  <2>2. call[r].who # None /\ MayEdit(call[r].who, call[r].slug)
    BY <2>1, GateLetsEditors DEF Touched
  <2> QED
    BY <2>1, <2>2 DEF Touched
<1>2. CatInv /\ CatInv' /\ [Next]_catVars => [Authored]_catVars
  BY <1>1
<1> QED
  BY <1>2, CatalogInvariant, PTL DEF Spec, OnlyEditorsChange
=============================================================================
