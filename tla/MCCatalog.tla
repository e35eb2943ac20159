------------------------------ MODULE MCCatalog ------------------------------
(***************************************************************************)
(* A product with a production environment, one with a development         *)
(* environment, room for a third of each, and four users: an administrator,*)
(* an editor of s1 whose token also says viewer, an editor of s2, and      *)
(* somebody without a role.                                                *)
(***************************************************************************)
EXTENDS Catalog, TLC

CONSTANTS r1, r2, r3, p1, p2, p3, e1, e2, e3, s1, s2, s3, semver, release, t1, t2

Admin  == <<[slug |-> Realm, role |-> "devops-admin"]>>
Editor == <<[slug |-> s1, role |-> "viewer"], [slug |-> s1, role |-> "editor"]>>
Other  == <<[slug |-> s2, role |-> "editor"], [slug |-> s1, role |-> "viewer"],
            [slug |-> Realm, role |-> "other"]>>
MCUsers == {Admin, Editor, Other, <<>>}

Prod == [name |-> "Production", slug |-> "prod", type |-> "production"]
Live == [name |-> "Live", slug |-> "prod", type |-> "dev"]
Test == [name |-> "Test", slug |-> "test", type |-> "dev"]
MCEnvBody == {Prod, Live, Test}

Product(s) == [slug |-> s, name |-> "old", archived |-> FALSE, pattern |-> None]
MCStartProducts == (p1 :> Product(s1)) @@ (p2 :> Product(s2)) @@ (p3 :> None)
Env(p, b) == [product |-> p, name |-> b.name, slug |-> b.slug, type |-> b.type]
MCStartEnvs == (e1 :> Env(p1, Prod)) @@ (e2 :> Env(p2, Test)) @@ (e3 :> None)

\* The default convention matches t1 only, the other one both.
MCMatches == {<<semver, t1>>, <<release, t1>>, <<release, t2>>}

Ask(op, who, slug, body, arg) ==
    [op |-> op, who |-> who, slug |-> slug, body |-> body, arg |-> arg]
MCAsked ==
    {Ask("createProduct", Admin, s1, "ok", "new"), Ask("createProduct", Admin, s3, "ok", "new"),
     Ask("createProduct", Editor, s3, "ok", "new"),
     Ask("updateProduct", Editor, s1, "ok", "new"), Ask("updateProduct", None, s1, "ok", "new"),
     Ask("archiveProduct", Editor, s1, "ok", None), Ask("archiveProduct", Other, s1, "ok", None),
     Ask("putConvention", Editor, s1, "ok", release), Ask("putConvention", Admin, s2, "400", release),
     Ask("deleteConvention", Admin, s1, "ok", None),
     Ask("createEnvironment", Editor, s1, "ok", Live), Ask("createEnvironment", Editor, s1, "ok", Test),
     Ask("createEnvironment", Admin, s3, "422", Test),
     Ask("deleteEnvironment", Editor, s1, "ok", e1), Ask("deleteEnvironment", Other, s2, "ok", e1),
     Ask("deploy", Editor, s1, "ok", <<e1, t1>>), Ask("deploy", Editor, s1, "ok", <<e1, t2>>)}

Symmetry == Permutations(Request)
=============================================================================
