------------------------------- MODULE Access -------------------------------
(***************************************************************************)
(* Who may call what: the roles a token carries (internal/auth/roles.go),  *)
(* their order (internal/domain/identity.go), the middleware that compares *)
(* them with what a route requires (internal/api/middleware/rbac.go), and  *)
(* the check the handlers repeat (checkProductAccess).                     *)
(*                                                                         *)
(* A realm role is kubegate:<word> or kubegate:product-<slug>:<role>.  A   *)
(* claim is such a role, with Realm in the place of the slug in the first  *)
(* form; a role with another prefix or another shape is one whose "role"   *)
(* says nothing to KubeGate.                                               *)
(***************************************************************************)
EXTENDS Naturals, Sequences

CONSTANTS
    Slug,           \* product slugs
    Realm           \* where a product's slug would be in a two-part role

ASSUME RealmIsNoSlug == Realm \notin Slug

Role == {"viewer", "editor"}
Claim == [slug : Slug \cup {Realm}, role : Role \cup {"devops-admin", "other"}]

\* The claims parseProductRole makes something of.
ProductClaims(claims) ==
    {i \in DOMAIN claims : claims[i].slug \in Slug /\ claims[i].role \in Role}

Last(S) == CHOOSE i \in S : \A j \in S : j <= i

\* A map filled in the order of the claims: of two claims on one product the
\* later counts, be it the lower one.
extractRoles(claims) ==
    [admin |-> \E i \in DOMAIN claims :
                   claims[i] = [slug |-> Realm, role |-> "devops-admin"],
     roles |-> [s \in {claims[i].slug : i \in ProductClaims(claims)} |->
                   claims[Last({i \in ProductClaims(claims) : claims[i].slug = s})].role]]

\* 0 for a role that is not known.
roleOrder(r) == CASE r = "viewer" -> 1 [] r = "editor" -> 2 [] OTHER -> 0

RoleAtLeast(have, need) ==
    roleOrder(have) > 0 /\ roleOrder(need) > 0 /\ roleOrder(have) >= roleOrder(need)

\* What a middleware answers, or "pass" when it hands the request on.  The
\* identity is the outcome of extractRoles.
RequireAdmin(id) == IF id.admin THEN "pass" ELSE "403"

RequireRole(id, slug, need) ==
    CASE id.admin -> "pass"
      [] ~id.admin /\ slug \notin DOMAIN id.roles -> "404"
      [] ~id.admin /\ slug \in DOMAIN id.roles ->
            IF RoleAtLeast(id.roles[slug], need) THEN "pass" ELSE "403"

checkProductAccess(id, slug) ==
    IF id.admin \/ slug \in DOMAIN id.roles THEN "pass" ELSE "404"
=============================================================================
