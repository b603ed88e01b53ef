-------------------------------- MODULE Auth --------------------------------
(***************************************************************************)
(* lib/auth.ts: what a route learns of its caller.  A caller is what the   *)
(* verified Clerk session says: the user, the active organization and      *)
(* whether the user is an administrator there.  A refusal is the HTTP      *)
(* status the routes answer it with.                                       *)
(***************************************************************************)
CONSTANTS
    Users,  \* Clerk user ids
    NoUser, \* no session
    Orgs,   \* Clerk organization ids
    NoOrg   \* no active organization

ASSUME AuthAssumption == NoUser \notin Users /\ NoOrg \notin Orgs

Callers == [userId : Users \cup {NoUser}, orgId : Orgs \cup {NoOrg}, admin : BOOLEAN]

\* A user without an organization passes requireUser and nothing else.
requireUser(c) == IF c.userId = NoUser THEN 401 ELSE 200
requireAuth(c) == IF c.userId = NoUser \/ c.orgId = NoOrg THEN 401 ELSE 200
requireOrgAdmin(c) == IF requireAuth(c) = 200 /\ ~c.admin THEN 403 ELSE requireAuth(c)

=============================================================================
