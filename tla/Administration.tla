---------------------------- MODULE Administration ----------------------------
(***************************************************************************)
(* The management API (admin.routes.ts, admin.service.ts), the seed        *)
(* (db/seed.ts) and the accounts of guests (createGuest of                 *)
(* users.service.ts), over the tables that AccessTokens reads into tokens. *)
(*                                                                         *)
(* A management request checks its token, awaits its subject, and then     *)
(* awaits the statements of its route.  Routes that only read are left out.*)
(***************************************************************************)
EXTENDS AccessTokens

CONSTANTS
  Tenants      \* what is registered beside the platform: a record of tables

VARIABLES
  answered,  \* history: how many callers were told that they created a name
  ever       \* history: the assignments and grants that held at some time

history == <<since, ever>>
vars == <<tables, live, tokens, begun, events, ring, now, req, answered, history>>

ASSUME AdministrationAssumption ==
  /\ Tenants.orgs \subseteq Slugs
  /\ Tenants.services \subseteq 
       [aud: Audiences \ {Platform}, org: Slugs, secret: BOOLEAN, guests: BOOLEAN]
  /\ Tenants.roles \subseteq (Audiences \ {Platform}) \X RoleNames
  /\ Tenants.perms \subseteq (Audiences \ {Platform}) \X Keys
  /\ Tenants.members \subseteq Users \X Slugs
  /\ Tenants.assigned \subseteq Subjects \X Tenants.roles
  /\ Tenants.granted \subseteq Tenants.roles \X Tenants.perms

(***************************************************************************)
(* The permission that each route requires.                                *)
(***************************************************************************)
Needs == [createOrg |-> "orgs:write", registerService |-> "services:write",
          updateService |-> "services:write",
          addMember |-> "members:write", removeMember |-> "members:write",
          createRole |-> "rbac:write", createPermission |-> "rbac:write",
          assign |-> "rbac:write", unassign |-> "rbac:write",
          grant |-> "rbac:write", revoke |-> "rbac:write"]

Routes  == DOMAIN Needs
Creates == {"createOrg", "registerService", "createRole", "createPermission"}

(***************************************************************************)
(* What a request may name.  It does so by UUID, so it names rows that are *)
(* there, or none.                                                         *)
(***************************************************************************)
Registered == {s.aud : s \in services}

Holders == {sub \in Subjects : ~IsUser(sub) => sub[2] \in Registered}

Parents(op) == IF op \in {"registerService", "addMember"} THEN orgs
                                                         ELSE Registered

Children(op, parent) ==
  CASE op = "createOrg"        -> Slugs
    [] op = "registerService"  -> [aud: Audiences, org: {parent},
                                   secret: BOOLEAN, guests: BOOLEAN]
    [] op = "createRole"       -> {parent} \X RoleNames
    [] op = "createPermission" -> {parent} \X Keys

Names == ({"createOrg"} \X Slugs) \cup ({"registerService"} \X Audiences)
           \cup ({"createRole"} \X Roles) \cup ({"createPermission"} \X Perms)

Name(op, x) == <<op, IF op = "registerService" THEN x.aud ELSE x>>

-----------------------------------------------------------------------------
(***************************************************************************)
(* History: of a grant, the roles its subject held and the keys they had   *)
(* since it began; of a management request, whether its subject was live;  *)
(* of a guest, whether a service of the organisation took guests.          *)
(***************************************************************************)
Nothing == [roles |-> {}, granted |-> {}, admitted |-> FALSE]

GrantPcs  == {"member", "roles", "keys"}
ManagePcs == {"subject", "parent", "name", "write"}
GuestPcs  == {"guestUser", "guestMember"}

(***************************************************************************)
(* What the next state shows of the handler that is then in state q, and   *)
(* saw old before.                                                         *)
(***************************************************************************)
Seen(old, q) ==
  IF q.pc \in GrantPcs
    THEN [roles    |-> old.roles \cup {role \in roles' :
                        role[1] = q.aud /\ <<q.sub, role>> \in assigned'},
          granted  |-> old.granted \cup {g \in granted' : g[1][1] = q.aud},
          admitted |-> FALSE]
  ELSE IF q.pc \in ManagePcs
    THEN [Nothing EXCEPT !.admitted =
            old.admitted \/ (IsUser(q.sub) => q.sub[2] \in live')]
  ELSE IF q.pc \in GuestPcs
    THEN [Nothing EXCEPT !.admitted =
            old.admitted \/ \E s \in services' : s.guests /\ s.org = q.row]
  ELSE Nothing

Observe ==
  /\ since' = [r \in Requests |->
       Seen(IF At(r, "idle") THEN Nothing ELSE since[r], req'[r])]
  /\ ever' = [assigned |-> ever.assigned \cup assigned',
              granted  |-> ever.granted \cup granted']

(***************************************************************************)
(* requireAuth awaits the token's subject, and requirePermission judges    *)
(* the token for the route; then the route awaits its first statement.     *)
(* The arguments of a request are chosen where they first matter.          *)
(***************************************************************************)
Ask(r, t) ==
  /\ Present(r, t)
  /\ UNCHANGED answered
  /\ Observe

FirstAwait(op) ==
  CASE op \in {"registerService", "addMember", "createRole",
               "createPermission"}  -> "parent"
    [] op = "createOrg"             -> "name"
    [] OTHER                        -> "write"

Route(r) ==
  /\ At(r, "subject")
  /\ \E op \in Routes :
       IF Admitted(r, Needs[op])
         THEN req' = [req EXCEPT ![r].pc = FirstAwait(op), ![r].op = op]
         ELSE Finish(r)
  /\ UNCHANGED <<tables, live, tokens, begun, events, ring, now, answered>>
  /\ Observe

(***************************************************************************)
(* findOrgById and requireService: what the new row will belong to.  Null  *)
(* is an identifier of nothing.                                            *)
(***************************************************************************)
AfterParent(op) == IF op = "addMember" THEN "write" ELSE "name"

\* Deviation of ReadParent: an unknown parent is not refused.
ReadParentUnasked(r) ==
  /\ At(r, "parent")
  /\ \E parent \in Parents(req[r].op) \cup {Null} :
       req' = [req EXCEPT ![r].pc = AfterParent(req[r].op), ![r].row = parent]
  /\ UNCHANGED <<tables, live, tokens, begun, events, ring, now, answered>>
  /\ Observe

ReadParent(r) ==
  /\ At(r, "parent")
  /\ \E parent \in Parents(req[r].op) \cup {Null} :
       IF parent = Null THEN Finish(r)
       ELSE req' = [req EXCEPT ![r].pc = AfterParent(req[r].op),
                               ![r].row = parent]
  /\ UNCHANGED <<tables, live, tokens, begun, events, ring, now, answered>>
  /\ Observe

(***************************************************************************)
(* findOrgBySlug, findServiceByAudience, findRoleByName and                *)
(* findPermissionByKey; and the UNIQUE index behind each.                  *)
(***************************************************************************)
Taken(op, x) ==
  CASE op = "createOrg"        -> x \in orgs
    [] op = "registerService"  -> x.aud \in Registered
    [] op = "createRole"       -> x \in roles
    [] op = "createPermission" -> x \in perms

ReadName(r) ==
  /\ At(r, "name")
  /\ \E x \in Children(req[r].op, req[r].row) :
       IF Taken(req[r].op, x) THEN Finish(r)
       ELSE req' = [req EXCEPT ![r].pc = "write", ![r].row = x]
  /\ UNCHANGED <<tables, live, tokens, begun, events, ring, now, answered>>
  /\ Observe

InsertRow(op, x) ==
  \/ /\ op = "createOrg"        /\ orgs' = orgs \cup {x}
     /\ UNCHANGED <<services, roles, perms>>
  \/ /\ op = "registerService"  /\ services' = services \cup {x}
     /\ UNCHANGED <<orgs, roles, perms>>
  \/ /\ op = "createRole"       /\ roles' = roles \cup {x}
     /\ UNCHANGED <<orgs, services, perms>>
  \/ /\ op = "createPermission" /\ perms' = perms \cup {x}
     /\ UNCHANGED <<orgs, services, roles>>

Answer(op, x) == answered' = [answered EXCEPT ![Name(op, x)] = @ + 1]

(***************************************************************************)
(* The INSERT of a create fails on its UNIQUE index if the name was taken  *)
(* meanwhile.                                                              *)
(***************************************************************************)
\* Deviation of Create: on a duplicate key the INSERT updates, as those of
\* the join tables do.
CreateOrUpdate(op, x) ==
  /\ IF Taken(op, x) THEN UNCHANGED <<orgs, services, roles, perms>>
                     ELSE InsertRow(op, x)
  /\ Answer(op, x)
  /\ UNCHANGED <<members, assigned, granted>>

Create(op, x) ==
  /\ IF Taken(op, x)
       THEN UNCHANGED <<orgs, services, roles, perms, answered>>
       ELSE InsertRow(op, x) /\ Answer(op, x)
  /\ UNCHANGED <<members, assigned, granted>>

(***************************************************************************)
(* The rows of the join tables: adding one that is there and removing one  *)
(* that is not are both fine.                                              *)
(***************************************************************************)
Join(op, row) ==
  \/ /\ \/ op = "addMember" /\ \E u \in Users : members' = members \cup {<<u, row>>}
        \/ op = "removeMember" /\ \E m \in Users \X orgs : members' = members \ {m}
     /\ UNCHANGED <<assigned, granted>>
  \/ /\ \E a \in Holders \X roles :
          \/ op = "assign"   /\ assigned' = assigned \cup {a}
          \/ op = "unassign" /\ assigned' = assigned \ {a}
     /\ UNCHANGED <<members, granted>>
  \/ /\ \E g \in roles \X perms :
          \/ op = "grant"  /\ granted' = granted \cup {g}
          \/ op = "revoke" /\ granted' = granted \ {g}
     /\ UNCHANGED <<members, assigned>>

(***************************************************************************)
(* updateService changes neither the audience, nor the organisation, nor   *)
(* the secret.                                                             *)
(***************************************************************************)
Patch ==
  \E s \in services, guests \in BOOLEAN :
    services' = (services \ {s}) \cup {[s EXCEPT !.guests = guests]}

Write(r) ==
  /\ At(r, "write")
  /\ \/ req[r].op \in Creates /\ Create(req[r].op, req[r].row)
     \/ /\ Join(req[r].op, req[r].row)
        /\ UNCHANGED <<orgs, services, roles, perms, answered>>
     \/ /\ req[r].op = "updateService" /\ Patch
        /\ UNCHANGED <<orgs, roles, perms, members, assigned, granted, answered>>
  /\ Finish(r)
  /\ UNCHANGED <<live, tokens, begun, events, ring, now>>
  /\ Observe

-----------------------------------------------------------------------------
(***************************************************************************)
(* The seed, a process of its own, run again on every deploy.  Rows of the *)
(* platform are never deleted, so it finds its organisation, service, role *)
(* and permissions; it adds what is missing of the admin role's grants.    *)
(* Each step stands for a find and the INSERT that may follow.             *)
(***************************************************************************)
Seed(r) ==
  /\ Event
  /\ Begin(r, [Idle EXCEPT !.pc = "seedGrants"])
  /\ UNCHANGED <<tables, live, tokens, begun, ring, now, answered>>
  /\ Observe

PlatformGrants == {<<Admin, <<Platform, key>>>> : key \in PlatformKeys}

SeedGrants(r) ==
  /\ At(r, "seedGrants")
  /\ \/ \E g \in PlatformGrants \ granted : granted' = granted \cup {g}
     \/ PlatformGrants \subseteq granted /\ UNCHANGED granted
  /\ IF PlatformGrants \subseteq granted' THEN Await(r, "seedUser")
                                          ELSE UNCHANGED req
  /\ UNCHANGED <<directory, assigned, live, tokens, begun, events, ring, now,
                 answered>>
  /\ Observe

(***************************************************************************)
(* bootstrapAdminAction: an account that has the address is adopted if it  *)
(* is admin already, or if the operator knows its password.  The lookup    *)
(* also finds a deleted row.                                               *)
(***************************************************************************)
BootstrapUser == <<"user", Bootstrap>>

SeedUser(r) ==
  /\ At(r, "seedUser")
  /\ \E passwordMatches \in BOOLEAN :
       IF <<BootstrapUser, Admin>> \in assigned \/ passwordMatches
         THEN Await(r, "seedMember") ELSE Finish(r)
  /\ UNCHANGED <<tables, live, tokens, begun, events, ring, now, answered>>
  /\ Observe

SeedMember(r) ==
  /\ At(r, "seedMember")
  /\ members' = members \cup {<<Bootstrap, Platform>>}
  /\ Await(r, "seedRole")
  /\ UNCHANGED <<orgs, services, roles, perms, assigned, granted, live, tokens,
                 begun, events, ring, now, answered>>
  /\ Observe

SeedRole(r) ==
  /\ At(r, "seedRole")
  /\ assigned' = assigned \cup {<<BootstrapUser, Admin>>}
  /\ Finish(r)
  /\ UNCHANGED <<directory, granted, live, tokens, begun, events, ring, now,
                 answered>>
  /\ Observe

-----------------------------------------------------------------------------
(***************************************************************************)
(* createGuest: the service takes guests; then the row, which has a fresh  *)
(* UUID, and its membership.                                               *)
(***************************************************************************)
\* Deviation of TakesGuests: whether the service opted in is not asked.
TakesAnybody(s) == TRUE

TakesGuests(s) == s.guests

GuestStart(r, s) ==
  /\ Event
  /\ TakesGuests(s)
  /\ Begin(r, [Idle EXCEPT !.pc = "guestUser", !.row = s.org])
  /\ UNCHANGED <<tables, live, tokens, begun, ring, now, answered>>
  /\ Observe

GuestUser(r) ==
  /\ At(r, "guestUser")
  /\ \E u \in Guests \ live :
       /\ live' = live \cup {u}
       /\ req' = [req EXCEPT ![r].pc = "guestMember", ![r].sub = <<"user", u>>]
  /\ UNCHANGED <<tables, tokens, begun, events, ring, now, answered>>
  /\ Observe

GuestMember(r) ==
  /\ At(r, "guestMember")
  /\ members' = members \cup {<<req[r].sub[2], req[r].row>>}
  /\ Finish(r)
  /\ UNCHANGED <<orgs, services, roles, perms, assigned, granted, live, tokens,
                 begun, events, ring, now, answered>>
  /\ Observe

-----------------------------------------------------------------------------
Init ==
  /\ live     = Users \ Guests
  /\ orgs     = {Platform} \cup Tenants.orgs
  /\ services = {[aud |-> Platform, org |-> Platform, secret |-> FALSE,
                 guests |-> FALSE]}
                  \cup Tenants.services
  /\ roles    = {Admin} \cup Tenants.roles
  /\ perms    = ({Platform} \X PlatformKeys) \cup Tenants.perms
  /\ members  = {<<Bootstrap, Platform>>} \cup Tenants.members
  /\ assigned = {<<BootstrapUser, Admin>>} \cup Tenants.assigned
  /\ granted  = PlatformGrants \cup Tenants.granted
  /\ tokens   = {}
  /\ begun    = 0
  /\ \E k \in SigningKeys : ring = [active |-> k, previous |-> {}, setAt |-> 0]
  /\ now      = 0
  /\ req      = [r \in Requests |-> Idle]
  /\ events   = 0
  /\ answered = [n \in Names |-> 0]
  /\ since    = [r \in Requests |-> Nothing]
  /\ ever     = [assigned |-> assigned, granted |-> granted]

(***************************************************************************)
(* A step of AccessTokens, observed.                                       *)
(***************************************************************************)
Beside == Observe /\ UNCHANGED answered

Grant(r) ==
  \/ \E u \in Users, a \in Audiences : GrantUser(r, u, a) /\ Beside
  \/ \E s \in services, a \in Audiences : GrantClient(r, s, a) /\ Beside
  \/ GrantMember(r) /\ Beside
  \/ GrantRoles(r) /\ Beside
  \/ GrantKeys(r) /\ Beside
  \/ CutShort(r) /\ Beside

Manage(r) ==
  \/ \E t \in tokens : Ask(r, t)
  \/ Route(r)
  \/ ReadParent(r)
  \/ ReadName(r)
  \/ Write(r)
  \/ Seed(r)
  \/ SeedGrants(r)
  \/ SeedUser(r)
  \/ SeedMember(r)
  \/ SeedRole(r)
  \/ \E s \in services : GuestStart(r, s)
  \/ GuestUser(r)
  \/ GuestMember(r)

Environment ==
  \/ \E k \in SigningKeys : RotateKeys(k) /\ Beside
  \/ DropPrevious /\ Beside
  \/ \E u \in Users : DeleteUser(u) /\ Beside
  \/ \E u \in Users : PurgeMemberships(u) /\ Beside
  \/ \E u \in Users : PurgeRoles(u) /\ Beside
  \/ Tick /\ Beside

Next == (\E r \in Requests : Grant(r) \/ Manage(r)) \/ Environment

Spec == Init /\ [][Next]_vars

-----------------------------------------------------------------------------
TypeOK ==
  /\ live \subseteq Users
  /\ orgs \subseteq Slugs
  /\ services \subseteq Service
  /\ roles \subseteq Roles
  /\ perms \subseteq Perms
  /\ members \subseteq Users \X Slugs
  /\ assigned \subseteq Subjects \X Roles
  /\ granted \subseteq Roles \X Perms
  /\ tokens \subseteq Token
  /\ begun \in Nat /\ events \in Nat /\ now \in Nat
  /\ ring.active \in SigningKeys /\ ring.previous \subseteq SigningKeys
  /\ ring.setAt \in Nat
  /\ answered \in [Names -> Nat]

(***************************************************************************)
(* A revoke only affects tokens minted afterwards (docs/api.md), and it    *)
(* does affect those: whatever is in the scope of a token, its subject had *)
(* the role and the role had the key at some time since the grant began    *)
(* that mints it.                                                          *)
(***************************************************************************)
RevokedIsNotMinted ==
  [][\A t \in tokens' \ tokens : \E r \in Requests :
       /\ req'[r] # req[r] /\ req[r].sub = t.sub /\ req[r].aud = t.aud
       /\ \A key \in t.scope : \E role \in since[r].roles, p \in Perms :
            role[1] = t.aud /\ p[2] = key /\ <<role, p>> \in since[r].granted]_vars

(***************************************************************************)
(* Nobody escalates: what changes the tables is the seed, which gives only *)
(* the platform's grants and makes only its administrator; a request whose *)
(* subject was given the permission of its route by a role of the          *)
(* platform, and was not deleted when the request came in; a guest who     *)
(* becomes a member where guests were taken; or a purge.  A tenant whose   *)
(* own permissions have the same names gives nothing.                      *)
(***************************************************************************)
Given(sub, key) ==
  \E role \in Roles, p \in Perms :
    /\ role[1] = Platform /\ p[2] = key
    /\ <<sub, role>> \in ever.assigned /\ <<role, p>> \in ever.granted

Permitted(r) == /\ At(r, "write") /\ req'[r] # req[r]
                /\ Given(req[r].sub, Needs[req[r].op]) /\ since[r].admitted

Seeded(r) ==
  \/ /\ At(r, "seedGrants") /\ UNCHANGED <<directory, assigned>>
     /\ granted \subseteq granted' /\ granted' \subseteq granted \cup PlatformGrants
  \/ /\ At(r, "seedMember") /\ UNCHANGED <<orgs, services, roles, perms>>
     /\ members' = members \cup {<<Bootstrap, Platform>>}
     /\ UNCHANGED <<assigned, granted>>
  \/ /\ At(r, "seedRole") /\ UNCHANGED <<directory, granted>>
     /\ assigned' = assigned \cup {<<BootstrapUser, Admin>>}

Welcomed(r) ==
  /\ At(r, "guestMember") /\ since[r].admitted
  /\ UNCHANGED <<orgs, services, roles, perms, assigned, granted>>
  /\ \A m \in (members' \ members) \cup (members \ members') :
       m[1] \in Guests /\ m[2] = req[r].row

Erased ==
  /\ UNCHANGED <<orgs, services, roles, perms, granted>>
  /\ members' \subseteq members /\ assigned' \subseteq assigned
  /\ \E u \in Users \ live : /\ \A m \in members \ members' : m[1] = u
                            /\ \A a \in assigned \ assigned' : a[1] = <<"user", u>>

OnlyGivenAct ==
  [][tables' # tables =>
       \/ \E r \in Requests : Seeded(r) \/ Permitted(r) \/ Welcomed(r)
       \/ Erased]_vars

(***************************************************************************)
(* A rotation of the signing key goes unnoticed: no token is refused for   *)
(* its key before it expires.                                              *)
(***************************************************************************)
LiveTokenVerifies == \A t \in tokens : now < t.exp => Verifies(t)

(***************************************************************************)
(* Of two requests that create one name, one is told so: the secret or the *)
(* identifier that a caller was handed is that of the row.                 *)
(***************************************************************************)
CreatedOnce == \A n \in Names : answered[n] <= 1
=============================================================================
