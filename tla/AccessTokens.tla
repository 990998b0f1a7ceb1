----------------------------- MODULE AccessTokens -----------------------------
(***************************************************************************)
(* Who may do what in which service, and the access tokens that say so:    *)
(* the tables of roles and permissions (rbac.repository.drizzle.ts), the   *)
(* grants that read them into a token's scope (issueTokensForService and   *)
(* clientCredentialsGrant of auth.service.ts), the ring of signing keys    *)
(* (keys.ts, jwt.ts) and requireAuth and requirePermission, which judge a  *)
(* token.  Administration adds the requests that change the tables.        *)
(*                                                                         *)
(* UNIQUE names stand for rows: a service is its audience, a role or a     *)
(* permission its service with its name or key.  user_roles and            *)
(* client_roles are one table, assigned, whose subjects are tagged.        *)
(***************************************************************************)
EXTENDS Integers

CONSTANTS
  Users,
  Guests,       \* those that createGuest may create
  Bootstrap,    \* the account that holds BOOTSTRAP_ADMIN_EMAIL
  Audiences,    \* bounds the services; "platform" is authx's own
  Slugs,        \* bounds the organisations
  RoleNames,
  Keys,         \* permission keys
  SigningKeys,  \* bounds the key pairs that are generated
  Requests,     \* the handlers that may run at once
  Null,
  TTL,          \* ACCESS_TOKEN_TTL
  MaxTime,      \* bounds the clock
  MaxGrants,    \* bounds the grants a behaviour may begin
  MaxEvents     \* bounds its requests, seeds, deletions and rotations

Platform == "platform"
Admin    == <<Platform, "admin">>

PlatformKeys == {"orgs:write", "services:write", "members:write", "rbac:write"}

ASSUME AccessAssumption ==
  /\ Guests \subseteq Users /\ Bootstrap \in Users \ Guests
  /\ Platform \in Audiences \cap Slugs
  /\ "admin" \in RoleNames
  /\ PlatformKeys \subseteq Keys
  /\ SigningKeys # {} /\ Null \notin SigningKeys
  /\ TTL \in Nat \ {0} /\ MaxTime \in Nat /\ MaxGrants \in Nat /\ MaxEvents \in Nat

Roles    == Audiences \X RoleNames
Perms    == Audiences \X Keys
Subjects == ({"user"} \X Users) \cup ({"service"} \X Audiences)

VARIABLES
  live,      \* the users that are there and not deleted
  orgs,      \* organizations
  services,  \* app_services
  roles,     \* roles
  perms,     \* permissions
  members,   \* memberships
  assigned,  \* user_roles and client_roles
  granted,   \* role_permissions
  tokens,    \* the access tokens that clients hold
  begun,     \* the grants begun, for MaxGrants
  events,    \* what else happened, for MaxEvents
  ring,      \* the KeySet of the process, and when its active key was set
  now,
  req,       \* the local state of every handler
  since      \* history: what held at some time since a handler began

directory == <<orgs, services, roles, perms, members>>
tables    == <<directory, assigned, granted>>

Service == [aud: Audiences, org: Slugs, secret: BOOLEAN, guests: BOOLEAN]

Token == [sub: Subjects, aud: Audiences, scope: SUBSET Keys,
          exp: Nat, kid: SigningKeys]

Pcs == {"idle", "member", "roles", "keys",
        "subject", "parent", "name", "write",
        "guestUser", "guestMember",
        "seedGrants", "seedUser", "seedMember", "seedRole"}

(***************************************************************************)
(* A handler's local state: for a grant the subject, the service and the   *)
(* roles it read; for a management request the token, the route and the    *)
(* row it is about to create; for a guest the organisation.                *)
(***************************************************************************)
Idle == [pc |-> "idle", sub |-> Null, aud |-> Null, held |-> {},
         tok |-> Null, op |-> Null, row |-> Null]

Event == events < MaxEvents /\ events' = events + 1

At(r, pc) == req[r].pc = pc

Finish(r) == req' = [req EXCEPT ![r] = Idle]

Await(r, pc) == req' = [req EXCEPT ![r].pc = pc]

Begin(r, state) ==
  /\ At(r, "idle")
  /\ req' = [req EXCEPT ![r] = state]

IsUser(sub) == sub[1] = "user"
LiveSubject(sub) == IsUser(sub) => sub[2] \in live

-----------------------------------------------------------------------------
(***************************************************************************)
(* issueTokensForService: the user is there; its row was verified (that    *)
(* gate, and the refresh token, are in RefreshTokens).                     *)
(***************************************************************************)
GrantUser(r, u, a) ==
  /\ begun < MaxGrants
  /\ u \in live /\ \E s \in services : s.aud = a
  /\ Begin(r, [Idle EXCEPT !.pc = "member", !.sub = <<"user", u>>, !.aud = a])
  /\ begun' = begun + 1
  /\ UNCHANGED <<tables, live, tokens, events, ring, now>>

GrantMember(r) ==
  /\ At(r, "member")
  /\ IF \E s \in services : /\ s.aud = req[r].aud
                            /\ <<req[r].sub[2], s.org>> \in members
       THEN Await(r, "roles") ELSE Finish(r)
  /\ UNCHANGED <<tables, live, tokens, begun, events, ring, now>>

(***************************************************************************)
(* clientCredentialsGrant by a confidential client with its secret.  The   *)
(* service it asks for is there by the time it is read.                    *)
(***************************************************************************)
GrantClient(r, s, a) ==
  /\ begun < MaxGrants
  /\ s \in services /\ s.secret /\ \E t \in services : t.aud = a
  /\ Begin(r, [Idle EXCEPT !.pc = "roles", !.sub = <<"service", s.aud>>,
                           !.aud = a])
  /\ begun' = begun + 1
  /\ UNCHANGED <<tables, live, tokens, events, ring, now>>

(***************************************************************************)
(* permissionsForUserInService and permissionsForClientInService read the  *)
(* roles first, and the keys of those roles in a later statement.          *)
(***************************************************************************)
\* Deviation of RolesInService: the roles of every service are read.
RolesAnywhere(sub, a) == {role \in roles : <<sub, role>> \in assigned}

RolesInService(sub, a) ==
  {role \in roles : <<sub, role>> \in assigned /\ role[1] = a}

KeysOf(held) == {p[2] : p \in {q \in perms : \E role \in held :
                                              <<role, q>> \in granted}}

(***************************************************************************)
(* signAccessToken: the token names the active key as its kid.             *)
(***************************************************************************)
Mint(r, scope) ==
  /\ tokens' = tokens \cup
       {[sub |-> req[r].sub, aud |-> req[r].aud, scope |-> scope,
         exp |-> now + TTL, kid |-> ring.active]}
  /\ Finish(r)

GrantRoles(r) ==
  /\ At(r, "roles")
  /\ LET held == RolesInService(req[r].sub, req[r].aud) IN
       IF held = {} THEN Mint(r, {})
       ELSE /\ req' = [req EXCEPT ![r].pc = "keys", ![r].held = held]
            /\ UNCHANGED tokens
  /\ UNCHANGED <<tables, live, begun, events, ring, now>>

GrantKeys(r) ==
  /\ At(r, "keys")
  /\ Mint(r, KeysOf(req[r].held))
  /\ UNCHANGED <<tables, live, begun, events, ring, now>>

-----------------------------------------------------------------------------
(***************************************************************************)
(* verifyWithKeyRing: the key by the token's kid, then the expiry.         *)
(***************************************************************************)
\* Deviation of KeyKnown: only the active key is tried.
KeyActive(kid) == kid = ring.active

KeyKnown(kid) == kid = ring.active \/ kid \in ring.previous

Verifies(t) == KeyKnown(t.kid) /\ now < t.exp

(***************************************************************************)
(* requirePlatform and requirePermission: a key counts only in a token for *)
(* the platform, for a tenant's service may define a key of the same name. *)
(***************************************************************************)
\* Deviation of HasPermission: the audience is not looked at.
HasKey(t, key) == key \in t.scope

HasPermission(t, key) == t.aud = Platform /\ key \in t.scope

(***************************************************************************)
(* requireAuth: the signature is checked before the user is awaited.       *)
(***************************************************************************)
Present(r, t) ==
  /\ Event /\ Verifies(t)
  /\ Begin(r, [Idle EXCEPT !.pc = "subject", !.sub = t.sub, !.tok = t])
  /\ UNCHANGED <<tables, live, tokens, begun, ring, now>>

Admitted(r, key) ==
  /\ At(r, "subject")
  /\ LiveSubject(req[r].sub)
  /\ HasPermission(req[r].tok, key)

-----------------------------------------------------------------------------
(***************************************************************************)
(* A deploy with a new key pair, as docs/api.md tells the operator: the    *)
(* old public key stays as a previous one, and the process is restarted.   *)
(* Once every token it signed has expired, it may be dropped.              *)
(***************************************************************************)
RotateKeys(k) ==
  /\ Event
  /\ k \notin {ring.active} \cup ring.previous
  /\ ring' = [active |-> k, previous |-> ring.previous \cup {ring.active},
              setAt |-> now]
  /\ req' = [r \in Requests |-> Idle]
  /\ UNCHANGED <<tables, live, tokens, begun, now>>

DropPrevious ==
  /\ ring.previous # {} /\ now >= ring.setAt + TTL
  /\ ring' = [ring EXCEPT !.previous = {}]
  /\ req' = [r \in Requests |-> Idle]
  /\ UNCHANGED <<tables, live, tokens, begun, events, now>>

Tick ==
  /\ now < MaxTime
  /\ now' = now + 1
  /\ UNCHANGED <<tables, live, tokens, begun, events, ring, req>>

(***************************************************************************)
(* softDelete, by whichever route.                                         *)
(***************************************************************************)
DeleteUser(u) ==
  /\ Event
  /\ u \in live \ Guests
  /\ live' = live \ {u}
  /\ UNCHANGED <<tables, tokens, begun, ring, now, req>>

(***************************************************************************)
(* purgeDeletedBefore, of this module's tables, statement by statement.    *)
(* What Bootstrap names is there as long as the model runs.                *)
(***************************************************************************)
Purgeable == Users \ (live \cup Guests \cup {Bootstrap})

PurgeMemberships(u) ==
  /\ u \in Purgeable
  /\ members' = {m \in members : m[1] # u}
  /\ UNCHANGED <<orgs, services, roles, perms, assigned, granted, live, tokens,
                 begun, events, ring, now, req>>

PurgeRoles(u) ==
  /\ u \in Purgeable
  /\ assigned' = {a \in assigned : a[1] # <<"user", u>>}
  /\ UNCHANGED <<directory, granted, live, tokens, begun, events, ring, now, req>>

(***************************************************************************)
(* A statement fails, or the process stops.                                *)
(***************************************************************************)
CutShort(r) ==
  /\ ~At(r, "idle")
  /\ Finish(r)
  /\ UNCHANGED <<tables, live, tokens, begun, events, ring, now>>
=============================================================================
