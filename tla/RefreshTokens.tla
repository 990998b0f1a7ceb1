---------------------------- MODULE RefreshTokens ----------------------------
(***************************************************************************)
(* Refresh tokens: refreshGrant, revoke and issueTokensForService of       *)
(* src/modules/auth/auth.service.ts over the refresh_tokens table, with    *)
(* everything else that writes that table or decides what they answer:     *)
(* account deletion and purge, password changes, membership, verification  *)
(* of the address, the prune job and the clock.                            *)
(*                                                                         *)
(* A request is a handler running on the event loop. It yields at every    *)
(* await, so each action below runs from one await to the next: it reads   *)
(* the reply of the statement it waited for and issues the next one.       *)
(* Other requests run in between.                                          *)
(***************************************************************************)
EXTENDS TokenStore, FiniteSets

CONSTANTS
  Requests,                  \* the handlers that may run at once
  Orgs,
  OrgOf,                     \* the organisation each service belongs to
  Grace,                     \* REFRESH_TOKEN_REUSE_GRACE
  TTL,                       \* REFRESH_TOKEN_TTL
  Retention,                 \* PRUNE_RETENTION
  RequireEmailVerification,  \* REQUIRE_EMAIL_VERIFICATION
  EmailStates,               \* the states of an address that occur
  Clients,                   \* the credentials that clients present
  Events,                    \* what else happens while handlers run
  MaxTime                    \* bounds the clock

ASSUME RefreshAssumption ==
  /\ OrgOf \in [Services -> Orgs]
  /\ Grace \in Nat /\ TTL \in Nat /\ Retention \in Nat /\ MaxTime \in Nat
  /\ RequireEmailVerification \in BOOLEAN
  /\ EmailStates \subseteq {"none", "unverified", "verified"}
  /\ Clients \subseteq [id: Services \cup {Null}, secret: BOOLEAN]
  /\ Events \subseteq {"fault", "delete", "email", "member", "password",
                      "purge", "prune"}

VARIABLES
  now,        \* Date.now()
  users,      \* the users rows: deletedAt IS NULL, and the email columns
  members,    \* organization_members
  tokens,     \* refresh_tokens
  req,        \* the local state of every handler
  root,       \* history: the first token of the chain a token belongs to
  rotatedAt   \* history: when a token was rotated

vars == <<now, users, members, tokens, req, root, rotatedAt>>

env  == <<now, users, members>>
hist == <<root, rotatedAt>>

(***************************************************************************)
(* The credentials a client sends: client_id, and whether client_secret is *)
(* the secret of the token's own service.                                  *)
(***************************************************************************)
Client   == [id: Services \cup {Null}, secret: BOOLEAN]
NoClient == [id |-> Null, secret |-> FALSE]

Gates == {"live", "verified", "member"}

(***************************************************************************)
(* A handler's local state. pc names the statement whose reply it awaits;  *)
(* existing is the row refreshGrant read first; saw (history) holds the    *)
(* gates that were open at some moment since the handler started.          *)
(***************************************************************************)
Pcs == {"idle", "service", "family", "subject", "member", "rotate", "reread",
        "revoke", "issueSubject", "issueMember", "create"}

Request == [pc: Pcs, token: TokenIds \cup {Null}, client: Client,
            existing: Row, user: Users \cup {Null},
            service: Services \cup {Null}, expiresAt: Nat, saw: SUBSET Gates]

Idle == [pc |-> "idle", token |-> Null, client |-> NoClient,
         existing |-> NoRow, user |-> Null, service |-> Null,
         expiresAt |-> 0, saw |-> {}]

At(r, pc) == req[r].pc = pc

Finish(r) == req' = [req EXCEPT ![r] = Idle]

Await(r, pc) == req' = [req EXCEPT ![r].pc = pc, ![r].existing = NoRow]

-----------------------------------------------------------------------------
(***************************************************************************)
(* The checks. userRepo.findById filters deleted rows, so only a live user *)
(* is found.                                                               *)
(***************************************************************************)
RequireVerifiedEmail(u) ==
  RequireEmailVerification => users[u].email \in {"none", "verified"}

IsMember(u, s) == <<u, OrgOf[s]>> \in members

SubjectAdmitted(u) == users[u].live /\ RequireVerifiedEmail(u)

ClientSecretOk(s, client) == s \in Public \/ client.secret

AuthenticateTokenClient(s, client) ==
  /\ client.id \in {Null, s}
  /\ s \in Public \/ client.id # Null
  /\ ClientSecretOk(s, client)

\* Deviation of JustRotated: the guard on a grace of zero is missing.
JustRotatedSigned(row, t) ==
  /\ row.replacedBy # Null
  /\ row.revokedAt # Null
  /\ t - row.revokedAt < Grace

JustRotated(row, t) ==
  /\ Grace > 0
  /\ row.replacedBy # Null
  /\ row.revokedAt # Null
  /\ t - row.revokedAt < Grace

(***************************************************************************)
(* The gates of user u and service s that are open, for the history.       *)
(***************************************************************************)
Open(live, email, m, u, s) ==
  {g \in Gates : \/ g = "live" /\ live
                 \/ g = "verified" /\ email \in {"none", "verified"}
                 \/ g = "member" /\ <<u, OrgOf[s]>> \in m}

OpenNow(u, s) == Open(users[u].live, users[u].email, members, u, s)

(***************************************************************************)
(* The local state of a handler that begins now.                           *)
(***************************************************************************)
Begun(pc, t, client, row, u, s) ==
  [pc |-> pc, token |-> t, client |-> client, existing |-> row, user |-> u,
   service |-> s, expiresAt |-> 0, saw |-> OpenNow(u, s)]

(***************************************************************************)
(* Every handler in progress sees the gates of the new state.              *)
(***************************************************************************)
WitnessGates ==
  req' = [r \in Requests |->
            IF At(r, "idle") THEN req[r]
            ELSE [req[r] EXCEPT !.saw = @ \cup
                    Open(users'[req[r].user].live, users'[req[r].user].email,
                         members', req[r].user, req[r].service)]]

-----------------------------------------------------------------------------
(***************************************************************************)
(* refreshGrant(refreshToken, client)                                      *)
(***************************************************************************)

(***************************************************************************)
(* findByHash found the row: a token that was never issued, or whose row   *)
(* was deleted, is refused at once and leaves the handler idle.            *)
(***************************************************************************)
RefreshStart(r, t, client) ==
  /\ At(r, "idle")
  /\ tokens[t].st = "row"
  /\ req' = [req EXCEPT ![r] = Begun("service", t, client, tokens[t],
                                     tokens[t].user, tokens[t].service)]
  /\ UNCHANGED <<env, tokens, hist>>

ClientOf(r) == AuthenticateTokenClient(req[r].service, req[r].client)

(***************************************************************************)
(* findServiceById answered: authenticateTokenClient, then the row as it   *)
(* was read. Refused: a client that is not the token's own, a token        *)
(* rotated moments ago, or an expired one.                                 *)
(***************************************************************************)
RefreshRefuse(r) ==
  /\ At(r, "service")
  /\ \/ ~ClientOf(r)
     \/ req[r].existing.revokedAt # Null /\ JustRotated(req[r].existing, now)
     \/ req[r].existing.revokedAt = Null /\ req[r].existing.expiresAt <= now
  /\ Finish(r)
  /\ UNCHANGED <<env, tokens, hist>>

(***************************************************************************)
(* A revoked token was replayed: revokeAllForUser is issued.               *)
(***************************************************************************)
\* Deviation of RefreshDetectReuse: before the client is authenticated.
RefreshDetectReuseFirst(r) ==
  /\ At(r, "service")
  /\ req[r].existing.revokedAt # Null
  /\ ~JustRotated(req[r].existing, now)
  /\ Await(r, "family")
  /\ UNCHANGED <<env, tokens, hist>>

RefreshDetectReuse(r) ==
  /\ At(r, "service")
  /\ ClientOf(r)
  /\ req[r].existing.revokedAt # Null
  /\ ~JustRotated(req[r].existing, now)
  /\ Await(r, "family")
  /\ UNCHANGED <<env, tokens, hist>>

RefreshAccept(r) ==
  /\ At(r, "service")
  /\ ClientOf(r)
  /\ req[r].existing.revokedAt = Null
  /\ req[r].existing.expiresAt > now
  /\ Await(r, "subject")
  /\ UNCHANGED <<env, tokens, hist>>

RefreshSubject(r) ==
  /\ At(r, "subject")
  /\ IF SubjectAdmitted(req[r].user) THEN Await(r, "member") ELSE Finish(r)
  /\ UNCHANGED <<env, tokens, hist>>

(***************************************************************************)
(* The membership check; permissionsForUserInService only fills the scope  *)
(* claim. The next row, expiresAt included, is built before it is inserted.*)
(***************************************************************************)
\* Deviation of RefreshMember: the membership is not checked.
RefreshWithoutMembership(r) ==
  /\ At(r, "member")
  /\ req' = [req EXCEPT ![r].pc = "rotate", ![r].expiresAt = now + TTL]
  /\ UNCHANGED <<env, tokens, hist>>

RefreshMember(r) ==
  /\ At(r, "member")
  /\ IF IsMember(req[r].user, req[r].service)
       THEN req' = [req EXCEPT ![r].pc = "rotate", ![r].expiresAt = now + TTL]
       ELSE Finish(r)
  /\ UNCHANGED <<env, tokens, hist>>

RefreshRotate(r) ==
  /\ At(r, "rotate")
  /\ RotateWins(tokens, req[r].token)
  /\ Free(tokens) # {}
  /\ LET old == req[r].token
         new == CHOOSE t \in Free(tokens) : TRUE
     IN /\ tokens' = Rotate(tokens, old, new, req[r].expiresAt, now)
        /\ root' = [root EXCEPT ![new] = root[old]]
        /\ rotatedAt' = [rotatedAt EXCEPT ![old] = now]
  /\ Finish(r)
  /\ UNCHANGED env

RefreshLoseRace(r) ==
  /\ At(r, "rotate")
  /\ ~RotateWins(tokens, req[r].token)
  /\ Await(r, "reread")
  /\ UNCHANGED <<env, tokens, hist>>

\* Deviation of RefreshReread: a lost race is taken for theft at once.
RereadWithoutGrace(r) ==
  /\ At(r, "reread")
  /\ Await(r, "family")
  /\ UNCHANGED <<env, tokens, hist>>

(***************************************************************************)
(* The second findByHash: the row may have been deleted since.             *)
(***************************************************************************)
RefreshReread(r) ==
  /\ At(r, "reread")
  /\ LET row == tokens[req[r].token]
     IN IF row.st = "row" /\ JustRotated(row, now)
          THEN Finish(r)
          ELSE Await(r, "family")
  /\ UNCHANGED <<env, tokens, hist>>

(***************************************************************************)
(* revokeAllForUser, and the refresh_token_reuse answer.                   *)
(***************************************************************************)
RevokeFamily(r) ==
  /\ At(r, "family")
  /\ tokens' = RevokeAllForUser(tokens, req[r].user, now)
  /\ Finish(r)
  /\ UNCHANGED <<env, hist>>

-----------------------------------------------------------------------------
(***************************************************************************)
(* revoke(refreshToken, client)                                            *)
(***************************************************************************)

(***************************************************************************)
(* Only a token that was active when it was read gets to the UPDATE.       *)
(***************************************************************************)
RevokeStart(r, t, client) ==
  /\ At(r, "idle")
  /\ Live(tokens, t)
  /\ AuthenticateTokenClient(tokens[t].service, client)
  /\ req' = [req EXCEPT ![r] = Begun("revoke", t, client, NoRow,
                                     tokens[t].user, tokens[t].service)]
  /\ UNCHANGED <<env, tokens, hist>>

RevokeRow(r) ==
  /\ At(r, "revoke")
  /\ tokens' = Revoke(tokens, req[r].token, now)
  /\ Finish(r)
  /\ UNCHANGED <<env, hist>>

-----------------------------------------------------------------------------
(***************************************************************************)
(* issueTokensForService(userId, audience): a grant whose proof (password, *)
(* authorization code) was accepted starts a chain.                        *)
(***************************************************************************)
IssueStart(r, u, s) ==
  /\ At(r, "idle")
  /\ req' = [req EXCEPT ![r] =
                Begun("issueSubject", Null, NoClient, NoRow, u, s)]
  /\ UNCHANGED <<env, tokens, hist>>

IssueSubject(r) ==
  /\ At(r, "issueSubject")
  /\ IF SubjectAdmitted(req[r].user) THEN Await(r, "issueMember") ELSE Finish(r)
  /\ UNCHANGED <<env, tokens, hist>>

\* Deviation of IssueMember: the lifetime is subtracted.
IssueExpired(r) ==
  /\ At(r, "issueMember")
  /\ IF IsMember(req[r].user, req[r].service)
       THEN req' = [req EXCEPT ![r].pc = "create", ![r].expiresAt = now - TTL]
       ELSE Finish(r)
  /\ UNCHANGED <<env, tokens, hist>>

IssueMember(r) ==
  /\ At(r, "issueMember")
  /\ IF IsMember(req[r].user, req[r].service)
       THEN req' = [req EXCEPT ![r].pc = "create", ![r].expiresAt = now + TTL]
       ELSE Finish(r)
  /\ UNCHANGED <<env, tokens, hist>>

IssueCreate(r) ==
  /\ At(r, "create")
  /\ Free(tokens) # {}
  /\ LET new == CHOOSE t \in Free(tokens) : TRUE
     IN /\ tokens' = Create(tokens, new, req[r].user, req[r].service,
                            req[r].expiresAt)
        /\ root' = [root EXCEPT ![new] = new]
  /\ Finish(r)
  /\ UNCHANGED <<env, rotatedAt>>

-----------------------------------------------------------------------------
(***************************************************************************)
(* A statement fails, or the process dies: the handler runs no further.    *)
(* So does one that needs a token when the bound leaves none.              *)
(***************************************************************************)
CutShort(r) ==
  /\ ~At(r, "idle")
  /\ \/ "fault" \in Events
     \/ req[r].pc \in {"rotate", "create"} /\ Free(tokens) = {}
  /\ Finish(r)
  /\ UNCHANGED <<env, tokens, hist>>

(***************************************************************************)
(* The rest of the system.                                                 *)
(***************************************************************************)
Tick ==
  /\ now < MaxTime
  /\ now' = now + 1
  /\ UNCHANGED <<users, members, tokens, req, hist>>

(***************************************************************************)
(* Soft deletion revokes nothing, and nothing undoes it.                   *)
(***************************************************************************)
SoftDelete(u) ==
  /\ "delete" \in Events
  /\ users[u].live
  /\ users' = [users EXCEPT ![u].live = FALSE]
  /\ UNCHANGED <<now, members, tokens, req, hist>>

(***************************************************************************)
(* Verifying an address, or changing it: an account that has an address    *)
(* never loses it.                                                         *)
(***************************************************************************)
SetEmail(u, e) ==
  /\ "email" \in Events
  /\ users[u].live
  /\ e \in EmailStates \ {"none", users[u].email}
  /\ users' = [users EXCEPT ![u].email = e]
  /\ UNCHANGED members
  /\ WitnessGates
  /\ UNCHANGED <<now, tokens, hist>>

AddMember(u, o) ==
  /\ "member" \in Events
  /\ members' = members \cup {<<u, o>>}
  /\ UNCHANGED users
  /\ WitnessGates
  /\ UNCHANGED <<now, tokens, hist>>

RemoveMember(u, o) ==
  /\ "member" \in Events
  /\ members' = members \ {<<u, o>>}
  /\ UNCHANGED <<now, users, tokens, req, hist>>

(***************************************************************************)
(* The revokeAllForUser of a password change or a password reset.          *)
(***************************************************************************)
PasswordChanged(u) ==
  /\ "password" \in Events
  /\ tokens' = RevokeAllForUser(tokens, u, now)
  /\ UNCHANGED <<env, req, hist>>

(***************************************************************************)
(* The purge of an account removes its rows; only deleted accounts are     *)
(* purged.                                                                 *)
(***************************************************************************)
PurgeTokens(u) ==
  /\ "purge" \in Events
  /\ ~users[u].live
  /\ tokens' = DeleteAllForUser(tokens, u)
  /\ UNCHANGED <<env, req, hist>>

PruneExpired ==
  /\ "prune" \in Events
  /\ tokens' = DeleteExpiredBefore(tokens, now - Retention)
  /\ UNCHANGED <<env, req, hist>>

-----------------------------------------------------------------------------
Init ==
  /\ now = 0
  /\ users \in [Users -> [live: {TRUE}, email: EmailStates]]
  /\ members = Users \X Orgs
  /\ tokens = [t \in TokenIds |-> NoRow]
  /\ req = [r \in Requests |-> Idle]
  /\ root = [t \in TokenIds |-> Null]
  /\ rotatedAt = [t \in TokenIds |-> Null]

Start(r) ==
  \/ \E t \in TokenIds, client \in Clients : RefreshStart(r, t, client)
  \/ \E t \in TokenIds, client \in Clients : RevokeStart(r, t, client)
  \/ \E u \in Users, s \in Services : IssueStart(r, u, s)

Continue(r) ==
  \/ RefreshRefuse(r)
  \/ RefreshDetectReuse(r)
  \/ RefreshAccept(r)
  \/ RefreshSubject(r)
  \/ RefreshMember(r)
  \/ RefreshRotate(r)
  \/ RefreshLoseRace(r)
  \/ RefreshReread(r)
  \/ RevokeFamily(r)
  \/ RevokeRow(r)
  \/ IssueSubject(r)
  \/ IssueMember(r)
  \/ IssueCreate(r)

Environment ==
  \/ Tick
  \/ PruneExpired
  \/ \E u \in Users : SoftDelete(u) \/ PasswordChanged(u) \/ PurgeTokens(u)
  \/ \E u \in Users, e \in EmailStates : SetEmail(u, e)
  \/ \E u \in Users, o \in Orgs : AddMember(u, o) \/ RemoveMember(u, o)

Next ==
  \/ \E r \in Requests : Start(r) \/ Continue(r) \/ CutShort(r)
  \/ Environment

Spec == Init /\ [][Next]_vars

(***************************************************************************)
(* A handler whose statement was answered is resumed by the event loop;    *)
(* the 15-second timeout of app.ts answers the client but does not stop    *)
(* the handler.                                                            *)
(***************************************************************************)
FairSpec == Spec /\ \A r \in Requests : WF_vars(Continue(r))

-----------------------------------------------------------------------------
TypeOK ==
  /\ now \in 0..MaxTime
  /\ users \in [Users -> [live: BOOLEAN, email: EmailStates]]
  /\ members \subseteq Users \X Orgs
  /\ tokens \in [TokenIds -> Row]
  /\ req \in [Requests -> Request]
  /\ root \in [TokenIds -> TokenIds \cup {Null}]
  /\ rotatedAt \in [TokenIds -> Nat \cup {Null}]

(***************************************************************************)
(* However the handlers interleave, a chain has at most one usable token:  *)
(* two refreshes racing with one token cannot both be answered with a      *)
(* successor (the conditional UPDATE of rotate).                           *)
(***************************************************************************)
OneLiveTokenPerChain ==
  \A t1, t2 \in TokenIds :
    Live(tokens, t1) /\ Live(tokens, t2) /\ root[t1] = root[t2] => t1 = t2

(***************************************************************************)
(* A rotated token never outlasts its successor: the row it was replaced   *)
(* by was inserted with it, belongs to the same chain and expires no       *)
(* earlier, so pruning and purging cannot leave a replaced token whose     *)
(* replacement is missing (the transaction of rotate, and db/prune.ts).    *)
(***************************************************************************)
SuccessorPresent ==
  \A t \in TokenIds :
    tokens[t].st = "row" /\ tokens[t].replacedBy # Null =>
      LET next == tokens[t].replacedBy
      IN /\ tokens[next].st = "row"
         /\ tokens[next].user = tokens[t].user
         /\ tokens[next].expiresAt >= tokens[t].expiresAt
         /\ root[next] = root[t]

(***************************************************************************)
(* Nobody but the token's own client can change the table with it: a       *)
(* caller who holds a stale token of a confidential client but not its     *)
(* secret can neither rotate, nor revoke, nor trigger the family           *)
(* revocation (the order of checks in refreshGrant).                       *)
(***************************************************************************)
OnlyOwnClientActs ==
  [][\A r \in Requests :
       /\ req[r].pc \in {"family", "rotate", "revoke"}
       /\ req'[r] # req[r] /\ tokens' # tokens
       => \/ req[r].service \in Public
          \/ req[r].client = [id |-> req[r].service, secret |-> TRUE]]_vars

(***************************************************************************)
(* Removing a member, deleting an account or un-verifying its address is a *)
(* revocation control: a handler about to mint a token began, or ran, at a *)
(* moment when the user was live, a member, and verified when that is      *)
(* required. A request made after the gate closed for good mints nothing.  *)
(***************************************************************************)
MinterPassedEveryGate ==
  \A r \in Requests : req[r].pc \in {"rotate", "create"} =>
    /\ {"live", "member"} \subseteq req[r].saw
    /\ RequireEmailVerification => "verified" \in req[r].saw

(***************************************************************************)
(* Two tabs refreshing at once do not sign the user out: no handler goes   *)
(* on to revoke the family over a token whose rotation is more recent than *)
(* half a second less than Grace, unless the row is gone (justRotated, at  *)
(* both of its places). The half second is what revoked_at may be rounded  *)
(* into the past.                                                          *)
(***************************************************************************)
RaceWithinGraceIsForgiven ==
  [][\A r \in Requests :
       ~At(r, "family") /\ At(r, "family")' =>
         LET t == req[r].token
         IN \/ tokens[t].st # "row"
            \/ rotatedAt[t] = Null
            \/ 2 * (now - rotatedAt[t]) + Resolution > 2 * Grace]_vars

Dead(t) == tokens[t].st = "deleted" \/ tokens[t].revokedAt # Null

ReplaySeen(r) ==
  \/ At(r, "family")
  \/ /\ At(r, "service")
     /\ \/ req[r].service \in Public /\ req[r].client.id = Null
        \/ req[r].client = [id |-> req[r].service, secret |-> TRUE]
     /\ req[r].existing.revokedAt # Null
     /\ \/ req[r].existing.replacedBy = Null
        \/ Grace = 0
        \/ now - req[r].existing.revokedAt >= Grace

(***************************************************************************)
(* Replaying a retired token ends the user's sessions: when a handler of   *)
(* the right client read a revoked row that is past its grace, or that was *)
(* revoked rather than rotated, every refresh token the user holds at that *)
(* moment is eventually dead, and so is every one when a handler lost the  *)
(* rotation race (refreshGrant).                                           *)
(***************************************************************************)
ReplayEndsFamily ==
  \A r \in Requests, t \in TokenIds :
    (ReplaySeen(r) /\ Live(tokens, t) /\ tokens[t].user = req[r].user)
      ~> Dead(t)

(***************************************************************************)
(* The chains of RotationChain: the usable tokens that share a root.       *)
(***************************************************************************)
Chain == INSTANCE RotationChain WITH
  current <- [c \in TokenIds |->
                {t \in TokenIds : Live(tokens, t) /\ root[t] = c}],
  used <- {t \in TokenIds : tokens[t].st # "free"}

(***************************************************************************)
(* Every interleaving of refreshes, revocations, purges and prunes behaves *)
(* as the abstract chains do: in particular no token of a chain that was   *)
(* ended becomes usable, whichever handler was still in flight.            *)
(***************************************************************************)
RotationChainSpec == Chain!Spec
=============================================================================
