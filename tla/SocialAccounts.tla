---------------------------- MODULE SocialAccounts ----------------------------
(***************************************************************************)
(* Google accounts and the users they sign in: loginWithGoogle and         *)
(* linkGoogleToUser of src/modules/auth/auth.service.ts over the users and *)
(* social_accounts tables, with the requests that create, verify, delete   *)
(* and purge users beside them.                                            *)
(*                                                                         *)
(* A request yields at every await, so each action runs from the reply to  *)
(* one statement to the issue of the next. What Google answers is external:*)
(* an account, its address, and whether that address is verified.          *)
(***************************************************************************)
EXTENDS Naturals

CONSTANTS
  Users,      \* bounds the users that are ever created
  Googles,    \* Google accounts
  Addresses,
  EmailOf,    \* the address of each Google account
  Requests,   \* the handlers that may run at once
  Null        \* no user, no Google account; the address of a guest

ASSUME SocialAssumption ==
  /\ Null \notin Users \cup Googles \cup Addresses
  /\ EmailOf \in [Googles -> Addresses]

VARIABLES
  users,   \* the users rows
  links,   \* social_accounts: the user each Google account is linked to
  req,     \* the local state of every handler
  born,    \* history: the Google account whose sign-in created the user,
           \* unless its address has been changed since
  faulted  \* history: the users for whom a bind met a failing statement

vars == <<users, links, req, born, faulted>>

(***************************************************************************)
(* "none" is a row that was not inserted yet, "purged" one that is gone;   *)
(* "purging": db:prune has deleted what hangs on the row.                  *)
(***************************************************************************)
User == [st: {"none", "live", "deleted", "purging", "purged"},
         email: Addresses \cup {Null}, verified: BOOLEAN, password: BOOLEAN]

NoUser == [st |-> "none", email |-> Null, verified |-> FALSE, password |-> FALSE]

(***************************************************************************)
(* takesEmail and ours (the link was there already) are linkGoogleToUser's.*)
(***************************************************************************)
Request == [pc: {"idle", "subject", "byEmail", "anyByEmail", "create", "link",
                 "bindFind", "bindAny", "bindLink", "patch", "patched", "unlink"},
            google: Googles \cup {Null}, user: Users \cup {Null},
            takesEmail: BOOLEAN, ours: BOOLEAN]

Idle == [pc |-> "idle", google |-> Null, user |-> Null,
         takesEmail |-> FALSE, ours |-> FALSE]

At(r, pc) == req[r].pc = pc

Finish(r) == req' = [req EXCEPT ![r] = Idle]

Await(r, pc) == req' = [req EXCEPT ![r].pc = pc]

Live(u) == users[u].st = "live"

Row(u) == users[u].st \in {"live", "deleted", "purging"}

\* Deviation of Holders: a deleted row gives its address up.
LiveHolders(a) == {u \in Users : Live(u) /\ users[u].email = a}

(***************************************************************************)
(* findAnyByEmail, and the UNIQUE index on users.email.                    *)
(***************************************************************************)
Holders(a) == {u \in Users : Row(u) /\ users[u].email = a}

Email(r) == EmailOf[req[r].google]

-----------------------------------------------------------------------------
(***************************************************************************)
(* loginWithGoogle. An unknown Google account is refused here unless       *)
(* Google says that its address is verified.                               *)
(***************************************************************************)
LoginStart(r, g, emailVerified) ==
  /\ At(r, "idle")
  /\ links[g] # Null \/ emailVerified
  /\ req' = [req EXCEPT ![r] =
       [Idle EXCEPT !.pc = IF links[g] # Null THEN "subject" ELSE "byEmail",
                    !.google = g, !.user = links[g]]]
  /\ UNCHANGED <<users, links, born, faulted>>

(***************************************************************************)
(* subjectExists: whether it does only decides what is answered.           *)
(***************************************************************************)
LoginSubject(r) ==
  /\ At(r, "subject")
  /\ Finish(r)
  /\ UNCHANGED <<users, links, born, faulted>>

(***************************************************************************)
(* findByEmail answered: nobody, an account that must prove itself first,  *)
(* or one whose address is proven and that has no password.                *)
(***************************************************************************)
LoginByEmail(r) ==
  /\ At(r, "byEmail")
  /\ LET found == {u \in Holders(Email(r)) : Live(u)}
     IN \/ found = {} /\ Await(r, "anyByEmail")
        \/ \E u \in found :
             IF users[u].password \/ ~users[u].verified
               THEN Finish(r)
               ELSE req' = [req EXCEPT ![r].pc = "link", ![r].user = u]
  /\ UNCHANGED <<users, links, born, faulted>>

LoginAnyByEmail(r) ==
  /\ At(r, "anyByEmail")
  /\ IF Holders(Email(r)) = {} THEN Await(r, "create") ELSE Finish(r)
  /\ UNCHANGED <<users, links, born, faulted>>

\* Deviation of Created: the address waits for a verification mail.
CreatedUnverified(a) ==
  [st |-> "live", email |-> a, verified |-> FALSE, password |-> FALSE]

Created(a) ==
  [st |-> "live", email |-> a, verified |-> TRUE, password |-> FALSE]

LoginCreate(r) ==
  /\ At(r, "create")
  /\ \/ /\ Holders(Email(r)) = {}
        /\ \E u \in Users :
             /\ users[u].st = "none"
             /\ users' = [users EXCEPT ![u] = Created(Email(r))]
             /\ born' = [born EXCEPT ![u] = req[r].google]
             /\ req' = [req EXCEPT ![r].pc = "link", ![r].user = u]
     \/ /\ Holders(Email(r)) # {}
        /\ Finish(r)
        /\ UNCHANGED <<users, born>>
  /\ UNCHANGED <<links, faulted>>

-----------------------------------------------------------------------------
\* Deviation of Claims: an upsert, which moves the Google account.
ClaimsAnyway(g) == TRUE

(***************************************************************************)
(* UNIQUE (provider, provider_account_id): an insert for a Google account  *)
(* that is linked already fails, and so does the handler.                  *)
(***************************************************************************)
Claims(g) == links[g] = Null

LoginLink(r) ==
  /\ At(r, "link")
  /\ links' = IF Claims(req[r].google)
                THEN [links EXCEPT ![req[r].google] = req[r].user]
                ELSE links
  /\ Finish(r)
  /\ UNCHANGED <<users, born, faulted>>

-----------------------------------------------------------------------------
(***************************************************************************)
(* linkGoogleToUser, for a bearer token of user u: findById, then Google's *)
(* answer. Whether the account takes the address is decided on the row     *)
(* that was read here.                                                     *)
(***************************************************************************)
BindStart(r, u, g) ==
  /\ At(r, "idle")
  /\ Live(u)
  /\ req' = [req EXCEPT ![r] =
       [Idle EXCEPT !.pc = "bindFind", !.google = g, !.user = u,
                    !.takesEmail = users[u].email = Null]]
  /\ UNCHANGED <<users, links, born, faulted>>

BindFind(r) ==
  /\ At(r, "bindFind")
  /\ LET owner == links[req[r].google]
     IN \/ /\ owner \in {Null, req[r].user} /\ req[r].takesEmail
           /\ req' = [req EXCEPT ![r].pc = "bindAny", ![r].ours = owner # Null]
        \/ owner = Null /\ ~req[r].takesEmail /\ Await(r, "bindLink")
        \/ owner \notin {Null, req[r].user} /\ Finish(r)
        \/ owner = req[r].user /\ ~req[r].takesEmail /\ Finish(r)
  /\ UNCHANGED <<users, links, born, faulted>>

BindAny(r) ==
  /\ At(r, "bindAny")
  /\ \/ Holders(Email(r)) # {} /\ Finish(r)
     \/ Holders(Email(r)) = {} /\ Await(r, IF req[r].ours THEN "patch" ELSE "bindLink")
  /\ UNCHANGED <<users, links, born, faulted>>

BindLink(r) ==
  /\ At(r, "bindLink")
  /\ links' = IF Claims(req[r].google)
                THEN [links EXCEPT ![req[r].google] = req[r].user]
                ELSE links
  /\ IF Claims(req[r].google) /\ req[r].takesEmail THEN Await(r, "patch") ELSE Finish(r)
  /\ UNCHANGED <<users, born, faulted>>

\* Deviation of Compensate: the link stays when the address is lost.
CompensateNever(r) == Finish(r)

(***************************************************************************)
(* The address was not taken: a link that this call created goes.          *)
(***************************************************************************)
Compensate(r) == IF req[r].ours THEN Finish(r) ELSE Await(r, "unlink")

(***************************************************************************)
(* update: the UPDATE names the user only, so it also writes a row that    *)
(* was soft-deleted meanwhile, and fails when another row holds the        *)
(* address.                                                                *)
(***************************************************************************)
BindPatch(r) ==
  /\ At(r, "patch")
  /\ IF Holders(Email(r)) \subseteq {req[r].user}
       THEN /\ users' = [users EXCEPT ![req[r].user].email = Email(r),
                                      ![req[r].user].verified = TRUE]
            /\ Await(r, "patched")
       ELSE /\ Compensate(r)
            /\ UNCHANGED users
  /\ UNCHANGED <<links, born, faulted>>

(***************************************************************************)
(* update returns findById, which no longer finds a deleted user.          *)
(***************************************************************************)
BindPatched(r) ==
  /\ At(r, "patched")
  /\ IF Live(req[r].user) THEN Finish(r) ELSE Compensate(r)
  /\ UNCHANGED <<users, links, born, faulted>>

DeleteLinks(u) ==
  links' = [g \in Googles |-> IF links[g] = u THEN Null ELSE links[g]]

(***************************************************************************)
(* deleteAllForUser, as the compensation.                                  *)
(***************************************************************************)
BindUnlink(r) ==
  /\ At(r, "unlink")
  /\ DeleteLinks(req[r].user)
  /\ Finish(r)
  /\ UNCHANGED <<users, born, faulted>>

(***************************************************************************)
(* A statement of update fails: the error is caught, and compensated.      *)
(***************************************************************************)
BindPatchFails(r) ==
  /\ req[r].pc \in {"patch", "patched"}
  /\ Compensate(r)
  /\ faulted' = faulted \cup {req[r].user}
  /\ UNCHANGED <<users, links, born>>

(***************************************************************************)
(* Any other statement fails, or the process stops.                        *)
(***************************************************************************)
CutShort(r) ==
  /\ ~At(r, "idle")
  /\ Finish(r)
  /\ faulted' = faulted \cup ({req[r].user} \cap Users)
  /\ UNCHANGED <<users, links, born>>

-----------------------------------------------------------------------------
(***************************************************************************)
(* The rest of the system. A registration and a guest are one insert.      *)
(***************************************************************************)
Insert(u, row) ==
  /\ users[u].st = "none"
  /\ users' = [users EXCEPT ![u] = row]
  /\ UNCHANGED <<links, req, born, faulted>>

Register(u, a) ==
  /\ Holders(a) = {}
  /\ Insert(u, [st |-> "live", email |-> a, verified |-> FALSE, password |-> TRUE])

CreateGuest(u) ==
  Insert(u, [st |-> "live", email |-> Null, verified |-> FALSE, password |-> TRUE])

(***************************************************************************)
(* resetPassword: the link proves the address, and a password is set.      *)
(***************************************************************************)
ResetPassword(u) ==
  /\ Live(u) /\ users[u].email # Null
  /\ users' = [users EXCEPT ![u].verified = TRUE, ![u].password = TRUE]
  /\ UNCHANGED <<links, req, born, faulted>>

(***************************************************************************)
(* The owner opens a verification link.                                    *)
(***************************************************************************)
VerifyEmail(u) ==
  /\ Live(u) /\ users[u].email # Null
  /\ users' = [users EXCEPT ![u].verified = TRUE]
  /\ UNCHANGED <<links, req, born, faulted>>

(***************************************************************************)
(* Another address: proven if the owner's link changed it (ChangeAddress   *)
(* of AccountLinks), unproven if an operator did.                          *)
(***************************************************************************)
ChangeAddress(u, a, proven) ==
  /\ Live(u) /\ Holders(a) = {}
  /\ users' = [users EXCEPT ![u].email = a, ![u].verified = proven]
  /\ born' = [born EXCEPT ![u] = Null]
  /\ UNCHANGED <<links, req, faulted>>

SoftDelete(u) ==
  /\ Live(u)
  /\ users' = [users EXCEPT ![u].st = "deleted"]
  /\ UNCHANGED <<links, req, born, faulted>>

\* Deviation of PurgeFrom: the row first, what hangs on it after.
PurgeRowFirst(st) == IF st = "deleted" THEN "row" ELSE "links"

PurgeFrom(st) == IF st = "deleted" THEN "links" ELSE "row"

(***************************************************************************)
(* purgeDeletedBefore, a grace period after the deletion, when no handler  *)
(* that knew the user can still be at work: the satellites, then the row.  *)
(* It may stop in between, and the next run finishes the job.              *)
(***************************************************************************)
Purge(u) ==
  /\ users[u].st \in {"deleted", "purging"}
  /\ \A r \in Requests : req[r].user # u
  /\ \/ /\ PurgeFrom(users[u].st) = "links"
        /\ DeleteLinks(u)
        /\ users' = [users EXCEPT ![u].st = "purging"]
     \/ /\ PurgeFrom(users[u].st) = "row"
        /\ users' = [users EXCEPT ![u] = [NoUser EXCEPT !.st = "purged"]]
        /\ UNCHANGED links
  /\ UNCHANGED <<req, born, faulted>>

-----------------------------------------------------------------------------
Init ==
  /\ users = [u \in Users |-> NoUser]
  /\ links = [g \in Googles |-> Null]
  /\ req = [r \in Requests |-> Idle]
  /\ born = [u \in Users |-> Null]
  /\ faulted = {}

Handler(r) ==
  \/ \E g \in Googles, emailVerified \in BOOLEAN : LoginStart(r, g, emailVerified)
  \/ \E u \in Users, g \in Googles : BindStart(r, u, g)
  \/ LoginSubject(r)
  \/ LoginByEmail(r)
  \/ LoginAnyByEmail(r)
  \/ LoginCreate(r)
  \/ LoginLink(r)
  \/ BindFind(r)
  \/ BindAny(r)
  \/ BindLink(r)
  \/ BindPatch(r)
  \/ BindPatched(r)
  \/ BindUnlink(r)
  \/ BindPatchFails(r)
  \/ CutShort(r)

Next ==
  \/ \E r \in Requests : Handler(r)
  \/ \E u \in Users, a \in Addresses :
       Register(u, a) \/ \E proven \in BOOLEAN : ChangeAddress(u, a, proven)
  \/ \E u \in Users : \/ CreateGuest(u) \/ ResetPassword(u) \/ VerifyEmail(u)
                     \/ SoftDelete(u) \/ Purge(u)

Spec == Init /\ [][Next]_vars

-----------------------------------------------------------------------------
(***************************************************************************)
(* Well typed, and one row at most for an address.                         *)
(***************************************************************************)
TypeOK ==
  /\ users \in [Users -> User]
  /\ links \in [Googles -> Users \cup {Null}]
  /\ req \in [Requests -> Request]
  /\ born \in [Users -> Googles \cup {Null}]
  /\ faulted \subseteq Users
  /\ \A u, v \in Users : Row(u) /\ Row(v) /\ users[u].email # Null
                           /\ users[u].email = users[v].email => u = v

(***************************************************************************)
(* A Google account never moves from one user to another, whichever        *)
(* sign-ins and binds claim it at once; it is only ever let go of (the     *)
(* UNIQUE index that linkGoogleToUser relies on, and its compensation).    *)
(***************************************************************************)
GoogleStaysWithOwner ==
  [][\A g \in Googles : links[g] # Null => links'[g] \in {links[g], Null}]_vars

(***************************************************************************)
(* An account that a Google sign-in created is never stranded: if the      *)
(* sign-in stops between the insert of the user and that of the link, the  *)
(* next one finds the user by address and links it, for the address is     *)
(* stored as proven; or a password has been set meanwhile, or the Google   *)
(* account was bound to somebody (loginWithGoogle).                        *)
(***************************************************************************)
NoStrandedAccount ==
  \A u \in Users : Live(u) /\ born[u] # Null =>
    \/ links[born[u]] # Null
    \/ users[u].password
    \/ users[u].email = EmailOf[born[u]] /\ users[u].verified

(***************************************************************************)
(* A bind that loses the address loses the link too: a live user who is    *)
(* linked but has no address is being bound, or a statement of a bind      *)
(* failed (the compensation of linkGoogleToUser).                          *)
(***************************************************************************)
LinkedUserHasAddress ==
  \A g \in Googles :
    LET u == links[g]
    IN u # Null /\ users[u].st = "live" /\ users[u].email = Null =>
         \/ u \in faulted
         \/ \E r \in Requests : req[r].user = u /\ req[r].pc \in {"patch", "unlink"}

(***************************************************************************)
(* A purge leaves no link behind that names a user who is gone, wherever   *)
(* it stops (purgeDeletedBefore: satellites first, then the row).          *)
(***************************************************************************)
NoOrphanLinks ==
  \A g \in Googles : links[g] # Null => Row(links[g])
=============================================================================
