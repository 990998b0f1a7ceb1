---------------------------- MODULE AccountLinks ----------------------------
(***************************************************************************)
(* The links that authx mails: verification of an address, change of       *)
(* address, deletion of the account, reset of the password                 *)
(* (src/modules/verification/verification.service.ts), over the users and  *)
(* email_verification_tokens tables, with what else changes an address:    *)
(* registration and the operator's update of users.service.ts.             *)
(*                                                                         *)
(* A request yields at every await, so each action runs from the reply to  *)
(* one statement to the issue of the next.                                 *)
(***************************************************************************)
EXTENDS Naturals

CONSTANTS
  Users,
  Addresses,
  LinkIds,    \* bounds the links a behaviour may mail
  Requests,   \* the handlers that may run at once
  Null,       \* SQL NULL: the address of a guest
  Events      \* the requests that occur

ASSUME LinksAssumption ==
  /\ Null \notin Users \cup Addresses \cup LinkIds
  /\ Events \subseteq {"register", "guest", "resend", "change", "deletion",
                      "reset", "operator", "remove", "password", "expire",
                      "fault"}

VARIABLES
  users,     \* the users rows: deletedAt, email, emailVerified
  links,     \* email_verification_tokens
  req,       \* the local state of every handler
  proved,    \* history: who opened a link that was mailed to which address
  acted,     \* history: how often each link had its effect
  recovered  \* history: the links that a password reset or change ended

vars == <<users, links, req, proved, acted, recovered>>
hist == <<proved, acted, recovered>>

Purposes == {"verify_email", "email_change", "account_deletion", "password_reset"}

\* Deviation of AccountChanging: the verification links are ended too.
EveryPurpose == Purposes

AccountChanging == {"password_reset", "email_change", "account_deletion"}

(***************************************************************************)
(* "none" is a row that does not exist (yet).                              *)
(***************************************************************************)
User == [st: {"none", "live", "deleted"}, email: Addresses \cup {Null},
         verified: BOOLEAN]

(***************************************************************************)
(* email is the token's subject matter, sentTo the mailbox the link is in. *)
(***************************************************************************)
Link == [st: {"free", "row"}, user: Users \cup {Null}, purpose: Purposes,
         email: Addresses \cup {Null}, sentTo: Addresses \cup {Null},
         consumed: BOOLEAN, fresh: BOOLEAN]

NoLink == [st |-> "free", user |-> Null, purpose |-> "verify_email",
           email |-> Null, sentTo |-> Null, consumed |-> FALSE, fresh |-> TRUE]

Pcs == {"idle", "askHolder", "insert", "user", "holder", "consume", "mark",
        "change", "changed", "delete", "resetWrite", "resetLinks",
        "updateHolder", "update"}

(***************************************************************************)
(* A handler's local state; unverify is the emailVerified: false that the  *)
(* operator's patch may carry.                                             *)
(***************************************************************************)
Request == [pc: Pcs, link: LinkIds \cup {Null}, user: Users \cup {Null},
            purpose: Purposes, email: Addresses \cup {Null},
            sentTo: Addresses \cup {Null}, unverify: BOOLEAN]

Idle == [pc |-> "idle", link |-> Null, user |-> Null,
         purpose |-> "verify_email", email |-> Null, sentTo |-> Null,
         unverify |-> FALSE]

At(r, pc) == req[r].pc = pc

Finish(r) == req' = [req EXCEPT ![r] = Idle]

Await(r, pc) == req' = [req EXCEPT ![r].pc = pc]

Begin(r, state) ==
  /\ At(r, "idle")
  /\ req' = [req EXCEPT ![r] = state]

Live(u) == users[u].st = "live"

(***************************************************************************)
(* findAnyByEmail, and the UNIQUE index on users.email: deleted rows hold  *)
(* their address.                                                          *)
(***************************************************************************)
HeldByAnother(u, a) ==
  \E v \in Users \ {u} : users[v].st # "none" /\ users[v].email = a

-----------------------------------------------------------------------------
(***************************************************************************)
(* Requests that mail a link. Each reads the account, and inserts the row  *)
(* in a later statement.                                                   *)
(***************************************************************************)
Register(r, u, a) ==
  /\ "register" \in Events
  /\ users[u].st = "none" /\ ~HeldByAnother(u, a)
  /\ users' = [users EXCEPT ![u] =
                 [st |-> "live", email |-> a, verified |-> FALSE]]
  /\ Begin(r, [Idle EXCEPT !.pc = "insert", !.user = u,
                           !.purpose = "verify_email", !.email = a,
                           !.sentTo = a])
  /\ UNCHANGED <<links, hist>>

(***************************************************************************)
(* resend, startPasswordReset and startAccountDeletion.                    *)
(***************************************************************************)
\* Deviation of AskLink: a guest, who has no address, is not refused.
AskLinkOfGuest(r, u, purpose) ==
  /\ Live(u)
  /\ \/ purpose = "verify_email" /\ "resend" \in Events /\ ~users[u].verified
     \/ purpose = "password_reset" /\ "reset" \in Events
     \/ purpose = "account_deletion" /\ "deletion" \in Events
  /\ Begin(r, [Idle EXCEPT !.pc = "insert", !.user = u,
                           !.purpose = purpose, !.email = users[u].email,
                           !.sentTo = users[u].email])
  /\ UNCHANGED <<users, links, hist>>

AskLink(r, u, purpose) ==
  /\ Live(u) /\ users[u].email # Null
  /\ \/ purpose = "verify_email" /\ "resend" \in Events /\ ~users[u].verified
     \/ purpose = "password_reset" /\ "reset" \in Events
     \/ purpose = "account_deletion" /\ "deletion" \in Events
  /\ Begin(r, [Idle EXCEPT !.pc = "insert", !.user = u,
                           !.purpose = purpose, !.email = users[u].email,
                           !.sentTo = users[u].email])
  /\ UNCHANGED <<users, links, hist>>

(***************************************************************************)
(* startEmailChange: the link goes to the current address.                 *)
(***************************************************************************)
AskChange(r, u, a) ==
  /\ "change" \in Events
  /\ Live(u) /\ users[u].email \notin {Null, a}
  /\ Begin(r, [Idle EXCEPT !.pc = "askHolder", !.user = u,
                           !.purpose = "email_change", !.email = a,
                           !.sentTo = users[u].email])
  /\ UNCHANGED <<users, links, hist>>

AskHolder(r) ==
  /\ At(r, "askHolder")
  /\ IF HeldByAnother(req[r].user, req[r].email) THEN Finish(r)
                                                 ELSE Await(r, "insert")
  /\ UNCHANGED <<users, links, hist>>

InsertLink(r) ==
  /\ At(r, "insert")
  /\ \E k \in LinkIds :
       /\ links[k].st = "free"
       /\ links' = [links EXCEPT ![k] =
            [st |-> "row", user |-> req[r].user, purpose |-> req[r].purpose,
             email |-> req[r].email, sentTo |-> req[r].sentTo,
             consumed |-> FALSE, fresh |-> TRUE]]
  /\ Finish(r)
  /\ UNCHANGED <<users, hist>>

-----------------------------------------------------------------------------
(***************************************************************************)
(* verifyEmail, confirm and resetPassword: a link is opened by whoever     *)
(* reads the mailbox it was sent to. findByHash found a row of the right   *)
(* purpose that is neither consumed nor expired; any other is refused.     *)
(***************************************************************************)
OpenLink(r, k) ==
  /\ links[k].st = "row" /\ ~links[k].consumed /\ links[k].fresh
  /\ Begin(r, [Idle EXCEPT !.pc = "user", !.link = k,
                           !.user = links[k].user, !.purpose = links[k].purpose,
                           !.email = links[k].email])
  /\ proved' = proved \cup {<<links[k].user, links[k].sentTo>>}
  /\ UNCHANGED <<users, links, acted, recovered>>

(***************************************************************************)
(* findById answered. Verification and reset also compare the address.     *)
(***************************************************************************)
SameAddress(r) == users[req[r].user].email = req[r].email

ReadUser(r) ==
  /\ At(r, "user")
  /\ IF /\ Live(req[r].user)
        /\ req[r].purpose \in {"verify_email", "password_reset"} => SameAddress(r)
       THEN Await(r, IF req[r].purpose = "email_change" THEN "holder"
                                                        ELSE "consume")
       ELSE Finish(r)
  /\ UNCHANGED <<users, links, hist>>

ReadHolder(r) ==
  /\ At(r, "holder")
  /\ IF HeldByAnother(req[r].user, req[r].email) THEN Finish(r)
                                                 ELSE Await(r, "consume")
  /\ UNCHANGED <<users, links, hist>>

\* Deviation of Unconsumed: the UPDATE of consume matches by id alone.
Consumable(k) == links[k].st = "row"

Unconsumed(k) == links[k].st = "row" /\ ~links[k].consumed

Effect(purpose) == CASE purpose = "verify_email"     -> "mark"
                     [] purpose = "email_change"     -> "change"
                     [] purpose = "account_deletion" -> "delete"
                     [] purpose = "password_reset"   -> "resetWrite"

Consume(r) ==
  /\ At(r, "consume")
  /\ IF Unconsumed(req[r].link)
       THEN /\ links' = [links EXCEPT ![req[r].link].consumed = TRUE]
            /\ Await(r, Effect(req[r].purpose))
       ELSE Finish(r) /\ UNCHANGED links
  /\ UNCHANGED <<users, hist>>

Acted(r) == acted' = [acted EXCEPT ![req[r].link] = @ + 1]

(***************************************************************************)
(* markEmailVerified: a compare-and-set on the address.                    *)
(***************************************************************************)
\* Deviation of MarkMatches: the UPDATE matches by id alone.
MarkById(r) == users[req[r].user].st # "none"

MarkMatches(r) == users[req[r].user].st # "none" /\ SameAddress(r)

MarkVerified(r) ==
  /\ At(r, "mark")
  /\ IF MarkMatches(r)
       THEN users' = [users EXCEPT ![req[r].user].verified = TRUE] /\ Acted(r)
       ELSE UNCHANGED <<users, acted>>
  /\ Finish(r)
  /\ UNCHANGED <<links, proved, recovered>>

(***************************************************************************)
(* The update of a confirmed change, by id. It fails on the UNIQUE index   *)
(* when another account took the address meanwhile.                        *)
(***************************************************************************)
ChangeAddress(r) ==
  /\ At(r, "change")
  /\ IF HeldByAnother(req[r].user, req[r].email)
       THEN Finish(r) /\ UNCHANGED <<users, acted>>
       ELSE /\ users' = [users EXCEPT ![req[r].user].email = req[r].email,
                                      ![req[r].user].verified = FALSE]
            /\ Acted(r)
            /\ Await(r, "changed")
  /\ UNCHANGED <<links, proved, recovered>>

(***************************************************************************)
(* The account was read back; the route mails the new address a link.      *)
(***************************************************************************)
Changed(r) ==
  /\ At(r, "changed")
  /\ IF Live(req[r].user)
       THEN req' = [req EXCEPT ![r] =
              [Idle EXCEPT !.pc = "insert", !.user = req[r].user,
                           !.email = req[r].email, !.sentTo = req[r].email]]
       ELSE Finish(r)
  /\ UNCHANGED <<users, links, hist>>

DeleteAccount(r) ==
  /\ At(r, "delete")
  /\ users' = [users EXCEPT ![req[r].user].st = "deleted"]
  /\ Acted(r)
  /\ Finish(r)
  /\ UNCHANGED <<links, proved, recovered>>

(***************************************************************************)
(* The new password is stored, by id, with emailVerified: true. Refresh    *)
(* tokens, sessions and passkeys are revoked before the links.             *)
(***************************************************************************)
ResetWrite(r) ==
  /\ At(r, "resetWrite")
  /\ users' = [users EXCEPT ![req[r].user].verified = TRUE]
  /\ Acted(r)
  /\ Await(r, "resetLinks")
  /\ UNCHANGED <<links, proved, recovered>>

Ended(u) ==
  {k \in LinkIds : links[k].user = u /\ links[k].purpose \in AccountChanging}

(***************************************************************************)
(* consumeAllForUser(userId, ACCOUNT_CHANGING_PURPOSES)                    *)
(***************************************************************************)
\* Deviation of ConsumeAllForUser: only the resets are ended.
ConsumeResetsForUser(u) ==
  /\ links' = [k \in LinkIds |->
       IF k \in Ended(u) /\ links[k].purpose = "password_reset"
         THEN [links[k] EXCEPT !.consumed = TRUE] ELSE links[k]]
  /\ recovered' = recovered \cup
       {k \in LinkIds : links[k].user = u /\ links[k].purpose # "verify_email"}

ConsumeAllForUser(u) ==
  /\ links' = [k \in LinkIds |->
       IF k \in Ended(u) THEN [links[k] EXCEPT !.consumed = TRUE] ELSE links[k]]
  /\ recovered' = recovered \cup
       {k \in LinkIds : links[k].user = u /\ links[k].purpose # "verify_email"}

ResetLinks(r) ==
  /\ At(r, "resetLinks")
  /\ ConsumeAllForUser(req[r].user)
  /\ Finish(r)
  /\ UNCHANGED <<users, proved, acted>>

-----------------------------------------------------------------------------
(***************************************************************************)
(* update of users.service.ts with an email, by an operator.               *)
(***************************************************************************)
OperatorUpdate(r, u, a) ==
  /\ "operator" \in Events
  /\ Live(u)
  /\ Begin(r, [Idle EXCEPT !.pc = "updateHolder", !.user = u,
                           !.email = a, !.unverify = a # users[u].email])
  /\ UNCHANGED <<users, links, hist>>

UpdateHolder(r) ==
  /\ At(r, "updateHolder")
  /\ IF HeldByAnother(req[r].user, req[r].email) THEN Finish(r)
                                                 ELSE Await(r, "update")
  /\ UNCHANGED <<users, links, hist>>

UpdateWrite(r) ==
  /\ At(r, "update")
  /\ users' = IF HeldByAnother(req[r].user, req[r].email) THEN users
              ELSE [users EXCEPT ![req[r].user].email = req[r].email,
                                 ![req[r].user].verified = @ /\ ~req[r].unverify]
  /\ Finish(r)
  /\ UNCHANGED <<links, hist>>

-----------------------------------------------------------------------------
(***************************************************************************)
(* The rest of the system.                                                 *)
(***************************************************************************)
CreateGuest(u) ==
  /\ "guest" \in Events
  /\ users[u].st = "none"
  /\ users' = [users EXCEPT ![u].st = "live"]
  /\ UNCHANGED <<links, req, hist>>

Remove(u) ==
  /\ "remove" \in Events
  /\ Live(u)
  /\ users' = [users EXCEPT ![u].st = "deleted"]
  /\ UNCHANGED <<links, req, hist>>

(***************************************************************************)
(* The last statement of a password change (update of users.service.ts).   *)
(***************************************************************************)
PasswordChanged(u) ==
  /\ "password" \in Events
  /\ users[u].st # "none"
  /\ ConsumeAllForUser(u)
  /\ UNCHANGED <<users, req, proved, acted>>

Expire(k) ==
  /\ "expire" \in Events
  /\ links[k].st = "row"
  /\ links' = [links EXCEPT ![k].fresh = FALSE]
  /\ UNCHANGED <<users, req, hist>>

(***************************************************************************)
(* A statement fails, or the process dies: the handler runs no further.    *)
(* So does one that needs a link when the bound leaves none.               *)
(***************************************************************************)
CutShort(r) ==
  /\ ~At(r, "idle")
  /\ \/ "fault" \in Events
     \/ At(r, "insert") /\ \A k \in LinkIds : links[k].st = "row"
  /\ Finish(r)
  /\ UNCHANGED <<users, links, hist>>

Init ==
  /\ users = [u \in Users |-> [st |-> "none", email |-> Null, verified |-> FALSE]]
  /\ links = [k \in LinkIds |-> NoLink]
  /\ req = [r \in Requests |-> Idle]
  /\ proved = {}
  /\ acted = [k \in LinkIds |-> 0]
  /\ recovered = {}

Ask(r) ==
  \/ \E u \in Users, a \in Addresses :
       Register(r, u, a) \/ AskChange(r, u, a) \/ OperatorUpdate(r, u, a)
  \/ \E u \in Users, purpose \in Purposes : AskLink(r, u, purpose)
  \/ \E k \in LinkIds : OpenLink(r, k)

Continue(r) ==
  \/ AskHolder(r)
  \/ InsertLink(r)
  \/ ReadUser(r)
  \/ ReadHolder(r)
  \/ Consume(r)
  \/ MarkVerified(r)
  \/ ChangeAddress(r)
  \/ Changed(r)
  \/ DeleteAccount(r)
  \/ ResetWrite(r)
  \/ ResetLinks(r)
  \/ UpdateHolder(r)
  \/ UpdateWrite(r)

Next ==
  \/ \E r \in Requests : Ask(r) \/ Continue(r) \/ CutShort(r)
  \/ \E u \in Users : CreateGuest(u) \/ Remove(u) \/ PasswordChanged(u)
  \/ \E k \in LinkIds : Expire(k)

Spec == Init /\ [][Next]_vars

(***************************************************************************)
(* A handler whose statement was answered is resumed by the event loop.    *)
(***************************************************************************)
FairSpec == Spec /\ \A r \in Requests : WF_vars(Continue(r))

-----------------------------------------------------------------------------
TypeOK ==
  /\ users \in [Users -> User]
  /\ links \in [LinkIds -> Link]
  /\ req \in [Requests -> Request]
  /\ proved \subseteq Users \X Addresses
  /\ acted \in [LinkIds -> Nat]
  /\ recovered \subseteq LinkIds

(***************************************************************************)
(* An account's address counts as verified though nobody opened a link     *)
(* that was mailed to that very address for that account.                  *)
(***************************************************************************)
Unproven(u) == users[u].verified /\ <<u, users[u].email>> \notin proved

(***************************************************************************)
(* Handler r is about to write users[u] by id, and has not seen that the   *)
(* address changed since it checked it: the reset of a password, or the    *)
(* operator's update that took the address for the account's own.          *)
(***************************************************************************)
WritesStale(r, u) ==
  /\ At(r, "resetWrite") \/ (At(r, "update") /\ ~req[r].unverify)
  /\ req[r].user = u
  /\ users[u].email # req[r].email

(***************************************************************************)
(* An address that comes to count as verified was proven (the comment on   *)
(* markEmailVerified in verifyEmail), whatever verifications, changes,     *)
(* resets and operators interleave, but for the two writes that do not     *)
(* compare the address, and for those only when it changed under them.     *)
(***************************************************************************)
VerifiedWasProven ==
  [][\A u \in Users :
       Unproven(u)' /\ (Unproven(u) => users'[u].email # users[u].email) =>
         \E r \in Requests : WritesStale(r, u) /\ req'[r] # req[r]]_vars

(***************************************************************************)
(* A link has its effect at most once, however many tabs open it at once   *)
(* ("a replay loses the race rather than repeating a destructive action"). *)
(***************************************************************************)
LinkActsOnce == \A k \in LinkIds : acted[k] <= 1

(***************************************************************************)
(* The secrets of OneShot: a link is held from its consume to its effect.  *)
(***************************************************************************)
Acting == {"mark", "change", "delete", "resetWrite"}

Secret == INSTANCE OneShot WITH
  Secrets <- LinkIds,
  Holders <- Requests,
  good    <- {k \in LinkIds : links[k].st = "row" /\ ~links[k].consumed},
  issued  <- {k \in LinkIds : links[k].st = "row"},
  holding <- {h \in Requests \X LinkIds :
                req[h[1]].pc \in Acting /\ req[h[1]].link = h[2]}

(***************************************************************************)
(* The links keep what OneShot promises: however requests, recoveries and  *)
(* failures interleave, a link that was consumed, or ended by a recovery,  *)
(* is never good again, and only the handler that consumed it acts by it.  *)
(***************************************************************************)
LinkOneShot == Secret!Spec

(***************************************************************************)
(* docs/api.md: a link minted before a password was reset or changed       *)
(* cannot be used after it, not even by a handler that had already read    *)
(* and accepted it.                                                        *)
(***************************************************************************)
RecoveryEndsLinks ==
  [][\A r \in Requests :
       At(r, "consume") /\ req'[r].pc \in {"change", "delete", "resetWrite"} =>
         req[r].link \notin recovered]_vars

(***************************************************************************)
(* A verification link is not lost on its way: once a handler accepted a   *)
(* link that nobody has used, the address gets verified, unless it changes *)
(* or the account is deleted ("Email-verification links are left alone").  *)
(***************************************************************************)
VerificationHonoured ==
  \A r \in Requests, u \in Users, a \in Addresses :
    (/\ At(r, "user") /\ req[r].purpose = "verify_email"
     /\ req[r].user = u /\ req[r].email = a /\ ~links[req[r].link].consumed)
      ~> (users[u].verified \/ users[u].email # a \/ ~Live(u))
=============================================================================
