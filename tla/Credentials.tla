----------------------------- MODULE Credentials -----------------------------
(***************************************************************************)
(* What one account is signed in with, and a change of its password: the   *)
(* hosted sign-in and the grants of src/modules/auth, registration and     *)
(* sign-in with a passkey, and the revocations of update                   *)
(* (src/modules/users/users.service.ts) and resetPassword                  *)
(* (src/modules/verification/verification.service.ts). Every statement of  *)
(* these handlers names the account, so one account is all there is here.  *)
(*                                                                         *)
(* The passwords the account has had are numbered: the hash of number      *)
(* password is the one stored. A credential is a session, a refresh token, *)
(* a passkey, an authorization code or an MFA challenge that would be      *)
(* accepted; one that was revoked, used, deleted or has expired is gone.   *)
(***************************************************************************)
EXTENDS Naturals, FiniteSets

CONSTANTS
  Ids,         \* bounds the credentials that are usable at once
  Requests,    \* the handlers that may run at once
  Null,        \* no credential
  MaxChanges   \* bounds the changes of the password

ASSUME CredentialsAssumption ==
  /\ Null \notin Ids
  /\ MaxChanges \in Nat

VARIABLES
  password,  \* the number of the password whose hash is stored
  enrolled,  \* TOTP is enabled
  cred,      \* the usable credentials
  req,       \* the local state of every handler
  answered   \* history: the newest password whose change was answered

vars == <<password, enrolled, cred, req, answered>>

Kinds == {"session", "token", "passkey", "code", "challenge"}

Passwords == 0..MaxChanges

(***************************************************************************)
(* under (history): the password that was stored when the credential was.  *)
(* root (history): the password it was, in the end, obtained with.         *)
(***************************************************************************)
Credential == [kind: Kinds, under: Passwords, root: Passwords]

None == [kind |-> "none", under |-> 0, root |-> 0]

(***************************************************************************)
(* The state of a handler: the statement it awaits; the credential it      *)
(* presented; what it is about to store, and obtained with which password; *)
(* how far a change has got, and to which password. bare: its only proof   *)
(* is a password; sawOff: TOTP was off at some moment since it began.      *)
(***************************************************************************)
Pcs == {"idle", "enrolled", "verify", "store", "consume", "rotate", "end",
        "change"}

Request == [pc: Pcs, id: Ids \cup {Null}, kind: Kinds, root: Passwords,
            step: 1..4, to: Passwords, bare: BOOLEAN, sawOff: BOOLEAN]

Begun(pc, c, kind, from, bare) ==
  [pc |-> pc, id |-> c, kind |-> kind, root |-> from, step |-> 1, to |-> 0,
   bare |-> bare, sawOff |-> bare /\ ~enrolled]

Idle == [pc |-> "idle", id |-> Null, kind |-> "session", root |-> 0,
         step |-> 1, to |-> 0, bare |-> FALSE, sawOff |-> FALSE]

At(r, pc) == req[r].pc = pc

Finish(r) == req' = [req EXCEPT ![r] = Idle]

-----------------------------------------------------------------------------
(***************************************************************************)
(* The statements on the credentials.                                      *)
(***************************************************************************)
Usable(c, kind) == cred[c].kind = kind

Free == {c \in Ids : cred[c] = None /\ \A r \in Requests : req[r].id # c}

Stored(kind, root) == [kind |-> kind, under |-> password, root |-> root]

\* Deviation of EndAll: the rows are marked, and never free again.
EndAllMarks(kind) ==
  cred' = [c \in Ids |-> IF Usable(c, kind) THEN [cred[c] EXCEPT !.kind = "none"]
                         ELSE cred[c]]

(***************************************************************************)
(* revokeAllForUser of the sessions or the refresh tokens,                 *)
(* deleteAllPasskeysForUser.                                               *)
(***************************************************************************)
EndAll(kind) ==
  cred' = [c \in Ids |-> IF Usable(c, kind) THEN None ELSE cred[c]]

-----------------------------------------------------------------------------
(***************************************************************************)
(* A sign-in with a password: authenticatePassword compares it with the    *)
(* hash in the row that was read. The hosted page ends in a session, the   *)
(* password grant in a refresh token. A wrong password changes nothing     *)
(* here; what it costs is in LoginThrottle.                                *)
(***************************************************************************)
PasswordRead(r, kind) ==
  /\ At(r, "idle")
  /\ kind \in {"session", "token"}
  /\ req' = [req EXCEPT ![r] =
                Begun("enrolled", Null, kind, password, TRUE)]
  /\ UNCHANGED <<password, enrolled, cred, answered>>

\* Deviation of IsEnabled: only the hosted page asks for TOTP.
IsEnabledHosted(r) == enrolled /\ req[r].kind = "session"

(***************************************************************************)
(* The answer to totp.isEnabled, in finishLogin and in passwordGrant.      *)
(***************************************************************************)
IsEnabled(r) == enrolled

(***************************************************************************)
(* With TOTP on, the hosted page hands out a challenge (a signed cookie,   *)
(* no row) and the grant refuses; else the session or token is stored next.*)
(***************************************************************************)
FinishLogin(r) ==
  /\ At(r, "enrolled")
  /\ IF ~IsEnabled(r)
       THEN /\ req' = [req EXCEPT ![r].pc = "store"]
            /\ UNCHANGED cred
       ELSE /\ Finish(r)
            /\ IF req[r].kind = "session"
                 THEN \E c \in Free :
                        cred' = [cred EXCEPT ![c] =
                                   Stored("challenge", req[r].root)]
                 ELSE UNCHANGED cred
  /\ UNCHANGED <<password, enrolled, answered>>

(***************************************************************************)
(* completeMfaLogin, with a right code: totp.verify finds no enabled row   *)
(* once TOTP is off.                                                       *)
(***************************************************************************)
MfaStart(r, c) ==
  /\ At(r, "idle")
  /\ Usable(c, "challenge")
  /\ req' = [req EXCEPT ![r] =
                Begun("verify", Null, "session", cred[c].root, FALSE)]
  /\ UNCHANGED <<password, enrolled, cred, answered>>

MfaVerified(r) ==
  /\ At(r, "verify")
  /\ IF enrolled THEN req' = [req EXCEPT ![r].pc = "store"] ELSE Finish(r)
  /\ UNCHANGED <<password, enrolled, cred, answered>>

(***************************************************************************)
(* verifySignIn found the passkey's row; after the signature is checked,   *)
(* createPasskeySession stores a session whatever became of the row.       *)
(***************************************************************************)
PasskeyStart(r, c) ==
  /\ At(r, "idle")
  /\ Usable(c, "passkey")
  /\ req' = [req EXCEPT ![r] =
                Begun("store", Null, "session", cred[c].root, FALSE)]
  /\ UNCHANGED <<password, enrolled, cred, answered>>

(***************************************************************************)
(* A request with a live session. GET /oauth/authorize goes on to issue a  *)
(* code; POST /oauth/passkeys/register, whose challenge a request like it  *)
(* has asked for, goes on to store a passkey.                              *)
(***************************************************************************)
SessionStart(r, c, kind) ==
  /\ At(r, "idle")
  /\ Usable(c, "session")
  /\ req' = [req EXCEPT ![r] =
                Begun("store", Null, kind, cred[c].root, FALSE)]
  /\ UNCHANGED <<password, enrolled, cred, answered>>

Authorize(r, c) == SessionStart(r, c, "code")

RegisterPasskey(r, c) == SessionStart(r, c, "passkey")

(***************************************************************************)
(* The row is inserted. finishHostedLogin goes on to issue a code, unless  *)
(* it offers a passkey instead.                                            *)
(***************************************************************************)
Store(r) ==
  /\ At(r, "store")
  /\ \E c \in Free :
       cred' = [cred EXCEPT ![c] = Stored(req[r].kind, req[r].root)]
  /\ \/ Finish(r)
     \/ /\ req[r].kind = "session"
        /\ req' = [req EXCEPT ![r].kind = "code", ![r].bare = FALSE]
  /\ UNCHANGED <<password, enrolled, answered>>

-----------------------------------------------------------------------------
(***************************************************************************)
(* exchangeAuthorizationCode and refreshGrant, by the two statements that  *)
(* hand a credential on; their checks are in CodeExchange, RefreshTokens.  *)
(***************************************************************************)
Present(r, c, kind, pc) ==
  /\ At(r, "idle")
  /\ Usable(c, kind)
  /\ req' = [req EXCEPT ![r] =
                Begun(pc, c, kind, cred[c].root, FALSE)]
  /\ UNCHANGED <<password, enrolled, cred, answered>>

ExchangeStart(r, c) == Present(r, c, "code", "consume")

ExchangeConsume(r) ==
  /\ At(r, "consume")
  /\ Usable(req[r].id, "code")
  /\ cred' = [cred EXCEPT ![req[r].id] = None]
  /\ req' = [req EXCEPT ![r] =
                Begun("store", Null, "token", req[r].root, FALSE)]
  /\ UNCHANGED <<password, enrolled, answered>>

RefreshStart(r, c) == Present(r, c, "token", "rotate")

(***************************************************************************)
(* rotate: the old row ends and the next one is stored, in one             *)
(* transaction.                                                            *)
(***************************************************************************)
RefreshRotate(r) ==
  /\ At(r, "rotate")
  /\ Usable(req[r].id, "token")
  /\ \E c \in Free :
       cred' = [cred EXCEPT ![req[r].id] = None,
                            ![c] = Stored("token", req[r].root)]
  /\ Finish(r)
  /\ UNCHANGED <<password, enrolled, answered>>

(***************************************************************************)
(* The credential was used or ended meanwhile: a replay ends every refresh *)
(* token, unless the token was rotated moments ago.                        *)
(***************************************************************************)
LoseRace(r) ==
  /\ \/ At(r, "consume") /\ ~Usable(req[r].id, "code")
     \/ At(r, "rotate") /\ ~Usable(req[r].id, "token")
  /\ \/ EndAll("token")
     \/ At(r, "rotate") /\ UNCHANGED cred
  /\ Finish(r)
  /\ UNCHANGED <<password, enrolled, answered>>

-----------------------------------------------------------------------------
(***************************************************************************)
(* The owner ends one credential: its row is read, then ended.             *)
(***************************************************************************)
Logout(r, c) == Present(r, c, "session", "end")

RevokeToken(r, c) == Present(r, c, "token", "end")

RemovePasskey(r, c) == Present(r, c, "passkey", "end")

EndOne(r) ==
  /\ At(r, "end")
  /\ cred' = [cred EXCEPT ![req[r].id] = None]
  /\ Finish(r)
  /\ UNCHANGED <<password, enrolled, answered>>

(***************************************************************************)
(* A session, token, code or challenge expires. Whoever read the row       *)
(* before is not stopped: consume and rotate do not look at expiresAt.     *)
(***************************************************************************)
Expire(c) ==
  /\ cred[c].kind \in Kinds \ {"passkey"}
  /\ \A r \in Requests : req[r].id # c
  /\ cred' = [cred EXCEPT ![c] = None]
  /\ UNCHANGED <<password, enrolled, req, answered>>

(***************************************************************************)
(* TOTP is confirmed, disabled or reset.                                   *)
(***************************************************************************)
SwitchTotp ==
  /\ enrolled' = ~enrolled
  /\ req' = [r \in Requests |->
              IF req[r].bare THEN [req[r] EXCEPT !.sawOff = @ \/ enrolled]
              ELSE req[r]]
  /\ UNCHANGED <<password, cred, answered>>

-----------------------------------------------------------------------------
(***************************************************************************)
(* A change of the password: update, for the owner who gave the current    *)
(* one or for an operator, and resetPassword, for who opened the link.     *)
(***************************************************************************)

\* Deviation of Order: the revocations come first.
OrderRevokeFirst == <<"token", "session", "passkey", "write">>

(***************************************************************************)
(* Its statements. The links that update and resetPassword consume last    *)
(* are in AccountLinks.                                                    *)
(***************************************************************************)
Order == <<"write", "token", "session", "passkey">>

ChangeStart(r) ==
  /\ At(r, "idle")
  /\ req' = [req EXCEPT ![r] =
                Begun("change", Null, "session", 0, FALSE)]
  /\ UNCHANGED <<password, enrolled, cred, answered>>

ChangeWrite(r) ==
  /\ Order[req[r].step] = "write"
  /\ password < MaxChanges
  /\ password' = password + 1
  /\ UNCHANGED cred

ChangeRevoke(r) ==
  /\ Order[req[r].step] # "write"
  /\ EndAll(Order[req[r].step])
  /\ UNCHANGED password

To(r) == IF Order[req[r].step] = "write" THEN password' ELSE req[r].to

ChangeStep(r) ==
  /\ At(r, "change")
  /\ ChangeWrite(r) \/ ChangeRevoke(r)
  /\ IF req[r].step < 4
       THEN /\ req' = [req EXCEPT ![r].step = @ + 1, ![r].to = To(r)]
            /\ UNCHANGED answered
       ELSE /\ Finish(r)
            /\ answered' = IF To(r) > answered THEN To(r) ELSE answered
  /\ UNCHANGED enrolled

(***************************************************************************)
(* A statement fails: the handler ends in an error.                        *)
(***************************************************************************)
CutShort(r) ==
  /\ ~At(r, "idle")
  /\ Finish(r)
  /\ UNCHANGED <<password, enrolled, cred, answered>>

-----------------------------------------------------------------------------
Init ==
  /\ password = 0
  /\ enrolled \in BOOLEAN
  /\ cred = [c \in Ids |-> None]
  /\ req = [r \in Requests |-> Idle]
  /\ answered = 0

Begin(r) ==
  \/ \E kind \in {"session", "token"} : PasswordRead(r, kind)
  \/ \E c \in Ids :
       \/ MfaStart(r, c)
       \/ PasskeyStart(r, c)
       \/ Authorize(r, c)
       \/ RegisterPasskey(r, c)
       \/ ExchangeStart(r, c)
       \/ RefreshStart(r, c)
       \/ Logout(r, c)
       \/ RevokeToken(r, c)
       \/ RemovePasskey(r, c)
  \/ ChangeStart(r)

Resume(r) ==
  \/ FinishLogin(r)
  \/ MfaVerified(r)
  \/ Store(r)
  \/ ExchangeConsume(r)
  \/ RefreshRotate(r)
  \/ LoseRace(r)
  \/ EndOne(r)
  \/ ChangeStep(r)

Next ==
  \/ \E r \in Requests : Begin(r) \/ Resume(r) \/ CutShort(r)
  \/ \E c \in Ids : Expire(c)
  \/ SwitchTotp

Spec == Init /\ [][Next]_vars

-----------------------------------------------------------------------------
TypeOK ==
  /\ password \in Passwords
  /\ answered \in 0..password
  /\ enrolled \in BOOLEAN
  /\ cred \in [Ids -> Credential \cup {None}]
  /\ req \in [Requests -> Request]

(***************************************************************************)
(* Once a change of the password is answered, nothing that was stored      *)
(* under an older password signs in: no session, no refresh token, no      *)
(* passkey, whatever was rotated, registered or signed in to meanwhile.    *)
(* update and resetPassword revoke only after the hash is stored, so that  *)
(* the old password cannot mint a replacement in between.                  *)
(***************************************************************************)
NothingOlderSurvives ==
  \A c \in Ids : cred[c].kind \in {"session", "token", "passkey"}
                   => cred[c].under >= answered

(***************************************************************************)
(* A password alone signs in only to an account that had TOTP off at some  *)
(* moment of the sign-in (finishLogin, passwordGrant).                     *)
(***************************************************************************)
PasswordAloneOnlyWithoutTotp ==
  \A r \in Requests : At(r, "store") /\ req[r].bare => req[r].sawOff

(***************************************************************************)
(* "Credentials issued under the old password must not outlive it"         *)
(* (src/modules/users/users.service.ts, update): once the change is        *)
(* answered and no handler is at work, there is no refresh token that was  *)
(* obtained with an older password.                                        *)
(***************************************************************************)
NoTokenOutlivesItsPassword ==
  (\A r \in Requests : At(r, "idle"))
    => \A c \in Ids : Usable(c, "token") => cred[c].root >= answered
=============================================================================
