------------------------------- MODULE Passkeys -------------------------------
(***************************************************************************)
(* Passkeys: the ceremonies that register one and sign in with one         *)
(* (passkey.service.ts), the tables passkeys and webauthn_challenges       *)
(* (passkey.repository.drizzle.ts), the sessions that they start from and  *)
(* end in, and the statements of a change of the password, of the prune    *)
(* job and of the purge that delete from them.                             *)
(*                                                                         *)
(* The library that checks signatures is external: a response of the       *)
(* browser names a credential, a challenge and a counter, and is genuine   *)
(* or is refused.  Time is in whole seconds, as the DATETIME columns are.  *)
(* Users have an address; CSRF, cookies, pages and the expiry of sessions  *)
(* are left out.                                                           *)
(***************************************************************************)
EXTENDS Naturals, FiniteSets

CONSTANTS
  Users,
  Credentials,   \* the key pairs of authenticators
  PasskeyIds,    \* bounds the rows of passkeys
  ChallengeIds,  \* bounds the rows of webauthn_challenges
  Requests,      \* the handlers that may run at once
  Null,
  MaxPasskeys,   \* MAX_PASSKEYS
  FreshLogin,    \* FRESH_LOGIN_MS
  ChallengeTTL,  \* CHALLENGE_TTL_MS
  MaxCounter,    \* bounds the counters of authenticators
  MaxTime        \* bounds the clock

ASSUME PasskeysAssumption ==
  /\ Null \notin Users \cup PasskeyIds \cup Nat
  /\ IsFiniteSet(PasskeyIds) /\ IsFiniteSet(Requests) /\ Requests # {}
  /\ MaxPasskeys \in Nat \ {0} /\ MaxCounter \in Nat
  /\ FreshLogin \in Nat /\ ChallengeTTL \in Nat \ {0} /\ MaxTime \in Nat

VARIABLES
  live,        \* the users that are not deleted
  sessions,    \* the live sessions: whose, and since when
  passkeys,    \* passkeys
  challenges,  \* webauthn_challenges
  now,
  req,         \* the local state of every handler
  opened,      \* history: how many ceremonies a challenge has opened
  signedIn     \* history: when a user last signed in

history == <<opened, signedIn>>
vars == <<live, sessions, passkeys, challenges, now, req, history>>

Counters == 0..MaxCounter

Passkey == [user: Users, credential: Credentials, counter: Counters]
NoPasskey == [user |-> Null, credential |-> Null, counter |-> 0]

Challenge == [user: Users \cup {Null}, expiresAt: Nat, consumed: BOOLEAN]
NoChallenge == [user |-> Null, expiresAt |-> 0, consumed |-> TRUE]

(***************************************************************************)
(* A handler awaits the statement that pc names; it has the user, the row  *)
(* and the counter it read, and what the browser sent.                     *)
(***************************************************************************)
Pcs == {"idle", "user", "list", "store",
        "consume", "limit", "already", "create",
        "assert", "record", "account", "session"}

Handler(pc, user) ==
  [pc |-> pc, user |-> user, challenge |-> Null, credential |-> Null,
   signed |-> 0, passkey |-> Null, counter |-> 0]

Idle == Handler("idle", Null)

At(r, pc) == req[r].pc = pc

Finish(r) == req' = [req EXCEPT ![r] = Idle]

Await(r, pc) == req' = [req EXCEPT ![r].pc = pc]

\* The challenge is not needed any more.
AwaitOpened(r, pc) == req' = [req EXCEPT ![r].pc = pc, ![r].challenge = Null]

Rows == {p \in PasskeyIds : passkeys[p] # NoPasskey}

RowsOf(u) == {p \in Rows : passkeys[p].user = u}

RowsWith(c) == {p \in Rows : passkeys[p].credential = c}

FreePasskeys ==
  {p \in PasskeyIds \ Rows : \A r \in Requests : req[r].passkey # p}

FreeChallenges ==
  {k \in ChallengeIds : /\ challenges[k] = NoChallenge
                        /\ \A r \in Requests : req[r].challenge # k}

-----------------------------------------------------------------------------
(***************************************************************************)
(* storeChallenge; of a challenge to sign in, the user is NULL.            *)
(***************************************************************************)
StoreChallenge(k, user) ==
  /\ k \in FreeChallenges
  /\ challenges' = [challenges EXCEPT ![k] =
       [user |-> user, expiresAt |-> now + ChallengeTTL, consumed |-> FALSE]]
  /\ opened' = [opened EXCEPT ![k] = 0]

(***************************************************************************)
(* consumeChallenge: one conditional UPDATE.  The purpose is told by the   *)
(* user, which only a challenge to register has.                           *)
(***************************************************************************)
\* Deviation of Consumable: a challenge does not expire.
ConsumableLate(k, user) ==
  challenges[k] # NoChallenge /\ challenges[k].user = user /\ ~challenges[k].consumed

\* Deviation of Consumable: a row that is there is taken.
ConsumableAgain(k, user) ==
  /\ challenges[k] # NoChallenge
  /\ challenges[k].user = user
  /\ challenges[k].expiresAt > now

Consumable(k, user) ==
  /\ challenges[k].user = user
  /\ ~challenges[k].consumed
  /\ challenges[k].expiresAt > now

Consume(k) ==
  /\ challenges' = [challenges EXCEPT ![k].consumed = TRUE]
  /\ opened' = [opened EXCEPT ![k] = @ + 1]

-----------------------------------------------------------------------------
SignInOptions(k) ==
  /\ StoreChallenge(k, Null)
  /\ UNCHANGED <<live, sessions, passkeys, now, req, signedIn>>

(***************************************************************************)
(* verifySignIn: the row of the credential is read, the challenge consumed *)
(* as the library asks for it, the counter compared with the row's, and    *)
(* then stored whatever the row says by now.                               *)
(***************************************************************************)
VerifySignIn(r, p, k, signed) ==
  /\ At(r, "idle")
  /\ p \in Rows
  /\ req' = [req EXCEPT ![r] =
       [pc |-> "assert", user |-> passkeys[p].user, challenge |-> k,
        credential |-> Null, signed |-> signed, passkey |-> p,
        counter |-> passkeys[p].counter]]
  /\ UNCHANGED <<live, sessions, passkeys, challenges, now, history>>

\* Deviation of CounterRises: the counter is not compared.
CounterIgnored(stored, signed) == TRUE

CounterRises(stored, signed) == (stored > 0 \/ signed > 0) => signed > stored

CheckAssertion(r) ==
  /\ At(r, "assert")
  /\ IF Consumable(req[r].challenge, Null)
       THEN /\ Consume(req[r].challenge)
            /\ \/ CounterRises(req[r].counter, req[r].signed) /\ AwaitOpened(r, "record")
               \/ Finish(r)
       ELSE Finish(r) /\ UNCHANGED <<challenges, opened>>
  /\ UNCHANGED <<live, sessions, passkeys, now, signedIn>>

RecordUse(r) ==
  /\ At(r, "record")
  /\ passkeys' = IF req[r].passkey \in Rows
                   THEN [passkeys EXCEPT ![req[r].passkey].counter = req[r].signed]
                   ELSE passkeys
  /\ req' = [req EXCEPT ![r] = Handler("account", req[r].user)]
  /\ UNCHANGED <<live, sessions, challenges, now, history>>

(***************************************************************************)
(* createPasskeySession; an address that is not verified refuses, as       *)
(* CutShort may at any statement.                                          *)
(***************************************************************************)
Account(r) ==
  /\ At(r, "account")
  /\ IF req[r].user \in live THEN Await(r, "session") ELSE Finish(r)
  /\ UNCHANGED <<live, sessions, passkeys, challenges, now, history>>

CreateSession(u) ==
  /\ sessions' = sessions \cup {<<u, now>>}
  /\ signedIn' = [signedIn EXCEPT ![u] = now]

PasskeySession(r) ==
  /\ At(r, "session")
  /\ CreateSession(req[r].user)
  /\ Finish(r)
  /\ UNCHANGED <<live, passkeys, challenges, now, opened>>

-----------------------------------------------------------------------------
(***************************************************************************)
(* registrationOptions, for a session that resolveSession found.           *)
(***************************************************************************)
Resolved(s) == s \in sessions /\ s[1] \in live

RegistrationOptions(r, s) ==
  /\ At(r, "idle")
  /\ Resolved(s) /\ now - s[2] <= FreshLogin
  /\ req' = [req EXCEPT ![r] = Handler("user", s[1])]
  /\ UNCHANGED <<live, sessions, passkeys, challenges, now, history>>

OptionsUser(r) ==
  /\ At(r, "user")
  /\ IF req[r].user \in live THEN Await(r, "list") ELSE Finish(r)
  /\ UNCHANGED <<live, sessions, passkeys, challenges, now, history>>

\* Deviation of BelowLimit: one more is let through.
AtLimit(u) == Cardinality(RowsOf(u)) <= MaxPasskeys

BelowLimit(u) == Cardinality(RowsOf(u)) < MaxPasskeys

OptionsList(r) ==
  /\ At(r, "list")
  /\ IF BelowLimit(req[r].user) THEN Await(r, "store") ELSE Finish(r)
  /\ UNCHANGED <<live, sessions, passkeys, challenges, now, history>>

OptionsStore(r) ==
  /\ At(r, "store")
  /\ \E k \in ChallengeIds : StoreChallenge(k, req[r].user)
  /\ Finish(r)
  /\ UNCHANGED <<live, sessions, passkeys, now, signedIn>>

(***************************************************************************)
(* register, for any live session of the user: the challenge is consumed,  *)
(* the limit and the credential are looked up, and the row inserted; its   *)
(* UNIQUE index refuses a credential that is there by then.                *)
(***************************************************************************)
Register(r, s, k, c) ==
  /\ At(r, "idle")
  /\ Resolved(s)
  /\ req' = [req EXCEPT ![r] =
       [pc |-> "consume", user |-> s[1], challenge |-> k, credential |-> c,
        signed |-> 0, passkey |-> Null, counter |-> 0]]
  /\ UNCHANGED <<live, sessions, passkeys, challenges, now, history>>

RegisterConsume(r) ==
  /\ At(r, "consume")
  /\ IF Consumable(req[r].challenge, req[r].user)
       THEN /\ Consume(req[r].challenge)
            /\ AwaitOpened(r, "limit") \/ Finish(r)
       ELSE Finish(r) /\ UNCHANGED <<challenges, opened>>
  /\ UNCHANGED <<live, sessions, passkeys, now, signedIn>>

RegisterLimit(r) ==
  /\ At(r, "limit")
  /\ IF BelowLimit(req[r].user) THEN Await(r, "already") ELSE Finish(r)
  /\ UNCHANGED <<live, sessions, passkeys, challenges, now, history>>

RegisterAlready(r) ==
  /\ At(r, "already")
  /\ IF RowsWith(req[r].credential) = {} THEN Await(r, "create") ELSE Finish(r)
  /\ UNCHANGED <<live, sessions, passkeys, challenges, now, history>>

\* Deviation of IndexRefuses: there is no UNIQUE index.
IndexAdmits(c) == FALSE

IndexRefuses(c) == RowsWith(c) # {}

RegisterCreate(r) ==
  /\ At(r, "create")
  /\ IF ~IndexRefuses(req[r].credential)
       THEN \E p \in FreePasskeys, counter \in Counters :
              passkeys' = [passkeys EXCEPT ![p] =
                 [user |-> req[r].user, credential |-> req[r].credential,
                  counter |-> counter]]
       ELSE UNCHANGED passkeys
  /\ Finish(r)
  /\ UNCHANGED <<live, sessions, challenges, now, history>>

-----------------------------------------------------------------------------
(***************************************************************************)
(* What deletes rows: the owner, a change of the password, the prune job   *)
(* and the purge, each by one statement on a table.                        *)
(***************************************************************************)
KeepPasskeys(kept) ==
  passkeys' = [p \in PasskeyIds |-> IF p \in kept THEN passkeys[p] ELSE NoPasskey]

KeepChallenges(kept) ==
  challenges' = [k \in ChallengeIds |-> IF k \in kept THEN challenges[k]
                                                       ELSE NoChallenge]

Remove(p) ==
  /\ p \in Rows
  /\ KeepPasskeys(Rows \ {p})
  /\ UNCHANGED <<live, sessions, challenges, now, req, history>>

DeleteAllPasskeysForUser(u) ==
  /\ RowsOf(u) # {}
  /\ KeepPasskeys(Rows \ RowsOf(u))
  /\ UNCHANGED <<live, sessions, challenges, now, req, history>>

RevokeSessions(u) ==
  /\ sessions' = {s \in sessions : s[1] # u}
  /\ UNCHANGED <<live, passkeys, challenges, now, req, history>>

PurgeChallenges(u) ==
  /\ u \notin live
  /\ KeepChallenges({k \in ChallengeIds : challenges[k].user # u})
  /\ UNCHANGED <<live, sessions, passkeys, now, req, history>>

PruneChallenges ==
  /\ KeepChallenges({k \in ChallengeIds : challenges[k].expiresAt >= now})
  /\ UNCHANGED <<live, sessions, passkeys, now, req, history>>

(***************************************************************************)
(* A sign-in in another way; softDelete; the clock, on whose scale a       *)
(* request for options takes no time; a failing statement.                 *)
(***************************************************************************)
SignIn(u) ==
  /\ u \in live
  /\ CreateSession(u)
  /\ UNCHANGED <<live, passkeys, challenges, now, req, opened>>

SoftDelete(u) ==
  /\ live' = live \ {u}
  /\ UNCHANGED <<sessions, passkeys, challenges, now, req, history>>

Tick ==
  /\ now < MaxTime
  /\ \A r \in Requests : req[r].pc \notin {"user", "list", "store"}
  /\ now' = now + 1
  /\ UNCHANGED <<live, sessions, passkeys, challenges, req, history>>

CutShort(r) ==
  /\ ~At(r, "idle")
  /\ Finish(r)
  /\ UNCHANGED <<live, sessions, passkeys, challenges, now, history>>

-----------------------------------------------------------------------------
Init ==
  /\ live = Users
  /\ sessions = {}
  /\ passkeys = [p \in PasskeyIds |-> NoPasskey]
  /\ challenges = [k \in ChallengeIds |-> NoChallenge]
  /\ now = 0
  /\ req = [r \in Requests |-> Idle]
  /\ opened = [k \in ChallengeIds |-> 0]
  /\ signedIn = [u \in Users |-> Null]

SignInStep(r) ==
  \/ \E p \in PasskeyIds, k \in ChallengeIds, signed \in Counters :
       VerifySignIn(r, p, k, signed)
  \/ CheckAssertion(r)
  \/ RecordUse(r)
  \/ Account(r)
  \/ PasskeySession(r)

RegisterStep(r) ==
  \/ \E s \in sessions : RegistrationOptions(r, s)
  \/ OptionsUser(r)
  \/ OptionsList(r)
  \/ OptionsStore(r)
  \/ \E s \in sessions, k \in ChallengeIds, c \in Credentials : Register(r, s, k, c)
  \/ RegisterConsume(r)
  \/ RegisterLimit(r)
  \/ RegisterAlready(r)
  \/ RegisterCreate(r)

Environment ==
  \/ \E k \in ChallengeIds : SignInOptions(k)
  \/ \E p \in PasskeyIds : Remove(p)
  \/ \E u \in Users : DeleteAllPasskeysForUser(u)
  \/ \E u \in Users : RevokeSessions(u)
  \/ \E u \in Users : PurgeChallenges(u)
  \/ PruneChallenges
  \/ \E u \in Users : SignIn(u)
  \/ \E u \in Users : SoftDelete(u)
  \/ Tick

Next ==
  \/ \E r \in Requests : SignInStep(r) \/ RegisterStep(r) \/ CutShort(r)
  \/ Environment

Spec == Init /\ [][Next]_vars

-----------------------------------------------------------------------------
Request == [pc: Pcs, user: Users \cup {Null},
            challenge: ChallengeIds \cup {Null},
            credential: Credentials \cup {Null}, signed: Counters,
            passkey: PasskeyIds \cup {Null}, counter: Counters]

(***************************************************************************)
(* Well typed, and a credential is in one row at most, though register     *)
(* looked it up a statement before its insert.                             *)
(***************************************************************************)
TypeOK ==
  /\ live \subseteq Users
  /\ sessions \subseteq Users \X Nat
  /\ passkeys \in [PasskeyIds -> Passkey \cup {NoPasskey}]
  /\ \A p, q \in Rows : passkeys[p].credential = passkeys[q].credential => p = q
  /\ challenges \in [ChallengeIds -> Challenge \cup {NoChallenge}]
  /\ now \in Nat
  /\ req \in [Requests -> Request]
  /\ opened \in [ChallengeIds -> Nat]
  /\ signedIn \in [Users -> Nat \cup {Null}]

(***************************************************************************)
(* A challenge opens one ceremony, however many requests carry it at once  *)
(* ("a replay or a parallel duplicate loses").                             *)
(***************************************************************************)
ChallengeOpensOnce == \A k \in ChallengeIds : opened[k] <= 1

(***************************************************************************)
(* A passkey is added to an account only where somebody signed in to that  *)
(* account moments ago, though register itself does not look at the age of *)
(* the session ("the challenge came from a fresh session").                *)
(***************************************************************************)
RegisteredFresh ==
  [][\A r \in Requests : At(r, "consume") /\ req'[r].pc = "limit" =>
       /\ signedIn[req[r].user] # Null
       /\ now < signedIn[req[r].user] + FreshLogin + ChallengeTTL]_vars

(***************************************************************************)
(* Parallel registrations push an account past MAX_PASSKEYS by as many as  *)
(* run beside the first at most, for ever (the comment on the check).      *)
(***************************************************************************)
Admitted(u) ==
  {r \in Requests : req[r].pc \in {"already", "create"} /\ req[r].user = u}

LimitHolds ==
  \A u \in Users : Cardinality(RowsOf(u)) + Cardinality(Admitted(u))
                     < MaxPasskeys + Cardinality(Requests)

(***************************************************************************)
(* recordUse is blind, but a stored counter falls only when another        *)
(* sign-in with the same passkey was recorded since this one read its row. *)
(***************************************************************************)
CounterFallsOnlyInRace ==
  [][\A p \in PasskeyIds :
       p \in Rows /\ p \in Rows' /\ passkeys'[p].counter < passkeys[p].counter =>
         \E r \in Requests : /\ At(r, "record") /\ req[r].passkey = p
                             /\ req[r].counter # passkeys[p].counter]_vars
===============================================================================
