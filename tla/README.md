# Verification of authx

TLA+ models of the authorization server in this repository, model-checked with
TLC on small instances, and proved with TLAPS for all instances where the
section *What is proved* says so. Every definition is translated from the code
under `src/src/`; `PROJECT.json` maps each one to its lines.

authx is one Deno process (Hono routes, Drizzle over MySQL). Its concurrency is
that of an event loop: a handler runs without interruption from one `await` to
the next, and anything may run while it waits. There are no database locks and
almost no transactions: what keeps concurrent handlers apart are conditional
UPDATEs (`... WHERE revoked_at IS NULL`, then `affectedRows === 1`) and UNIQUE
indexes. So in every module an action is what a handler does from the reply to
one statement to the issue of the next, `req[r]` holds what handler `r`
remembers across the wait, and `pc` names the statement whose reply it awaits.

## The parts of the system

| Part | State | Operations | What is hard | What makes it correct |
|---|---|---|---|---|
| Refresh tokens (`auth.service.ts`, `token.repository*.ts`) | `refresh_tokens`: user, service, expiry, `revoked_at`, `replaced_by` | issue, refresh (rotate), revoke, family revocation, purge, prune | two refreshes with one token; replays within and past the grace; revocations in flight; DATETIMEs that round | one usable token per chain; a replay ends the family; a race within the grace does not |
| Authorization codes (`auth.service.ts`, `authcode.repository*.ts`) | `authorization_codes`: client, redirect, PKCE, `consumed_at` | issue, exchange, purge, prune | two exchanges of one code; replays with a wrong secret; the loser's revocation before the winner's insert | a code is redeemed once, with its full proof; its replay ends the family |
| Login throttle (`lib/login-attempts.ts`) | a Map in memory: count, `lockedUntil` | record, clear, ask, by every way to sign in | bursts of guesses between `await`s; alternating right passwords and guessed codes; expired locks | guesses per lockout are bounded; a lock needs a full run of failures |
| Mailed links (`modules/verification`) | `email_verification_tokens`; address and `email_verified` of `users` | ask for, open and confirm a link (verify, change, delete, reset) | the address changes while a link is open; two tabs; links accepted before a recovery | a verified address was proven; a link acts once; recovery ends earlier links |
| Users (`modules/users`) | `users` | register, guest, update, soft delete, purge | stale reads before writes; a purge that stops half way | one row per address; nothing of a purged user remains |
| Sessions and hosted login (`auth.routes.ts`, `hosted.ts`, `session.repository*.ts`) | `sessions`; the signed MFA challenge | password form, TOTP form, passkey, Google, authorize, logout | a change of the password between any two steps of a sign-in | nothing stored under an old password is accepted after the change |
| TOTP (`modules/mfa`, `lib/totp.ts`) | `user_totp` (secret, enabled, `last_step`), `totp_recovery_codes` | setup, confirm, verify, disable, reset | one code twice at once; a setup racing a confirm; deletions in two statements | a code is accepted once; an enabled factor is not turned off by accident |
| Passkeys (`modules/passkeys`) | `passkeys`, `webauthn_challenges` | options, register, sign in, delete | parallel registrations at the limit; one assertion sent twice; counters stored out of order; a session that ages between two requests | a challenge opens one ceremony; a passkey is added only shortly after a sign-in; the limit is passed by parallel requests only, and a counter falls in a race only |
| Google sign-in and binding (`auth.service.ts`, `social.repository*.ts`) | `social_accounts`; `users` | sign in, first sign-in, bind to the bearer's account | two requests for one Google account or one address; a stop between two inserts; compensation | an account is never stranded; a Google account never changes hands |
| Organisations and membership (`modules/orgs`) | `organizations`, `app_services`, `memberships` | create, register and update services, add and remove members, guests | membership removed during a grant; a service that stops taking guests while one is made | a grant made after the removal mints nothing; a name is created once |
| Roles and administration (`modules/rbac`, `modules/admin`, `middleware/authorize.ts`) | `roles`, `permissions`, `role_permissions`, `user_roles`, `client_roles` | create, grant, assign and their inverses, over HTTP | a scope read in two statements; requests admitted before a revocation or a deletion; names a tenant shares with the platform | nobody escalates; what was revoked before a grant is not minted |
| Key ring and access tokens (`lib/keys.ts`, `lib/jwt.ts`, `middleware/auth.ts`) | the active and the previous keys of the process | mint, verify, rotate, drop | tokens signed just before a rotation | no token is refused for its key before it expires |
| Seed (`db/seed.ts`) | the platform's rows and the first administrator | seed, beside running requests | two seeds at once; a seed beside a revocation | it converges to the same rows |
| Prune job (`db/prune.ts`) | deletes from every table above | prune, purge | runs beside every handler | no dangling successor, code or link |
| Rate limit | counters per window | count, uncount | a decrement that crosses a window | not modelled |
| OIDC, discovery, configuration, mail, pages, logging | constants, or none | format, parse | — | not modelled |

The parts meet in the tables: a sign-in of any kind ends in `sessions`, a
session in a code, a code in a chain of refresh tokens. The user row (live,
verified, password) and membership are read by all of them, and changed by
users, mailed links and Google while they run.

## The modules

| Module | Models | Composed with |
|---|---|---|
| `TokenStore` | `token.repository.drizzle.ts`: one operator per statement on `refresh_tokens`, with the rounding of DATETIME | — |
| `RotationChain` | abstract: what rotation promises. A chain has at most one usable token; using it replaces it; an ended chain stays ended | implemented by `RefreshTokens`, alone and inside `CodeExchange` |
| `OneShot` | abstract: what a secret that is sent to somebody promises. It is issued once and good until one handler takes it or it is spoiled; only who took it acts by it, and once | implemented by the links of `AccountLinks` and the codes of `CodeExchange` |
| `RefreshTokens` | `refreshGrant`, `revoke`, `issueTokensForService`, with deletion, verification, membership, password changes, purge, prune and the clock | extends `TokenStore` |
| `CodeExchange` | `issueAuthorizationCode`, `exchangeAuthorizationCode`; a won exchange goes on as the issuing handler of `RefreshTokens` | extends `RefreshTokens` |
| `LoginThrottle` | the counter, and the password, TOTP, Google and passkey sign-ins that read, raise or clear it | — |
| `AccountLinks` | verification, change of address, deletion and reset by mailed link, with the operator's update | — |
| `Credentials` | one account's sessions, challenges, codes, refresh tokens and passkeys beside changes of its password and of TOTP | — |
| `TwoFactor` | one account's TOTP enrolment and recovery codes | — |
| `SocialAccounts` | Google sign-in and binding over `users` and `social_accounts` | — |
| `Passkeys` | the ceremonies that register a passkey and sign in with one, over `passkeys`, `webauthn_challenges` and the sessions they start from | — |
| `AccessTokens` | the tables of roles and permissions, the two grants that read them into a token's scope, the key ring, and `requireAuth` and `requirePermission` | — |
| `Administration` | every route of the management API that writes, guests, the seed, and the purge of memberships and roles | extends `AccessTokens` |
| `MC*` | the instances that TLC checks: definitions for constants, and symmetry sets | |
| `*_proofs` | the theorems about the module they are named after; those about `RefreshTokens` are the first part of `CodeExchange_proofs` | |

How they correspond to the code: a VARIABLE is a table (a function from row
identifiers to rows, with a row that stands for "not there"), the memory of the
handlers (`req`), or the clock (`now`). An action is named after the function
or statement it models. Variables marked *history* are written but never read
by an action; only properties speak about them. What a definition that is
named *Deviation of X* shows is a plausible bug in `X`; no specification uses
it.

Abstractions, beside those that the modules' headers name:

- Tokens, codes and links are identities, not strings: nobody guesses one.
  Addresses are compared as MySQL's collation does, so two spellings of one
  address are one address.
- `RefreshTokens`: the row of the service is read again wherever the code
  reads it, but services do not change.
- `Credentials`: the detail of an exchange or a refresh is left to
  `CodeExchange` and `RefreshTokens`; here a stale one ends its handler and may
  end every refresh token. Identifiers of rows are used again once free.
- `TwoFactor`: the encryption of the secret and the QR code are left out.
- `SocialAccounts`: a purge waits until no handler carries the user, as
  the grace period (days) exceeds a request (seconds). Registration, the
  reset of a password and changes of address are single steps here; their own
  races are in `AccountLinks`.
- `AccessTokens`: a UNIQUE name stands for the row that has it, so a role is its
  service with its name; `user_roles` and `client_roles` are one table of tagged
  subjects. Refresh tokens and codes, which lead to the same grants, are in
  `RefreshTokens` and `CodeExchange`.
- `Passkeys`: the library that checks signatures is external: a response is
  genuine or refused, and names the credential, the challenge and the counter
  it was made with. The clock counts seconds, and a request for options, which
  stores its challenge within one, does not span a tick. Sessions do not
  expire, which leaves more of them than there are.
- The restart of the process is modelled as handlers that are cut short
  (`CutShort`) at any statement. That a restart also forgets the login throttle
  is not.

## What the runs check

Bounds are chosen so that every action happens and every race of two handlers is
complete; a third handler does what one of the two has just finished doing.
Symmetry is used only for handlers, rows and users that are interchangeable,
and never in a run with a liveness property.

| Run | Instance | Shows |
|---|---|---|
| `RefreshRotation` | 1 user, 1 confidential service, 3 tokens, 2 handlers, a clock of thirds of a second to 5, grace and lifetime of one second; prune, purge, deletion, verification, membership and password changes; the constraint `SmallEnough` | types; one usable token per chain (`OneLiveTokenPerChain`); a replaced row has its successor (`SuccessorPresent`); whoever mints a token was let through each gate of the user during its own request (`MinterPassedEveryGate`); only the token's own client acts (`OnlyOwnClientActs`); a second tab within the grace, save its last half second, is forgiven (`RaceWithinGraceIsForgiven`); the table implements `RotationChain`. Three tokens make two rotations of one chain, or two chains; the clock passes the expiry, the grace and the retention. `SmallEnough` goes on from three tokens up to tick 2 and from two up to tick 5, and while a gate of the user is closed from two up to tick 1 and from one up to tick 4; all are proved without any bound. |
| `ReplayFair` | 2 tokens, 1 code, 2 handlers, grace 0, a clock of thirds of a second to 2, password changes | liveness: a replay of a token or of a code that was recognised ends every token of its user (`ReplayEndsFamily`, `CodeReplayEndsFamily`) |
| `ExchangeSafety` | a confidential and a public client, 2 tokens, 1 code, 2 exchanges; deletion, membership, verification, purge, prune, faults | codes implement `OneShot` (`CodeOneShot`): one handler redeems a code, mints by it once, and no used or deleted code is good again; it is redeemed only with secret, redirect and verifier (`OnlyFullProofConsumes`). That an exchange passes the gates like a refresh, for every instance, is the theorem `ExchangeGatesHold` |
| `Lockout` | 2 sign-ins, 2 failures to a lock of 2, clock to 5, at most 6 failures between two sign-ins | `GuessesBounded`, `LockNeedsFullRun`: over two whole lockouts |
| `LinksProof` | 2 users, 2 addresses, 2 links, 2 handlers; changes, deletions, resets, the operator's update, failing statements | an address comes to be verified because it was proven (`VerifiedWasProven`, with the stale writes of the gaps below as its exceptions); links implement `OneShot` (`LinkOneShot`) |
| `LinksFair` | 1 user, 2 addresses, 2 links, 2 fair handlers; changes, deletions, resets, password changes, expiry, removal by others | `VerificationHonoured` (liveness), `RecoveryEndsLinks` |
| `PasswordChange` | 2 credentials at once, 2 handlers, 2 changes | `NothingOlderSurvives`, `PasswordAloneOnlyWithoutTotp` |
| `Totp` | 2 secrets, 2 sets of recovery codes, 2 handlers, 2 steps of the clock | `CodeAcceptedOnce`, `OnlyDeletionTurnsOff` across two enrolments |
| `Social` | 2 users, 2 Google accounts, 2 handlers | `NoStrandedAccount`, `LinkedUserHasAddress`, `NoOrphanLinks`, `GoogleStaysWithOwner`, and one row per address (in `TypeOK`) |
| `Administration` | the first administrator, a user and a guest; a tenant whose role and permission carry the platform's names, and a service still to be registered; 2 grants and 2 other events, 2 handlers, 2 signing keys, tokens that live 1 tick of 2 | `RevokedIsNotMinted`, `OnlyGivenAct`, `CreatedOnce`, `LiveTokenVerifies`. Two events are a request beside a revocation, a deletion, a rotation or another request; the tenant is there to be mistaken for the platform |
| `Passkeys` | 1 user, 2 credentials, 2 rows, 2 challenges, limit 1, 2 handlers, freshness and challenges of 1 tick of 2, counters 0 and 1 | `ChallengeOpensOnce`, `LimitHolds`, `RegisteredFresh`, `CounterFallsOnlyInRace`, and one row per credential (in `TypeOK`). Two registrations past the check exceed the limit of one; the clock passes freshness and the life of a challenge |
| `PasswordOutlived` | one handler, one change | violated: a code issued under the old password yields a refresh token after the change |

The violated run is a disagreement between a comment and the code; `findings`
in `PROJECT.json` quotes it.

The constants that bound a run: `Users`, `Services`, `TokenIds`, `CodeIds`,
`LinkIds`, `Ids`, `Secrets`, `Recovery`, `Googles`, `Guests`, `Audiences`,
`Slugs`, `SigningKeys`, `PasskeyIds`, `ChallengeIds` (rows that are ever, or at
once, there), `Requests` (handlers at once), `MaxTime`, `MaxStep` (the clock),
`MaxAttempts`, `MaxChanges`, `MaxGrants`, `MaxEvents`, `MaxCounter`; `Events` and `Clients` select what happens beside
the handlers. `Links*` allow deadlock: every link and account may be used up,
and then nothing is left to happen. So do
`Administration`, whose grants and events are counted, and `Passkeys`, where a
deleted user ends everything. `Resolution = 3` counts the clock in
thirds of a second: a stored timestamp rounds a third into the future or a third
into the past. The theorems hold for any resolution.

## Fairness

`FairSpec` and `XFairSpec` assume weak fairness of each handler's next step and
of nothing else: once MySQL has answered, the event loop resumes the handler.
The 15-second timeout of `app.ts` answers the client but does not stop the
handler, so it does not weaken this. No fairness is assumed of clients, of the
clock, of the prune job, or of faults; the fair runs have no faults, for a
handler that fails at the revocation it owes revokes nothing.

## What is proved

For every value of the constants that satisfies the modules' assumptions:

| Theorem | Statement |
|---|---|
| `TypeCorrect` (of `RefreshTokens` and of `Administration`), `LinksTyped`, `CredentialsTyped`, `TwoFactorTyped`, `SocialTyped`, `PasskeysTyped` | type invariants; `SocialTyped` includes that an address has one row, `PasskeysTyped` that a credential has |
| `OneLiveToken` | `OneLiveTokenPerChain` |
| `ImplementsChains` | `RefreshTokens` implements `RotationChain` |
| `OwnClientOnly`, `SuccessorStays`, `RaceForgiven` | `OnlyOwnClientActs`, `SuccessorPresent`, `RaceWithinGraceIsForgiven` |
| `GatesHold` (of `RefreshTokens`), `ExchangeGatesHold` (composed with `CodeExchange`) | `MinterPassedEveryGate` |
| `ExchangeTyped`, `FullProofOnly` | `XTypeOK`, `OnlyFullProofConsumes` |
| `CodesImplementOneShot`, `LinksImplementOneShot` | codes and mailed links implement `OneShot` |
| `CodeWorthOneSignIn`, `ActsOnce` | `CodeRedeemedOnce`, `LinkActsOnce`: what these two refinements say of the effect alone, as invariants; the runs check the refinements instead |
| `ExchangeImplementsChains`, `ExchangeKeepsRows`, `ExchangeKeepsRefreshes` | of the composition with `CodeExchange`: it implements `RotationChain`; `OneLiveTokenPerChain` and `SuccessorPresent`; `OnlyOwnClientActs` and `RaceWithinGraceIsForgiven` |
| `FullRunNeeded`, `GuessingBounded` | `LockNeedsFullRun`, `GuessesBounded` |
| `RecoveryEnds` | `RecoveryEndsLinks` |
| `VerifiedProven` | `VerifiedWasProven` |
| `ChangeEndsOlder`, `SecondFactorHolds` | `NothingOlderSurvives`, `PasswordAloneOnlyWithoutTotp` |
| `AcceptedOnce`, `StaysOnUntilDeleted` | `CodeAcceptedOnce`, `OnlyDeletionTurnsOff` |
| `RevokedKeysNotMinted`, `OnlyTheGivenAct`, `RotationUnnoticed`, `NamesCreatedOnce` | the four properties of `Administration` |
| `OpensOnce`, `LimitKept`, `FreshlyRegistered`, `CounterFalls` | the four properties of `Passkeys` |
| `NobodyStranded`, `LinkFollowsAddress`, `LinksNameRows`, `OwnerKept` | the four properties of `Social` |

The arguments:

- *Chains.* `OneLiveTokenPerChain` is not inductive: a handler about to rotate
  must be known to hold a token of the chain it belongs to. The invariant adds
  `HandlersBound` (what a handler remembers agrees with a row that was there)
  and `Rooted` (a row's root is its own chain's). Only `rotate` adds a token to
  a chain, and it does so in the statement that retires the one it replaces.
  The same invariant gives the refinement: each statement on the table ends
  some chains, advances one, begins one, or stutters.
- *Successors.* A row is deleted with every row of its user that expires no
  later (`OldestFirst`), so what is left to show is that a successor expires no
  earlier than the row it replaced: the row a handler is about to insert was
  built after that row was inserted (`NextInTime`, from `RowsInTime` when it is
  built), and the rounding of the column keeps the order (`StoredMonotone`).
- *Grace.* A row that was rotated carries its successor and a revocation no
  earlier than the rotation as the column rounds it (`Stamped`): later
  revocations only move it forward, and the rounding takes half a second off at
  most (`Since`, `StoredNearest`); the row that a handler judges was read after the
  rotation, or was revoked without one and is never rotated (`SawRotation`).
- *Clients.* A handler past the first check of `refreshGrant`, or that revokes,
  acts for a client that authenticated (`Authenticated`); `HandlerMoves` lists
  the ways from one statement to the next, and none passes the check by.
- *Codes.* Every step of the composition is a step of `RefreshTokens`, wins a
  code or revokes a family (`BaseCases`), so its lemmas carry over. A code that
  is being redeemed or minted a token is consumed or gone (`Once` in
  `RedeemInv`), which nothing undoes, and a handler that redeems is inside
  `issueTokensForService` (`Aligned`), whose last statement mints one token. A
  code keeps its service from the read to the consume (`Judged`).
- *Gates.* A handler past a check has seen that gate open: `saw` is carried
  along by every step, including those of others.
- *Lockouts.* An entry that locks nothing is below the limit, and the failures
  it counts came after those of the lockouts begun before (`EntryPaid`): the
  failure that reaches the limit pays for the lockout it begins, and one that is
  counted while the account is locked begins none. For the guesses, `Counts`
  relates an entry to the account's history: one that locks nothing has counted
  all guesses but those a lockout old, and one that locks does so until a lockout
  after each of them. A guess is tested only where the account is not locked,
  and is counted in that step, before any `await`.
- *Composition.* What `CodeExchange` adds is, for the table of tokens, a grant
  that starts and a family that is revoked at any time. The invariants of
  `RefreshTokens` are therefore proved for `TokenStep`, its `Next` with such a
  revocation beside it, and hold for `Spec` (`AsTokens`) and for `XSpec`
  (`ExchangeIsTokenStep`) alike.
- *One shot.* A code or a link is held from its consume to its effect. Only the
  conditional UPDATE makes one held, and it makes it bad in the same statement;
  a held one is bad (`RedeemInv`, `ActsInv`), so nobody else takes it. One
  handler moves at a time, hence one effect at a time. A step that touches no
  row keeps what is held or gives it up; purge, prune, expiry and recovery spoil
  what they touch and leave the holders alone.
- *Links.* No step makes a used link usable again or alters what it is for
  (`LinksKept`), and at most one handler moves at a time (`OneMoves`). A handler
  about to act holds a link that is used up and has not acted, alone
  (`ActsInv`), since it used it up itself; a link that a recovery ended is used
  up (`RecoveredUsed`). Links that verify go to the address they verify, so a
  handler that opened one has it proven (`Sound`). A step that leaves an account
  a verified address it did not have (`Right`) marks it, and compares the
  address; or resets the password or takes the operator's word, by id: then
  either the address is the one the handler saw proven, or the write is stale.
- *Passwords.* `IInv` states how far a change has come, and that what its
  revocations have passed holds nothing older; a handler's root is never ahead
  of the stored password. Nothing older can be stored once the hash is written,
  because whatever is stored is stored under the current one.
- *TOTP.* Every accepted code is recorded in `last_step` of its enrolment or is
  earlier than it (`SpentRecorded`), a handler about to advance holds a code of
  a secret that was stored (`HolderSound`), and a deleted secret never returns.
- *Google.* A handler's user cannot be purged under it; a user with an address
  keeps having one; a live user who is linked without an address has a handler
  that will either set the address or take the link back, or met a fault
  (`LinkSettled`). The bind that created the link is the one that settles it,
  and that is why a later bind that finds the link may leave without settling.
- *Administration.* A token of the platform's own audience names in its scope
  only keys that its subject was given (`TokensGiven`): a role and a key that
  held at some time, recorded in `ever`. What a grant has read is part of what
  has held since it began (`SinceOK`), so a revocation before it is not undone
  by reading in two statements. A request past its gates presented such a token
  (`ManageOK` in `HandlersOK`). A token of a key that is not active expires
  `TTL` after the rotation at the latest (`RingOK`), and that is what the
  operator waits for before the key is dropped. A name that a caller was told
  of is there (`AnsweredOK`), and names are not deleted.
- *Passkeys.* `ChallengeOpensOnce` holds since a challenge that opened a
  ceremony is consumed (`OpenedConsumed`). `LimitHolds` counts the handlers past
  the check with the rows: the check admits one only below the limit, and an
  insert turns a handler into a row, so the sum grows nowhere else.
  `RegisteredFresh` needs that a request for options runs while its session is
  fresh and that its challenge expires a lifetime later (`FreshInv`); sign-ins
  of a user only get later (`Forward`), so a new session or a revocation in
  between does no harm. A handler that will store a counter knows that it rose
  against the one it read (`HandlerOK`), so it lowers only another one.

Model-checked only: the liveness properties of `ReplayFair` and `LinksFair`
(TLAPS as installed proves no fairness argument).

## Known gaps of the code

What the models show of the code, beside the finding:

- `revokeAllForUser` stamps `revoked_at` on rows that were rotated long ago, so
  after any family revocation their replay is graced again
  (`token.repository.drizzle.ts:43`; docs/api.md:56 counts the grace from the
  rotation).
- The loser of a race for a code may revoke the family while the winner is
  between `consume` and `create`: the token minted from a replayed code is then
  usable after the replay was answered (`auth.service.ts:592`; the comment of
  line 569 calls such a token compromised). `CodeReplayEndsFamily` speaks about
  the tokens that exist when the replay is recognised.
- A right password whose comparison began before the lock is accepted during it
  (`auth.service.ts:82`; docs/api.md:114).
- Two operator updates of one user may leave an address verified that nobody
  proved (`users.service.ts:188`); so may a reset of the password whose address
  changes between its check and its write (`verification.service.ts:213`).
  `VerifiedWasProven` names these two writes as its only exceptions
  (`WritesStale`), and only where the address changed under them.
- `revoked_at` is rounded to the nearest second, so the grace may end up to half
  a second early: a second tab in that half second ends the family
  (`auth.service.ts:147`; docs/api.md:56 promises the whole grace).
  `RaceWithinGraceIsForgiven` leaves that half second out.
- The scope of a token may mix roles read before a change with keys read after
  it (`rbac.repository.drizzle.ts:49`): a role unassigned in between still gives
  the keys it is granted later. `RevokedIsNotMinted` therefore asks of each key
  that role and grant held at some time since the grant began, not at once.
- A management request acts on permissions and on a user that it read before
  its other awaits (`middleware/auth.ts:26`), and an access token carries its
  scope until it expires (docs/api.md:421 says so).
- The seed grants the platform's permissions to its administrator role again,
  so it undoes the revocation of one (`seed.ts:149`).
- Parallel registrations push an account past `MAX_PASSKEYS`
  (`passkey.service.ts:184` says so), by fewer than run at once and not by more
  over any number of rounds; `recordUse` may lower a stored counter in a race
  (`passkey.service.ts:124`).
- A guest may be created for a service that has just stopped taking guests, and
  is a user without membership when the second statement fails
  (`users.service.ts:113`).
- A link that authorises a change goes by the mailbox it was sent to, even if
  the account has left it since (`verification.service.ts:86`), and is used up
  when the change then fails on the UNIQUE index (`:140`).
- If a statement after the write of the hash fails, the old credentials stay
  (`users.service.ts:198`); so do an MFA challenge and the session of a sign-in
  that had compared the old password before.
- A second TOTP setup between the check of a code and `enable` puts a secret in
  force that nobody proved (`totp.service.ts:152`); a late
  `replaceRecoveryCodes` overwrites those of a later enrolment, or leaves codes
  behind after a reset (`:156`).
- Two binds of one guest to two Google accounts both take the address: the
  second overwrites it, and its compensation deletes the first's link
  (`auth.service.ts:705`, `:753`). A bind may write a soft-deleted row
  (`users.repository.drizzle.ts:93`).

## Not modelled

- Cookies, CSRF, pages, mail, logging, the claims of OIDC and discovery:
  formatting and stateless mappings. Signatures and hashing are libraries'.
- The parsing of the environment and the construction of the process: the
  settings are the CONSTANTS of the modules that use them.
- The rate limit: which requests are counted, and when one is counted back, is
  the middleware library's code; the store that is the repository's own is one
  Map without an `await`. Its one hazard, a decrement that crosses a window, is
  listed in `PROJECT.json` without a property.
- The expiry, purge and prune of sessions and of mailed links: deletions of
  rows that no handler accepts any more.
- Reads that decide nothing: lists, profiles, `GET` routes of the management
  API.

## Plan

Done, in this order: `TokenStore`, `RefreshTokens`, `RotationChain` (the core:
every grant ends there), `CodeExchange`, `LoginThrottle`, `AccountLinks`,
`Credentials`, `TwoFactor`, `SocialAccounts`, `AccessTokens` with
`Administration`, `Passkeys`, `OneShot`, and the proofs above. Next:

1. `AccountPurge`: nine deletions and the row, stopped anywhere, as one
   composition of the purges that `RefreshTokens`, `CodeExchange`,
   `SocialAccounts`, `Administration` and `Passkeys` have.
2. `RateLimit`: decrements that cross a window.
