---------------------------- MODULE LoginThrottle ----------------------------
(***************************************************************************)
(* The per-account lockout: createLoginAttempts of                         *)
(* src/lib/login-attempts.ts, and the sign-ins of                          *)
(* src/modules/auth/auth.service.ts that consult it. The counter lives in  *)
(* the memory of the process and is changed between awaits; what is        *)
(* awaited (the bcrypt comparison, the TOTP rows) lets other sign-ins to   *)
(* the same account in between.                                            *)
(***************************************************************************)
EXTENDS Integers, Sequences, FiniteSets

CONSTANTS
  Accounts,     \* accounts that exist: nothing else is ever counted
  Requests,     \* the sign-ins that may run at once
  MaxFailures,  \* LOGIN_MAX_FAILURES
  Lockout,      \* LOGIN_LOCKOUT_MS
  MaxTime,      \* bounds the clock
  MaxAttempts   \* bounds the failures of an account between two sign-ins

ASSUME ThrottleAssumption ==
  /\ MaxFailures \in Nat \ {0} /\ Lockout \in Nat \ {0}
  /\ MaxTime \in Nat /\ MaxAttempts \in Nat

VARIABLES
  now,       \* Date.now()
  failures,  \* the Map; an account without an entry has NoEntry
  totp,      \* the accounts with TOTP enabled
  req,       \* the local state of every sign-in
  guessed,   \* history: when each code was put to the test since the
             \* account was last signed in to
  failed,    \* history: the failures counted since then
  locks      \* history: the lockouts begun since then

vars == <<now, failures, totp, req, guessed, failed, locks>>

NoEntry == [count |-> 0, lockedUntil |-> 0]

Idle == [pc |-> "idle", account |-> CHOOSE a \in Accounts : TRUE,
         locked |-> FALSE, right |-> FALSE]

At(r, pc) == req[r].pc = pc

Finish(r) == req' = [req EXCEPT ![r] = Idle]

-----------------------------------------------------------------------------
(***************************************************************************)
(* createLoginAttempts. live() drops an expired entry wherever it is read. *)
(***************************************************************************)

\* Deviation of LiveEntry: an expired entry stays.
StaleEntry(a) == failures[a]

LiveEntry(a) ==
  IF failures[a].lockedUntil # 0 /\ failures[a].lockedUntil <= now
    THEN NoEntry
    ELSE failures[a]

Locked(a) == LiveEntry(a).lockedUntil > now

ReadEntry(a) == failures' = [failures EXCEPT ![a] = LiveEntry(a)]

Counted(entry) ==
  [count |-> entry.count + 1,
   lockedUntil |-> IF entry.count + 1 >= MaxFailures THEN now + Lockout
                   ELSE entry.lockedUntil]

RecordFailure(a) ==
  /\ failures' = [failures EXCEPT ![a] = Counted(LiveEntry(a))]
  /\ failed' = [failed EXCEPT ![a] = @ + 1]
  /\ locks' = [locks EXCEPT ![a] =
       IF ~Locked(a) /\ failures'[a].lockedUntil > now THEN @ + 1 ELSE @]

(***************************************************************************)
(* The account was signed in to: the counter is cleared, and the histories *)
(* start again.                                                            *)
(***************************************************************************)
SignedIn(a) ==
  /\ failures' = [failures EXCEPT ![a] = NoEntry]
  /\ guessed' = [guessed EXCEPT ![a] = <<>>]
  /\ failed' = [failed EXCEPT ![a] = 0]
  /\ locks' = [locks EXCEPT ![a] = 0]

InFlight(a) == {r \in Requests : ~At(r, "idle") /\ req[r].account = a}

-----------------------------------------------------------------------------
(***************************************************************************)
(* passwordGrant and loginCreateSession: authenticatePassword reads the    *)
(* lock, awaits the comparison, and judges by the lock it read. right says *)
(* whether the password is the account's.                                  *)
(***************************************************************************)
PasswordStart(r, a, right) ==
  /\ At(r, "idle")
  /\ failed[a] + Cardinality(InFlight(a)) < MaxAttempts
  /\ ReadEntry(a)
  /\ req' = [req EXCEPT ![r] = [pc |-> "compare", account |-> a,
                                locked |-> Locked(a), right |-> right]]
  /\ UNCHANGED <<now, totp, guessed, failed, locks>>

PasswordWrong(r) ==
  /\ At(r, "compare")
  /\ req[r].locked \/ ~req[r].right
  /\ IF req[r].locked THEN UNCHANGED <<failures, failed, locks>>
                      ELSE RecordFailure(req[r].account)
  /\ Finish(r)
  /\ UNCHANGED <<now, totp, guessed>>

(***************************************************************************)
(* The password is right: isEnabled is asked for. The counter stays.       *)
(***************************************************************************)
\* Deviation of PasswordRight: a right password ends the run.
PasswordRightClears(r) ==
  /\ At(r, "compare")
  /\ ~req[r].locked /\ req[r].right
  /\ failures' = [failures EXCEPT ![req[r].account] = NoEntry]
  /\ req' = [req EXCEPT ![r].pc = "enabled"]
  /\ UNCHANGED <<now, totp, guessed, failed, locks>>

PasswordRight(r) ==
  /\ At(r, "compare")
  /\ ~req[r].locked /\ req[r].right
  /\ req' = [req EXCEPT ![r].pc = "enabled"]
  /\ UNCHANGED <<now, failures, totp, guessed, failed, locks>>

(***************************************************************************)
(* finishLogin after a Google sign-in: no password was asked for.          *)
(***************************************************************************)
GoogleStart(r, a) ==
  /\ At(r, "idle")
  /\ req' = [req EXCEPT ![r] = [Idle EXCEPT !.pc = "enabled", !.account = a]]
  /\ UNCHANGED <<now, failures, totp, guessed, failed, locks>>

(***************************************************************************)
(* isEnabled answered. With TOTP on, the first factor opens no session and *)
(* clears nothing.                                                         *)
(***************************************************************************)
FinishLogin(r) ==
  /\ At(r, "enabled")
  /\ IF req[r].account \in totp
       THEN UNCHANGED <<failures, guessed, failed, locks>>
       ELSE SignedIn(req[r].account)
  /\ Finish(r)
  /\ UNCHANGED <<now, totp>>

(***************************************************************************)
(* completeMfaLogin: the attempt is counted before totp.verify is awaited. *)
(* right says whether verify will accept the code.                         *)
(***************************************************************************)
MfaStart(r, a, right) ==
  /\ At(r, "idle")
  /\ failed[a] + Cardinality(InFlight(a)) < MaxAttempts
  /\ ~Locked(a)
  /\ RecordFailure(a)
  /\ guessed' = [guessed EXCEPT ![a] = Append(@, now)]
  /\ req' = [req EXCEPT ![r] = [pc |-> "code", account |-> a,
                                locked |-> FALSE, right |-> right]]
  /\ UNCHANGED <<now, totp>>

(***************************************************************************)
(* verify answered; it refuses any code of an account whose TOTP is off.   *)
(***************************************************************************)
MfaVerified(r) ==
  /\ At(r, "code")
  /\ IF req[r].right /\ req[r].account \in totp
       THEN SignedIn(req[r].account)
       ELSE UNCHANGED <<failures, guessed, failed, locks>>
  /\ Finish(r)
  /\ UNCHANGED <<now, totp>>

(***************************************************************************)
(* createPasskeySession: the assertion was verified, and nothing is asked  *)
(* of the counter.                                                         *)
(***************************************************************************)
PasskeyLogin(a) ==
  /\ SignedIn(a)
  /\ UNCHANGED <<now, totp, req>>

-----------------------------------------------------------------------------
(***************************************************************************)
(* A statement fails: the sign-in runs no further.                         *)
(***************************************************************************)
CutShort(r) ==
  /\ ~At(r, "idle")
  /\ Finish(r)
  /\ UNCHANGED <<now, failures, totp, guessed, failed, locks>>

(***************************************************************************)
(* TOTP is confirmed, disabled or reset.                                   *)
(***************************************************************************)
SetTotp(a) ==
  /\ totp' = IF a \in totp THEN totp \ {a} ELSE totp \cup {a}
  /\ UNCHANGED <<now, failures, req, guessed, failed, locks>>

Tick ==
  /\ now < MaxTime
  /\ now' = now + 1
  /\ UNCHANGED <<failures, totp, req, guessed, failed, locks>>

Init ==
  /\ now = 0
  /\ failures = [a \in Accounts |-> NoEntry]
  /\ totp \in SUBSET Accounts
  /\ req = [r \in Requests |-> Idle]
  /\ guessed = [a \in Accounts |-> <<>>]
  /\ failed = [a \in Accounts |-> 0]
  /\ locks = [a \in Accounts |-> 0]

SignIn(r) ==
  \/ \E a \in Accounts, right \in BOOLEAN :
       PasswordStart(r, a, right) \/ MfaStart(r, a, right)
  \/ \E a \in Accounts : GoogleStart(r, a)
  \/ PasswordWrong(r)
  \/ PasswordRight(r)
  \/ FinishLogin(r)
  \/ MfaVerified(r)
  \/ CutShort(r)

Next ==
  \/ \E r \in Requests : SignIn(r)
  \/ \E a \in Accounts : PasskeyLogin(a) \/ SetTotp(a)
  \/ Tick

Spec == Init /\ [][Next]_vars

-----------------------------------------------------------------------------
(***************************************************************************)
(* Second-factor codes cannot be guessed faster than the lockout allows:   *)
(* between two sign-ins to the account, no stretch of Lockout contains     *)
(* more than MaxFailures codes that were put to the test, whatever burst   *)
(* they come in and whatever passwords are tried meanwhile (the count      *)
(* before the await in completeMfaLogin, and that a right password alone   *)
(* clears nothing).                                                        *)
(***************************************************************************)
GuessesBounded ==
  \A a \in Accounts : \A i, j \in DOMAIN guessed[a] :
    i + MaxFailures <= j => guessed[a][i] + Lockout <= guessed[a][j]

(***************************************************************************)
(* An owner is locked out only after a full run of failures: every lockout *)
(* since the last sign-in took MaxFailures failures of its own, so one     *)
(* that was waited out is not renewed by a single mistake (live()).        *)
(***************************************************************************)
LockNeedsFullRun ==
  \A a \in Accounts : failed[a] >= MaxFailures * locks[a]
=============================================================================
