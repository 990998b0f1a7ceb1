------------------------------ MODULE TwoFactor ------------------------------
(***************************************************************************)
(* TOTP of one account: src/modules/mfa/totp.service.ts over the user_totp *)
(* and totp_recovery_codes tables. Every statement names the account, so   *)
(* one account is all there is here.                                       *)
(*                                                                         *)
(* A request yields at every await, so each action runs from the reply to  *)
(* one statement to the issue of the next. What is checked before the      *)
(* first statement on these tables (the key, the bearer token, the current *)
(* password or fresh sign-in of startSetup) is not modelled: a request     *)
(* that fails it changes nothing.                                          *)
(***************************************************************************)
EXTENDS Integers

CONSTANTS
  Secrets,    \* bounds the setups; generateSecret draws a new one
  Recovery,   \* bounds the confirmations; a member stands for the ten
              \* recovery codes that a confirmation generates
  Requests,   \* the handlers that may run at once
  Null,       \* no secret, no recovery code
  MaxStep     \* bounds the clock

ASSUME TwoFactorAssumption ==
  /\ Null \notin Secrets \cup Recovery
  /\ MaxStep \in Nat \ {0, 1}

VARIABLES
  now,       \* currentStep()
  totp,      \* the row of user_totp
  recovery,  \* the rows of totp_recovery_codes
  req,       \* the local state of every handler
  given,     \* history: the secrets that were stored
  spent,     \* history: the codes accepted for the enrolment they belong to
  replayed   \* history: those that were accepted for it once more

vars == <<now, totp, recovery, req, given, spent, replayed>>
hist == <<given, spent, replayed>>

(***************************************************************************)
(* Steps count half minutes since 1970, so that 0, the lastStep of a       *)
(* pending row, is earlier than every step that is matched.                *)
(***************************************************************************)
Steps == 1..MaxStep + 1

Row == [secret: Secrets, enabled: BOOLEAN, lastStep: {0} \cup Steps]

NoRow == [secret |-> Null, enabled |-> FALSE, lastStep |-> 0]

Request == [pc: {"idle", "deletePending", "createPending", "enable",
                 "clearCodes", "insertCodes", "advance", "consume",
                 "deleteCodes", "deleteTotp"},
            secret: Secrets \cup {Null}, step: {0} \cup Steps,
            code: Recovery \cup {Null}, purpose: {"login", "disable"}]

Idle == [pc |-> "idle", secret |-> Null, step |-> 0, code |-> Null,
         purpose |-> "login"]

At(r, pc) == req[r].pc = pc

Finish(r) == req' = [req EXCEPT ![r] = Idle]

Await(r, pc) == req' = [req EXCEPT ![r].pc = pc]

Begin(r, state) ==
  /\ At(r, "idle")
  /\ req' = [req EXCEPT ![r] = state]
  /\ UNCHANGED <<now, totp, recovery, hist>>

Exists == totp # NoRow

Pending == Exists /\ ~totp.enabled

(***************************************************************************)
(* matchStep: the code of a step is good one step early and one step late. *)
(***************************************************************************)
Matches(secret, step) == totp.secret = secret /\ step \in now - 1..now + 1

(***************************************************************************)
(* The histories: the code of this secret and step was accepted.           *)
(***************************************************************************)
Accept(r) ==
  LET code == <<req[r].secret, req[r].step>>
  IN /\ spent' = IF totp.secret = req[r].secret THEN spent \cup {code} ELSE spent
     /\ replayed' = IF totp.secret = req[r].secret /\ code \in spent
                      THEN replayed \cup {code} ELSE replayed
     /\ UNCHANGED given

-----------------------------------------------------------------------------
(***************************************************************************)
(* startSetup: find, deletePending, createPending. createPending fails on  *)
(* the primary key when there is a row; what is read after that decides    *)
(* only the wording of the error.                                          *)
(***************************************************************************)
SetupStart(r) ==
  /\ ~totp.enabled
  /\ Begin(r, [Idle EXCEPT !.pc = "deletePending"])

\* Deviation of DeletePending: an enabled row goes too.
DeleteAnyRow == NoRow

DeletePending == IF Pending THEN NoRow ELSE totp

SetupDelete(r) ==
  /\ At(r, "deletePending")
  /\ totp' = DeletePending
  /\ Await(r, "createPending")
  /\ UNCHANGED <<now, recovery, hist>>

SetupCreate(r) ==
  /\ At(r, "createPending")
  /\ \/ /\ ~Exists
        /\ \E s \in Secrets \ given :
             /\ totp' = [secret |-> s, enabled |-> FALSE, lastStep |-> 0]
             /\ given' = given \cup {s}
     \/ Exists /\ UNCHANGED <<totp, given>>
  /\ Finish(r)
  /\ UNCHANGED <<now, recovery, spent, replayed>>

-----------------------------------------------------------------------------
(***************************************************************************)
(* confirm: find and match, enable, then the two statements of             *)
(* replaceRecoveryCodes. enable names the user, not the secret that was    *)
(* matched.                                                                *)
(***************************************************************************)
ConfirmStart(r, secret, step) ==
  /\ Pending
  /\ Matches(secret, step)
  /\ Begin(r, [Idle EXCEPT !.pc = "enable", !.secret = secret, !.step = step])

\* Deviation of Enabled: the step is not recorded.
EnabledOnly(r) == [totp EXCEPT !.enabled = TRUE]

Enabled(r) == [totp EXCEPT !.enabled = TRUE, !.lastStep = req[r].step]

ConfirmEnable(r) ==
  /\ At(r, "enable")
  /\ IF Pending
       THEN /\ totp' = Enabled(r)
            /\ Accept(r)
            /\ Await(r, "clearCodes")
       ELSE /\ Finish(r)
            /\ UNCHANGED <<totp, hist>>
  /\ UNCHANGED <<now, recovery>>

DeleteRecovery ==
  recovery' = [k \in Recovery |-> IF recovery[k] = "fresh" THEN "fresh"
                                  ELSE "deleted"]

ConfirmClear(r) ==
  /\ At(r, "clearCodes")
  /\ DeleteRecovery
  /\ Await(r, "insertCodes")
  /\ UNCHANGED <<now, totp, hist>>

ConfirmInsert(r) ==
  /\ At(r, "insertCodes")
  /\ \E k \in Recovery :
       /\ recovery[k] = "fresh"
       /\ recovery' = [recovery EXCEPT ![k] = "unused"]
  /\ Finish(r)
  /\ UNCHANGED <<now, totp, hist>>

-----------------------------------------------------------------------------
(***************************************************************************)
(* verify, for completeMfaLogin and for disable: find and match, then      *)
(* advanceStep or consumeRecoveryCode. advanceStep names the user and      *)
(* compares the step, nothing else of the row that was read.               *)
(***************************************************************************)
Accepted(r) == IF req[r].purpose = "login" THEN Finish(r) ELSE Await(r, "deleteCodes")

VerifyStart(r, secret, step, purpose) ==
  /\ totp.enabled
  /\ Matches(secret, step)
  /\ Begin(r, [Idle EXCEPT !.pc = "advance", !.secret = secret,
                           !.step = step, !.purpose = purpose])

\* Deviation of Later: the step last accepted is good once more.
LaterOrSame(r) == Exists /\ totp.lastStep <= req[r].step

Later(r) == Exists /\ totp.lastStep < req[r].step

VerifyAdvance(r) ==
  /\ At(r, "advance")
  /\ IF Later(r)
       THEN /\ totp' = [totp EXCEPT !.lastStep = req[r].step]
            /\ Accept(r)
            /\ Accepted(r)
       ELSE /\ Finish(r)
            /\ UNCHANGED <<totp, hist>>
  /\ UNCHANGED <<now, recovery>>

VerifyRecovery(r, k, purpose) ==
  /\ totp.enabled
  /\ recovery[k] # "fresh"
  /\ Begin(r, [Idle EXCEPT !.pc = "consume", !.code = k, !.purpose = purpose])

VerifyConsume(r) ==
  /\ At(r, "consume")
  /\ IF recovery[req[r].code] = "unused"
       THEN /\ recovery' = [recovery EXCEPT ![req[r].code] = "used"]
            /\ Accepted(r)
       ELSE /\ Finish(r)
            /\ UNCHANGED recovery
  /\ UNCHANGED <<now, totp, hist>>

(***************************************************************************)
(* deleteAllForUser, at the end of disable, for an operator's reset and    *)
(* for the purge of the account.                                           *)
(***************************************************************************)
ResetStart(r) == Begin(r, [Idle EXCEPT !.pc = "deleteCodes"])

DeleteCodes(r) ==
  /\ At(r, "deleteCodes")
  /\ DeleteRecovery
  /\ Await(r, "deleteTotp")
  /\ UNCHANGED <<now, totp, hist>>

DeleteTotp(r) ==
  /\ At(r, "deleteTotp")
  /\ totp' = NoRow
  /\ Finish(r)
  /\ UNCHANGED <<now, recovery, hist>>

-----------------------------------------------------------------------------
(***************************************************************************)
(* A statement fails, or the process stops: the handler runs no further.   *)
(***************************************************************************)
CutShort(r) ==
  /\ ~At(r, "idle")
  /\ Finish(r)
  /\ UNCHANGED <<now, totp, recovery, hist>>

Tick ==
  /\ now < MaxStep
  /\ now' = now + 1
  /\ UNCHANGED <<totp, recovery, req, hist>>

Init ==
  /\ now = 2
  /\ totp = NoRow
  /\ recovery = [k \in Recovery |-> "fresh"]
  /\ req = [r \in Requests |-> Idle]
  /\ given = {}
  /\ spent = {}
  /\ replayed = {}

Start(r) ==
  \/ SetupStart(r)
  \/ ResetStart(r)
  \/ \E secret \in Secrets, step \in Steps :
       \/ ConfirmStart(r, secret, step)
       \/ \E purpose \in {"login", "disable"} :
            VerifyStart(r, secret, step, purpose)
  \/ \E k \in Recovery, purpose \in {"login", "disable"} :
       VerifyRecovery(r, k, purpose)

Continue(r) ==
  \/ SetupDelete(r)
  \/ SetupCreate(r)
  \/ ConfirmEnable(r)
  \/ ConfirmClear(r)
  \/ ConfirmInsert(r)
  \/ VerifyAdvance(r)
  \/ VerifyConsume(r)
  \/ DeleteCodes(r)
  \/ DeleteTotp(r)

Next ==
  \/ \E r \in Requests : Start(r) \/ Continue(r) \/ CutShort(r)
  \/ Tick

Spec == Init /\ [][Next]_vars

-----------------------------------------------------------------------------
TypeOK ==
  /\ now \in 2..MaxStep
  /\ totp \in Row \cup {NoRow}
  /\ totp.enabled => totp.lastStep # 0
  /\ recovery \in [Recovery -> {"fresh", "unused", "used", "deleted"}]
  /\ req \in [Requests -> Request]
  /\ given \subseteq Secrets
  /\ spent \subseteq Secrets \X Steps
  /\ replayed \subseteq spent

(***************************************************************************)
(* A code is accepted at most once for the enrolment it belongs to, by     *)
(* confirm, a sign-in or disable, however many requests carry it at once   *)
(* and whatever setups and resets cross them ("it records the step and     *)
(* accepts only later ones", matchStep of src/lib/totp.ts).                *)
(***************************************************************************)
CodeAcceptedOnce == replayed = {}

(***************************************************************************)
(* Once TOTP is on it stays on, with its secret and with no step forgotten,*)
(* until deleteAllForUser: no setup or confirm that was in flight, however *)
(* stale what it read, turns it back or replaces the secret (deletePending *)
(* and createPending in startSetup, the condition of enable).              *)
(***************************************************************************)
OnlyDeletionTurnsOff ==
  [][totp.enabled =>
       \/ /\ totp'.enabled
          /\ totp'.secret = totp.secret
          /\ totp'.lastStep >= totp.lastStep
       \/ \E r \in Requests : At(r, "deleteTotp") /\ totp' = NoRow]_vars
=============================================================================
