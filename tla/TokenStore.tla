----------------------------- MODULE TokenStore -----------------------------
(***************************************************************************)
(* The refresh_tokens table (src/db/schema.ts) and the statements that     *)
(* token.repository.drizzle.ts runs on it, as operators on the table.      *)
(* Each statement is one UPDATE, INSERT, DELETE or transaction, so each    *)
(* operator is one atomic change.                                          *)
(*                                                                         *)
(* A token stands for its hash and its row id: both are random and unique. *)
(* An id that no row ever had is "free"; a row that was deleted leaves its *)
(* id "deleted", so no id is used twice.                                   *)
(***************************************************************************)
EXTENDS Integers

CONSTANTS
  Users,
  Services,      \* app_services: never deleted, type and secret never change
  Public,        \* the services of type 'public', which have no secret
  TokenIds,      \* bounds the tokens a behaviour may mint
  Null,          \* SQL NULL, and "no such value"
  Resolution     \* clock ticks in a second, to which MySQL rounds a DATETIME

ASSUME StoreAssumption ==
  /\ Public \subseteq Services
  /\ Resolution \in Nat \ {0}
  /\ Null \notin Users \cup Services \cup TokenIds \cup Int

(***************************************************************************)
(* What a DATETIME column holds after x is written to it: the nearest      *)
(* second, so up to half a second in the future or in the past.            *)
(***************************************************************************)
Seconds(x) == (2 * x + Resolution) \div (2 * Resolution)

Stored(x) == Resolution * Seconds(x)

Row == [st: {"free", "row", "deleted"},
        user: Users \cup {Null},
        service: Services \cup {Null},
        expiresAt: Nat,
        revokedAt: Nat \cup {Null},
        replacedBy: TokenIds \cup {Null}]

NoRow == [st |-> "free", user |-> Null, service |-> Null, expiresAt |-> 0,
          revokedAt |-> Null, replacedBy |-> Null]

Gone == [NoRow EXCEPT !.st = "deleted"]

Live(T, t) == T[t].st = "row" /\ T[t].revokedAt = Null

Free(T) == {t \in TokenIds : T[t].st = "free"}

(***************************************************************************)
(* create(token)                                                           *)
(***************************************************************************)
Create(T, t, u, s, expiresAt) ==
  [T EXCEPT ![t] = [st |-> "row", user |-> u, service |-> s,
                    expiresAt |-> Stored(expiresAt),
                    revokedAt |-> Null, replacedBy |-> Null]]

(***************************************************************************)
(* rotate(oldId, next): the conditional UPDATE matches only a row that is  *)
(* still active; when it matches, the INSERT commits with it.              *)
(***************************************************************************)
\* Deviation of RotateWins: the UPDATE matches by id alone.
RotateBlindly(T, old) == T[old].st = "row"

RotateWins(T, old) == T[old].st = "row" /\ T[old].revokedAt = Null

\* Deviation of Rotate: the INSERT failed outside a transaction.
RotateWithoutInsert(T, old, new, expiresAt, at) ==
  [T EXCEPT ![old].revokedAt = Stored(at), ![old].replacedBy = new,
            ![new].st = "deleted"]

Rotate(T, old, new, expiresAt, at) ==
  [Create(T, new, T[old].user, T[old].service, expiresAt)
     EXCEPT ![old].revokedAt = Stored(at), ![old].replacedBy = new]

(***************************************************************************)
(* revoke(id) and revokeAllForUser(userId): unconditional, so a row that   *)
(* is revoked already gets a new revoked_at.                               *)
(***************************************************************************)
Revoke(T, t, at) ==
  [T EXCEPT ![t].revokedAt = IF T[t].st = "row" THEN Stored(at) ELSE @]

RevokeAllForUser(T, u, at) ==
  [t \in TokenIds |->
     IF T[t].st = "row" /\ T[t].user = u
       THEN [T[t] EXCEPT !.revokedAt = Stored(at)]
       ELSE T[t]]

DeleteAllForUser(T, u) ==
  [t \in TokenIds |->
     IF T[t].st = "row" /\ T[t].user = u THEN Gone ELSE T[t]]

DeleteExpiredBefore(T, cutoff) ==
  [t \in TokenIds |->
     IF T[t].st = "row" /\ T[t].expiresAt < cutoff THEN Gone ELSE T[t]]
=============================================================================
