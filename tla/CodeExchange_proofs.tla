------------------------- MODULE CodeExchange_proofs -------------------------
(***************************************************************************)
(* Proofs for any number of users, services, codes, tokens and handlers    *)
(* and for any times. The first part is about RefreshTokens alone. The     *)
(* second is about CodeExchange, which composes the codes with it: a code  *)
(* is redeemed once, and only with everything that was agreed when it was  *)
(* issued.                                                                 *)
(***************************************************************************)
EXTENDS CodeExchange, FiniteSetTheorems, TLAPS

-----------------------------------------------------------------------------
(***************************************************************************)
(* PART ONE: RefreshTokens.                                                *)
(***************************************************************************)

-----------------------------------------------------------------------------
(***************************************************************************)
(* What a DATETIME column holds: a time in whole seconds, no further than  *)
(* half a second from the one that was written, and in the same order.     *)
(***************************************************************************)
LEMMA Whole ==
  ASSUME NEW a \in Nat, NEW b \in Nat \ {0}
  PROVE  /\ a \div b \in Nat
         /\ b * (a \div b) <= a
         /\ a < b * (a \div b) + b
OBVIOUS

LEMMA TimesMonotone ==
  ASSUME NEW b \in Nat, NEW m \in Nat, NEW n \in Nat, m <= n
  PROVE  b * m <= b * n
OBVIOUS

LEMMA StoredNearest ==
  ASSUME NEW x \in Nat
  PROVE  /\ Seconds(x) \in Nat
         /\ Stored(x) \in Nat
         /\ 2 * Stored(x) <= 2 * x + Resolution
         /\ 2 * x < 2 * Stored(x) + Resolution
<1>. DEFINE a == 2 * x + Resolution
            b == 2 * Resolution
            n == a \div b
<1>1. a \in Nat /\ b \in Nat \ {0}
  BY StoreAssumption
<1>2. n \in Nat /\ b * n <= a /\ a < b * n + b
  <2>. HIDE DEF a, b
  <2>. QED
    BY <1>1, Whole
<1>3. b * n = 2 * (Resolution * n) /\ Resolution * n \in Nat
  <2>. HIDE DEF n
  <2>. QED
    BY <1>2, StoreAssumption
<1>. QED
  BY <1>2, <1>3, StoreAssumption DEF Seconds, Stored

LEMMA StoredMonotone ==
  ASSUME NEW x \in Nat, NEW y \in Nat, x <= y
  PROVE  Stored(x) <= Stored(y)
<1>. DEFINE m == Seconds(x)
            n == Seconds(y)
<1>1. /\ m \in Nat /\ n \in Nat
      /\ 2 * (Resolution * m) <= 2 * x + Resolution
      /\ 2 * y < 2 * (Resolution * n) + Resolution
  BY StoredNearest DEF Stored
<1>. Resolution \in Nat \ {0} /\ Stored(x) = Resolution * m
     /\ Stored(y) = Resolution * n
  BY StoreAssumption DEF Stored
<1>. HIDE DEF m, n
<1>2. CASE m <= n
  BY <1>1, <1>2, TimesMonotone
<1>3. CASE n + 1 <= m
  <2>1. Resolution * (n + 1) <= Resolution * m
    BY <1>1, <1>3, TimesMonotone
  <2>2. Resolution * (n + 1) = Resolution * n + Resolution
    BY <1>1
  <2>3. Resolution * n \in Nat /\ Resolution * m \in Nat
    BY <1>1
  <2>. DEFINE p == Resolution * m
              q == Resolution * n
  <2>4. p \in Nat /\ q \in Nat /\ q + Resolution <= p
        /\ 2 * p <= 2 * x + Resolution /\ 2 * y < 2 * q + Resolution
    BY <1>1, <2>1, <2>2, <2>3
  <2>. HIDE DEF p, q
  <2>. QED
    BY <2>4
<1>. QED
  BY <1>1, <1>2, <1>3

LEMMA StoredNat ==
  ASSUME NEW x \in Nat PROVE Stored(x) \in Nat
BY StoredNearest

-----------------------------------------------------------------------------
(***************************************************************************)
(* Every statement on the table yields a table.                            *)
(***************************************************************************)
LEMMA NullIsNoValue ==
  /\ Null \notin Users /\ Null \notin Services
  /\ Null \notin TokenIds /\ Null \notin Nat
BY StoreAssumption

(* create: a row of a user and a service.                                  *)
LEMMA CreateType ==
  ASSUME NEW T \in [TokenIds -> Row], NEW t \in TokenIds,
         NEW u \in Users, NEW s \in Services, NEW e \in Nat
  PROVE  Create(T, t, u, s, e) \in [TokenIds -> Row]
BY StoredNat DEF Create, Row

(* rotate: the old row revoked, the new one inserted.                      *)
LEMMA RotateType ==
  ASSUME NEW T \in [TokenIds -> Row], NEW old \in TokenIds, NEW new \in TokenIds,
         NEW e \in Nat, NEW at \in Nat
  PROVE  Rotate(T, old, new, e, at) \in [TokenIds -> Row]
<1>1. /\ Stored(e) \in Nat /\ Stored(at) \in Nat
  BY StoredNat
<1>2. Create(T, new, T[old].user, T[old].service, e) \in [TokenIds -> Row]
  BY <1>1 DEF Create, Row
<1>. DEFINE C == Create(T, new, T[old].user, T[old].service, e)
<1>3. Rotate(T, old, new, e, at)
        = [C EXCEPT ![old] = [C[old] EXCEPT !.revokedAt = Stored(at),
                                            !.replacedBy = new]]
  BY <1>2 DEF Rotate, Row
<1>4. [C[old] EXCEPT !.revokedAt = Stored(at), !.replacedBy = new] \in Row
  BY <1>1, <1>2 DEF Row
<1>. QED
  BY <1>2, <1>3, <1>4

(* revoke: one row.                                                        *)
LEMMA RevokeType ==
  ASSUME NEW T \in [TokenIds -> Row], NEW t \in TokenIds, NEW at \in Nat
  PROVE  Revoke(T, t, at) \in [TokenIds -> Row]
BY StoredNat DEF Revoke, Row

(* revokeAllForUser: the rows of a user.                                   *)
LEMMA RevokeAllType ==
  ASSUME NEW T \in [TokenIds -> Row], NEW u, NEW at \in Nat
  PROVE  RevokeAllForUser(T, u, at) \in [TokenIds -> Row]
BY StoredNat DEF RevokeAllForUser, Row

(* The purge and the prune job.                                            *)
LEMMA DeleteType ==
  ASSUME NEW T \in [TokenIds -> Row], NEW u, NEW cutoff
  PROVE  /\ DeleteAllForUser(T, u) \in [TokenIds -> Row]
         /\ DeleteExpiredBefore(T, cutoff) \in [TokenIds -> Row]
<1>1. Gone \in Row
  BY DEF Gone, NoRow, Row
<1>. QED
  BY <1>1 DEF DeleteAllForUser, DeleteExpiredBefore

-----------------------------------------------------------------------------
(***************************************************************************)
(* Every update of a handler's local state yields one.                     *)
(***************************************************************************)
LEMMA IdleType == Idle \in Request /\ NoRow \in Row
BY DEF Idle, Request, NoClient, NoRow, Client, Row, Pcs, Gates

(* The handler ends.                                                       *)
LEMMA FinishType ==
  ASSUME TypeOK, NEW r \in Requests, Finish(r)
  PROVE  req' \in [Requests -> Request]
BY IdleType DEF TypeOK, Finish

(* The handler awaits another statement.                                   *)
LEMMA AwaitType ==
  ASSUME TypeOK, NEW r \in Requests, NEW pc \in Pcs, Await(r, pc)
  PROVE  req' \in [Requests -> Request]
<1>. DEFINE next == [req[r] EXCEPT !.pc = pc, !.existing = NoRow]
<1>1. next \in Request
  BY IdleType DEF TypeOK, Request
<1>2. req' = [req EXCEPT ![r] = next]
  BY DEF TypeOK, Await, Request
<1>. QED
  BY <1>1, <1>2 DEF TypeOK

(* The handler has built the row it is about to insert.                    *)
LEMMA PrepareType ==
  ASSUME TypeOK, NEW r \in Requests, NEW pc \in Pcs,
         req' = [req EXCEPT ![r].pc = pc, ![r].expiresAt = now + TTL]
  PROVE  req' \in [Requests -> Request]
<1>. DEFINE next == [req[r] EXCEPT !.pc = pc, !.expiresAt = now + TTL]
<1>1. now + TTL \in Nat
  BY RefreshAssumption DEF TypeOK
<1>2. next \in Request
  BY <1>1 DEF TypeOK, Request
<1>3. req' = [req EXCEPT ![r] = next]
  BY DEF TypeOK, Request
<1>. QED
  BY <1>2, <1>3 DEF TypeOK

(* A gate opened while handlers ran.                                       *)
LEMMA WitnessType ==
  ASSUME TypeOK, WitnessGates PROVE req' \in [Requests -> Request]
<1>. SUFFICES ASSUME NEW r \in Requests PROVE req'[r] \in Request
  BY DEF WitnessGates
<1>. DEFINE open == Open(users'[req[r].user].live, users'[req[r].user].email,
                         members', req[r].user, req[r].service)
<1>1. open \subseteq Gates
  BY DEF Open
<1>2. req[r] \in Request
  BY DEF TypeOK
<1>. HIDE DEF open
<1>3. [req[r] EXCEPT !.saw = @ \cup open] \in Request
  BY <1>1, <1>2 DEF Request
<1>. QED
  BY <1>2, <1>3 DEF WitnessGates, open

(* A handler begins.                                                       *)
LEMMA BegunType ==
  ASSUME TypeOK, NEW r \in Requests, NEW pc \in Pcs,
         NEW t \in TokenIds \cup {Null}, NEW client \in Client,
         NEW row \in Row, NEW u \in Users \cup {Null},
         NEW s \in Services \cup {Null},
         req' = [req EXCEPT ![r] = Begun(pc, t, client, row, u, s)]
  PROVE  req' \in [Requests -> Request]
<1>1. OpenNow(u, s) \in SUBSET Gates
  BY DEF OpenNow, Open
<1>2. Begun(pc, t, client, row, u, s) \in Request
  BY <1>1 DEF Begun, Request
<1>. QED
  BY <1>2 DEF TypeOK

(***************************************************************************)
(* The assumption on the bound Clients, in terms of Client.                *)
(***************************************************************************)
LEMMA ClientType ==
  /\ \A client \in Clients : client \in Client
  /\ NoClient \in Client
BY RefreshAssumption DEF Client, NoClient

-----------------------------------------------------------------------------
(***************************************************************************)
(* Type correctness. TypeOK is not inductive by itself: a step of a        *)
(* handler keeps the table well-typed because a handler in progress knows  *)
(* its user, its service and, on the refresh path, its token, and because  *)
(* an existing row has a user and a service.                               *)
(***************************************************************************)
TokenPcs == {"service", "family", "subject", "member", "rotate", "reread",
             "revoke"}

HandlersBound ==
  /\ \A t \in TokenIds : tokens[t].st = "row" =>
       tokens[t].user \in Users /\ tokens[t].service \in Services
  /\ \A r \in Requests : ~At(r, "idle") =>
       req[r].user \in Users /\ req[r].service \in Services
  /\ \A r \in Requests : req[r].pc \in TokenPcs => req[r].token \in TokenIds

(***************************************************************************)
(* The proofs are about TokenStep, which is Next with a revocation of a    *)
(* user's tokens at any time: of what CodeExchange adds to RefreshTokens,  *)
(* the table of tokens sees just that.                                     *)
(***************************************************************************)
FamilyRevoked(u) ==
  /\ tokens' = RevokeAllForUser(tokens, u, now)
  /\ UNCHANGED <<env, req, hist>>

World == Environment \/ \E u \in Users : FamilyRevoked(u)

TokenStep == Next \/ \E u \in Users : FamilyRevoked(u)

TokenSpec == Init /\ [][TokenStep]_vars

LEMMA AsTokens == Spec => TokenSpec
<1>1. [Next]_vars => [TokenStep]_vars
  BY DEF TokenStep
<1>. QED
  BY <1>1, PTL DEF Spec, TokenSpec

(* The initial state is well-typed.                                        *)
LEMMA TypeInit == Init => TypeOK /\ HandlersBound
<1>. SUFFICES ASSUME Init PROVE TypeOK /\ HandlersBound
  OBVIOUS
<1>1. now \in 0..MaxTime
  BY RefreshAssumption DEF Init
<1>2. users \in [Users -> [live: BOOLEAN, email: EmailStates]]
  BY DEF Init
<1>3. /\ members \subseteq Users \X Orgs
      /\ tokens \in [TokenIds -> Row]
      /\ req \in [Requests -> Request]
      /\ root \in [TokenIds -> TokenIds \cup {Null}]
      /\ rotatedAt \in [TokenIds -> Nat \cup {Null}]
  BY IdleType DEF Init
<1>4. HandlersBound
  BY DEF Init, HandlersBound, At, Idle, NoRow, TokenPcs
<1>. QED
  BY <1>1, <1>2, <1>3, <1>4 DEF TypeOK

(* Every step keeps the state well-typed.                                  *)
LEMMA TypeStep ==
  ASSUME TypeOK, HandlersBound, [TokenStep]_vars PROVE TypeOK'
<1>. USE DEF env, hist
<1>1. ASSUME NEW r \in Requests, Start(r) PROVE TypeOK'
  <2>1. ASSUME NEW t \in TokenIds, NEW client \in Clients,
               RefreshStart(r, t, client)
        PROVE  TypeOK'
    <3>1. /\ tokens[t] \in Row
          /\ tokens[t].user \in Users \cup {Null}
          /\ tokens[t].service \in Services \cup {Null}
      BY DEF TypeOK, Row
    <3>2. req' \in [Requests -> Request]
      BY <2>1, <3>1, ClientType, BegunType DEF RefreshStart, Pcs
    <3>. QED
      BY <2>1, <3>2 DEF RefreshStart, TypeOK
  <2>2. ASSUME NEW t \in TokenIds, NEW client \in Clients,
               RevokeStart(r, t, client)
        PROVE  TypeOK'
    <3>1. /\ tokens[t].user \in Users \cup {Null}
          /\ tokens[t].service \in Services \cup {Null}
      BY DEF TypeOK, Row
    <3>2. req' \in [Requests -> Request]
      BY <2>2, <3>1, ClientType, IdleType, BegunType DEF RevokeStart, Pcs
    <3>. QED
      BY <2>2, <3>2 DEF RevokeStart, TypeOK
  <2>3. ASSUME NEW u \in Users, NEW s \in Services, IssueStart(r, u, s)
        PROVE  TypeOK'
    <3>1. req' \in [Requests -> Request]
      BY <2>3, ClientType, IdleType, BegunType DEF IssueStart, Pcs
    <3>. QED
      BY <2>3, <3>1 DEF IssueStart, TypeOK
  <2>. QED
    BY <1>1, <2>1, <2>2, <2>3 DEF Start
<1>2. ASSUME NEW r \in Requests, Continue(r) PROVE TypeOK'
  <2>. USE DEF Pcs
  <2>1. CASE RefreshRefuse(r)
    BY <2>1, FinishType DEF RefreshRefuse, TypeOK
  <2>2. CASE RefreshDetectReuse(r)
    BY <2>2, AwaitType DEF RefreshDetectReuse, TypeOK
  <2>3. CASE RefreshAccept(r)
    BY <2>3, AwaitType DEF RefreshAccept, TypeOK
  <2>4. CASE RefreshSubject(r)
    BY <2>4, AwaitType, FinishType DEF RefreshSubject, TypeOK
  <2>5. CASE RefreshMember(r)
    BY <2>5, PrepareType, FinishType DEF RefreshMember, TypeOK
  <2>6. CASE RefreshRotate(r)
    <3>. DEFINE old == req[r].token
                new == CHOOSE t \in Free(tokens) : TRUE
    <3>1. /\ old \in TokenIds
          /\ new \in TokenIds
          /\ req[r].expiresAt \in Nat
          /\ now \in Nat
      BY <2>6 DEF RefreshRotate, Free, TypeOK, Request, HandlersBound, At, TokenPcs
    <3>2. /\ tokens' = Rotate(tokens, old, new, req[r].expiresAt, now)
          /\ root' = [root EXCEPT ![new] = root[old]]
          /\ rotatedAt' = [rotatedAt EXCEPT ![old] = now]
      BY <2>6 DEF RefreshRotate
    <3>. HIDE DEF old, new
    <3>3. tokens' \in [TokenIds -> Row]
      BY <3>1, <3>2, RotateType DEF TypeOK
    <3>4. req' \in [Requests -> Request]
      BY <2>6, FinishType DEF RefreshRotate
    <3>5. UNCHANGED env
      BY <2>6 DEF RefreshRotate
    <3>6. root' \in [TokenIds -> TokenIds \cup {Null}]
      BY <3>1, <3>2 DEF TypeOK
    <3>7. rotatedAt' \in [TokenIds -> Nat \cup {Null}]
      BY <3>1, <3>2 DEF TypeOK
    <3>. QED
      BY <3>3, <3>4, <3>5, <3>6, <3>7 DEF env, TypeOK
  <2>7. CASE RefreshLoseRace(r)
    BY <2>7, AwaitType DEF RefreshLoseRace, TypeOK
  <2>8. CASE RefreshReread(r)
    BY <2>8, AwaitType, FinishType DEF RefreshReread, TypeOK
  <2>9. CASE RevokeFamily(r)
    BY <2>9, FinishType, RevokeAllType DEF RevokeFamily, TypeOK
  <2>10. CASE RevokeRow(r)
    BY <2>10, FinishType, RevokeType
    DEF RevokeRow, TypeOK, HandlersBound, At, TokenPcs
  <2>11. CASE IssueSubject(r)
    BY <2>11, AwaitType, FinishType DEF IssueSubject, TypeOK
  <2>12. CASE IssueMember(r)
    BY <2>12, PrepareType, FinishType DEF IssueMember, TypeOK
  <2>13. CASE IssueCreate(r)
    <3>. DEFINE new == CHOOSE t \in Free(tokens) : TRUE
    <3>1. /\ new \in TokenIds
          /\ req[r].expiresAt \in Nat
          /\ req[r].user \in Users
          /\ req[r].service \in Services
      BY <2>13 DEF IssueCreate, Free, TypeOK, Request, HandlersBound, At
    <3>2. /\ tokens' = Create(tokens, new, req[r].user, req[r].service,
                             req[r].expiresAt)
          /\ root' = [root EXCEPT ![new] = new]
      BY <2>13 DEF IssueCreate
    <3>. HIDE DEF new
    <3>3. tokens' \in [TokenIds -> Row]
      BY <3>1, <3>2, CreateType DEF TypeOK
    <3>4. req' \in [Requests -> Request]
      BY <2>13, FinishType DEF IssueCreate
    <3>5. /\ UNCHANGED env
          /\ rotatedAt' = rotatedAt
      BY <2>13 DEF IssueCreate
    <3>6. root' \in [TokenIds -> TokenIds \cup {Null}]
      BY <3>1, <3>2 DEF TypeOK
    <3>. QED
      BY <3>3, <3>4, <3>5, <3>6 DEF env, TypeOK
  <2>. QED
    BY <1>2, <2>1, <2>2, <2>3, <2>4, <2>5, <2>6, <2>7, <2>8, <2>9, <2>10,
       <2>11, <2>12, <2>13 DEF Continue
<1>3. ASSUME NEW r \in Requests, CutShort(r) PROVE TypeOK'
  BY <1>3, FinishType DEF CutShort, TypeOK
<1>4. CASE World
  <2>1. CASE Tick
    BY <2>1, RefreshAssumption DEF Tick, TypeOK
  <2>2. CASE PruneExpired
    BY <2>2, DeleteType DEF PruneExpired, TypeOK
  <2>3. ASSUME NEW u \in Users, SoftDelete(u) PROVE TypeOK'
    BY <2>3 DEF SoftDelete, TypeOK
  <2>4. ASSUME NEW u \in Users, FamilyRevoked(u) PROVE TypeOK'
    BY <2>4, RevokeAllType DEF FamilyRevoked, TypeOK
  <2>5. ASSUME NEW u \in Users, PurgeTokens(u) PROVE TypeOK'
    BY <2>5, DeleteType DEF PurgeTokens, TypeOK
  <2>6. ASSUME NEW u \in Users, NEW e \in EmailStates, SetEmail(u, e)
        PROVE  TypeOK'
    BY <2>6, WitnessType DEF SetEmail, TypeOK
  <2>7. ASSUME NEW u \in Users, NEW o \in Orgs, AddMember(u, o)
        PROVE  TypeOK'
    BY <2>7, WitnessType DEF AddMember, TypeOK
  <2>8. ASSUME NEW u \in Users, NEW o \in Orgs, RemoveMember(u, o)
        PROVE  TypeOK'
    BY <2>8 DEF RemoveMember, TypeOK
  <2>. QED
    BY <1>4, <2>1, <2>2, <2>3, <2>4, <2>5, <2>6, <2>7, <2>8
    DEF World, Environment, PasswordChanged, FamilyRevoked
<1>5. CASE UNCHANGED vars
  BY <1>5 DEF vars, TypeOK
<1>. QED
  BY <1>1, <1>2, <1>3, <1>4, <1>5 DEF TokenStep, World, Next

-----------------------------------------------------------------------------
(***************************************************************************)
(* What a step does to the local state of the handlers. SameWork(q): the   *)
(* handler goes on with the same token, user and service.                  *)
(***************************************************************************)
SameWork(q) ==
  /\ req'[q].token = req[q].token
  /\ req'[q].user = req[q].user
  /\ req'[q].service = req[q].service
  /\ req'[q].client = req[q].client
  /\ req[q].saw \subseteq req'[q].saw

Others(r) == \A q \in Requests \ {r} : req'[q] = req[q]

(* The handler ends, and only it changes.                                  *)
LEMMA FinishEffect ==
  ASSUME TypeOK, NEW r \in Requests, Finish(r)
  PROVE  req'[r] = Idle /\ req'[r].pc = "idle" /\ Others(r)
BY DEF TypeOK, Finish, Idle, Others

(* The handler goes on with its work, and only it changes.                 *)
LEMMA AwaitEffect ==
  ASSUME TypeOK, NEW r \in Requests, NEW pc, Await(r, pc)
  PROVE  /\ req'[r].pc = pc /\ SameWork(r) /\ Others(r)
         /\ req'[r].expiresAt = req[r].expiresAt
<1>. DEFINE next == [req[r] EXCEPT !.pc = pc, !.existing = NoRow]
<1>1. req' = [req EXCEPT ![r] = next]
  BY DEF TypeOK, Await, Request
<1>2. req'[r] = next /\ Others(r)
  BY <1>1 DEF TypeOK, Others
<1>3. req[r] \in Request
  BY DEF TypeOK
<1>. QED
  BY <1>2, <1>3 DEF SameWork, Request

(* The same, with a lifetime for the row to be inserted.                   *)
LEMMA PrepareEffect ==
  ASSUME TypeOK, NEW r \in Requests, NEW pc,
         req' = [req EXCEPT ![r].pc = pc, ![r].expiresAt = now + TTL]
  PROVE  /\ req'[r].pc = pc /\ SameWork(r) /\ Others(r)
         /\ req'[r].expiresAt = now + TTL
<1>. DEFINE next == [req[r] EXCEPT !.pc = pc, !.expiresAt = now + TTL]
<1>1. req' = [req EXCEPT ![r] = next]
  BY DEF TypeOK, Request
<1>2. req'[r] = next /\ Others(r)
  BY <1>1 DEF TypeOK, Others
<1>3. req[r] \in Request /\ now + TTL \in Nat
  BY RefreshAssumption DEF TypeOK
<1>4. /\ next.pc = pc /\ next.expiresAt = now + TTL
      /\ next.token = req[r].token /\ next.user = req[r].user
      /\ next.service = req[r].service /\ next.saw = req[r].saw
      /\ next.client = req[r].client
  BY <1>3 DEF Request
<1>. QED
  BY <1>2, <1>4 DEF SameWork

(* A handler begins with what it was given, and only it changes.           *)
LEMMA BegunEffect ==
  ASSUME TypeOK, NEW r \in Requests, NEW pc, NEW t, NEW client, NEW row,
         NEW u, NEW s,
         req' = [req EXCEPT ![r] = Begun(pc, t, client, row, u, s)]
  PROVE  /\ req'[r].pc = pc /\ req'[r].token = t
         /\ req'[r].user = u /\ req'[r].service = s
         /\ req'[r].client = client /\ req'[r].existing = row
         /\ req'[r].saw = OpenNow(u, s) /\ Others(r)
BY DEF TypeOK, Begun, Others

(* Every handler goes on where it was, having seen the open gates.         *)
LEMMA WitnessEffect ==
  ASSUME TypeOK, WitnessGates, NEW q \in Requests
  PROVE  /\ SameWork(q) /\ req'[q].pc = req[q].pc
         /\ req'[q].expiresAt = req[q].expiresAt
         /\ req'[q].existing = req[q].existing
         /\ ~At(q, "idle") =>
              Open(users'[req[q].user].live, users'[req[q].user].email,
                   members', req[q].user, req[q].service) \subseteq req'[q].saw
<1>. DEFINE open == Open(users'[req[q].user].live, users'[req[q].user].email,
                         members', req[q].user, req[q].service)
<1>1. req'[q] = IF At(q, "idle") THEN req[q]
                ELSE [req[q] EXCEPT !.saw = @ \cup open]
  BY DEF WitnessGates
<1>. HIDE DEF open
<1>2. req[q] \in Request
  BY DEF TypeOK
<1>3. /\ SameWork(q) /\ req'[q].pc = req[q].pc
      /\ req'[q].expiresAt = req[q].expiresAt
      /\ req'[q].existing = req[q].existing
      /\ ~At(q, "idle") => open \subseteq req'[q].saw
  BY <1>1, <1>2 DEF SameWork, Request
<1>. QED
  BY <1>3 DEF open

-----------------------------------------------------------------------------
(***************************************************************************)
(* What a step does to the table. Weakened(T, U): no row is added, and a   *)
(* row that stays keeps everything but its revocation, which stays.        *)
(***************************************************************************)
Weakened(T, U) ==
  \A t \in TokenIds :
    /\ U[t].st = "free" <=> T[t].st = "free"
    /\ U[t].st = "row" =>
         /\ T[t].st = "row"
         /\ U[t].user = T[t].user
         /\ U[t].service = T[t].service
         /\ U[t].expiresAt = T[t].expiresAt
         /\ U[t].replacedBy = T[t].replacedBy
         /\ T[t].revokedAt # Null => U[t].revokedAt # Null

(***************************************************************************)
(* A row leaves the table with every row of its user that expires no later *)
(* than it, so a row that is left keeps the row it was replaced by.        *)
(***************************************************************************)
OldestFirst(T, U) ==
  \A t, n \in TokenIds :
    /\ U[t].st = "row" /\ T[t].st = "row" /\ T[n].st = "row"
    /\ T[n].user = T[t].user /\ T[n].expiresAt >= T[t].expiresAt
    => U[n].st = "row"

(* Revoking rows weakens the table, and no row leaves.                     *)
LEMMA RevokeWeakens ==
  ASSUME NEW T \in [TokenIds -> Row], NEW at \in Nat
  PROVE  /\ \A t \in TokenIds : /\ Weakened(T, Revoke(T, t, at))
                                /\ OldestFirst(T, Revoke(T, t, at))
         /\ \A u : /\ Weakened(T, RevokeAllForUser(T, u, at))
                   /\ OldestFirst(T, RevokeAllForUser(T, u, at))
<1>1. Stored(at) # Null
  BY StoredNat, NullIsNoValue
<1>2. ASSUME NEW t \in TokenIds
      PROVE  /\ Weakened(T, Revoke(T, t, at))
             /\ OldestFirst(T, Revoke(T, t, at))
  <2>1. Weakened(T, Revoke(T, t, at))
    BY <1>1 DEF Revoke, Weakened, Row
  <2>2. OldestFirst(T, Revoke(T, t, at))
    BY DEF Revoke, OldestFirst, Row
  <2>. QED
    BY <2>1, <2>2
<1>3. ASSUME NEW u
      PROVE  /\ Weakened(T, RevokeAllForUser(T, u, at))
             /\ OldestFirst(T, RevokeAllForUser(T, u, at))
  <2>1. Weakened(T, RevokeAllForUser(T, u, at))
    BY <1>1 DEF RevokeAllForUser, Weakened, Row
  <2>2. OldestFirst(T, RevokeAllForUser(T, u, at))
    BY DEF RevokeAllForUser, OldestFirst, Row
  <2>. QED
    BY <2>1, <2>2
<1>. QED
  BY <1>2, <1>3

(* Deleting rows weakens the table, and the oldest leave first.            *)
LEMMA DeleteWeakens ==
  ASSUME NEW T \in [TokenIds -> Row]
  PROVE  /\ \A u : /\ Weakened(T, DeleteAllForUser(T, u))
                   /\ OldestFirst(T, DeleteAllForUser(T, u))
         /\ \A cutoff \in Int : /\ Weakened(T, DeleteExpiredBefore(T, cutoff))
                               /\ OldestFirst(T, DeleteExpiredBefore(T, cutoff))
<1>1. ASSUME NEW u
      PROVE  /\ Weakened(T, DeleteAllForUser(T, u))
             /\ OldestFirst(T, DeleteAllForUser(T, u))
  BY DEF DeleteAllForUser, Gone, NoRow, Weakened, OldestFirst, Row
<1>2. ASSUME NEW cutoff \in Int
      PROVE  /\ Weakened(T, DeleteExpiredBefore(T, cutoff))
             /\ OldestFirst(T, DeleteExpiredBefore(T, cutoff))
  BY DEF DeleteExpiredBefore, Gone, NoRow, Weakened, OldestFirst, Row
<1>. QED
  BY <1>1, <1>2

(* create adds one usable row and touches no other.                        *)
LEMMA CreateEffect ==
  ASSUME NEW T \in [TokenIds -> Row], NEW new \in TokenIds,
         NEW u, NEW s, NEW e
  PROVE  LET U == Create(T, new, u, s, e)
         IN /\ U[new].st = "row" /\ U[new].user = u /\ U[new].service = s
            /\ U[new].expiresAt = Stored(e)
            /\ U[new].revokedAt = Null /\ U[new].replacedBy = Null
            /\ \A t \in TokenIds \ {new} : U[t] = T[t]
BY DEF Create

(* rotate adds one usable row, retires one, and touches no other.          *)
LEMMA RotateEffect ==
  ASSUME NEW T \in [TokenIds -> Row], NEW old \in TokenIds,
         NEW new \in TokenIds, old # new, NEW e, NEW at
  PROVE  LET U == Rotate(T, old, new, e, at)
         IN /\ U[new].st = "row" /\ U[new].user = T[old].user
            /\ U[new].service = T[old].service
            /\ U[new].expiresAt = Stored(e)
            /\ U[new].revokedAt = Null /\ U[new].replacedBy = Null
            /\ U[old].st = T[old].st /\ U[old].user = T[old].user
            /\ U[old].service = T[old].service
            /\ U[old].expiresAt = T[old].expiresAt
            /\ U[old].revokedAt = Stored(at) /\ U[old].replacedBy = new
            /\ \A t \in TokenIds \ {old, new} : U[t] = T[t]
<1>. DEFINE C == Create(T, new, T[old].user, T[old].service, e)
            U == Rotate(T, old, new, e, at)
<1>1. /\ C \in [TokenIds -> [st: {C[t].st : t \in TokenIds},
                             user: {C[t].user : t \in TokenIds},
                             service: {C[t].service : t \in TokenIds},
                             expiresAt: {C[t].expiresAt : t \in TokenIds},
                             revokedAt: {C[t].revokedAt : t \in TokenIds},
                             replacedBy: {C[t].replacedBy : t \in TokenIds}]]
      /\ C[old] = T[old]
  BY DEF Create, Row
<1>2. U = [C EXCEPT ![old] = [C[old] EXCEPT !.revokedAt = Stored(at),
                                            !.replacedBy = new]]
  BY <1>1 DEF Rotate
<1>. HIDE DEF U
<1>3. U[old] = [T[old] EXCEPT !.revokedAt = Stored(at), !.replacedBy = new]
  BY <1>1, <1>2
<1>4. \A t \in TokenIds \ {old} : U[t] = C[t]
  BY <1>1, <1>2
<1>. QED
  BY <1>3, <1>4, CreateEffect DEF U, Row

(***************************************************************************)
(* Every step leaves the table alone, weakens it, rotates or creates.      *)
(***************************************************************************)
LEMMA TableStep ==
  ASSUME TypeOK, HandlersBound, [TokenStep]_vars
  PROVE  \/ /\ Weakened(tokens, tokens') /\ OldestFirst(tokens, tokens')
            /\ UNCHANGED root
         \/ \E r \in Requests : RefreshRotate(r)
         \/ \E r \in Requests : IssueCreate(r)
<1>. DEFINE Goal == \/ /\ Weakened(tokens, tokens') /\ OldestFirst(tokens, tokens')
                       /\ UNCHANGED root
                    \/ \E r \in Requests : RefreshRotate(r)
                    \/ \E r \in Requests : IssueCreate(r)
<1>. USE DEF env, hist
<1>1. UNCHANGED <<tokens, root>> => Goal
  BY DEF Weakened, OldestFirst
<1>2. now \in Nat /\ now - Retention \in Int
  BY RefreshAssumption DEF TypeOK
<1>3. ASSUME NEW r \in Requests, Start(r) PROVE Goal
  BY <1>1, <1>3 DEF Start, RefreshStart, RevokeStart, IssueStart
<1>4. ASSUME NEW r \in Requests, Continue(r) PROVE Goal
  <2>1. CASE RevokeFamily(r)
    BY <1>2, <2>1, RevokeWeakens DEF RevokeFamily, TypeOK
  <2>2. CASE RevokeRow(r)
    BY <1>2, <2>2, RevokeWeakens
    DEF RevokeRow, TypeOK, HandlersBound, At, TokenPcs
  <2>3. CASE \/ RefreshRefuse(r) \/ RefreshDetectReuse(r) \/ RefreshAccept(r)
            \/ RefreshSubject(r) \/ RefreshMember(r) \/ RefreshLoseRace(r)
            \/ RefreshReread(r) \/ IssueSubject(r) \/ IssueMember(r)
    BY <1>1, <2>3 DEF RefreshRefuse, RefreshDetectReuse, RefreshAccept,
       RefreshSubject, RefreshMember, RefreshLoseRace, RefreshReread,
       IssueSubject, IssueMember
  <2>. QED
    BY <1>4, <2>1, <2>2, <2>3 DEF Continue
<1>5. ASSUME NEW r \in Requests, CutShort(r) PROVE Goal
  BY <1>1, <1>5 DEF CutShort
<1>6. CASE World
  <2>1. CASE PruneExpired
    BY <1>2, <2>1, DeleteWeakens DEF PruneExpired, TypeOK
  <2>2. ASSUME NEW u \in Users, FamilyRevoked(u) PROVE Goal
    BY <1>2, <2>2, RevokeWeakens DEF FamilyRevoked, TypeOK
  <2>3. ASSUME NEW u \in Users, PurgeTokens(u) PROVE Goal
    BY <2>3, DeleteWeakens DEF PurgeTokens, TypeOK
  <2>. HIDE DEF Goal
  <2>4. ASSUME NEW u \in Users, SoftDelete(u) PROVE Goal
    BY <1>1, <2>4 DEF SoftDelete
  <2>5. ASSUME NEW u \in Users, NEW e \in EmailStates, SetEmail(u, e) PROVE Goal
    BY <1>1, <2>5 DEF SetEmail
  <2>6. ASSUME NEW u \in Users, NEW o \in Orgs,
               AddMember(u, o) \/ RemoveMember(u, o)
        PROVE  Goal
    BY <1>1, <2>6 DEF AddMember, RemoveMember
  <2>7. ASSUME Tick PROVE Goal
    BY <1>1, <2>7 DEF Tick
  <2>8. ASSUME PruneExpired PROVE Goal
    BY <2>1, <2>8 DEF Goal
  <2>9. Goal
    BY <1>6, <2>2, <2>3, <2>4, <2>5, <2>6, <2>7, <2>8
    DEF World, Environment, PasswordChanged, FamilyRevoked
  <2>. QED
    BY <2>9 DEF Goal
<1>7. CASE UNCHANGED vars
  BY <1>1, <1>7 DEF vars
<1>. QED
  BY <1>3, <1>4, <1>5, <1>6, <1>7 DEF TokenStep, World, Next

(***************************************************************************)
(* The rotation and the creation of a token, spelled out.                  *)
(***************************************************************************)
LEMMA RotateStep ==
  ASSUME TypeOK, HandlersBound, NEW r \in Requests, RefreshRotate(r)
  PROVE  \E old, new \in TokenIds :
           /\ old = req[r].token /\ old # new
           /\ Live(tokens, old) /\ tokens[new].st = "free"
           /\ tokens' = Rotate(tokens, old, new, req[r].expiresAt, now)
           /\ root' = [root EXCEPT ![new] = root[old]]
           /\ req[r].expiresAt \in Nat /\ now \in Nat
<1>. DEFINE old == req[r].token
            new == CHOOSE t \in Free(tokens) : TRUE
<1>1. /\ old \in TokenIds /\ new \in TokenIds
      /\ tokens[new].st = "free" /\ Live(tokens, old)
      /\ req[r].expiresAt \in Nat /\ now \in Nat
  BY DEF RefreshRotate, Free, TypeOK, Request, HandlersBound, At, TokenPcs,
         RotateWins, Live
<1>2. /\ tokens' = Rotate(tokens, old, new, req[r].expiresAt, now)
      /\ root' = [root EXCEPT ![new] = root[old]]
  BY DEF RefreshRotate
<1>3. old # new
  BY <1>1 DEF Live
<1>. HIDE DEF new
<1>. QED
  BY <1>1, <1>2, <1>3

(* The same for a new chain.                                               *)
LEMMA CreateStep ==
  ASSUME TypeOK, HandlersBound, NEW r \in Requests, IssueCreate(r)
  PROVE  \E new \in TokenIds :
           /\ tokens[new].st = "free"
           /\ tokens' = Create(tokens, new, req[r].user, req[r].service,
                              req[r].expiresAt)
           /\ root' = [root EXCEPT ![new] = new]
           /\ req[r].user \in Users /\ req[r].service \in Services
           /\ req[r].expiresAt \in Nat
<1>. DEFINE new == CHOOSE t \in Free(tokens) : TRUE
<1>1. /\ new \in TokenIds /\ tokens[new].st = "free"
      /\ req[r].user \in Users /\ req[r].service \in Services
      /\ req[r].expiresAt \in Nat
  BY DEF IssueCreate, Free, TypeOK, Request, HandlersBound, At
<1>2. /\ tokens' = Create(tokens, new, req[r].user, req[r].service,
                         req[r].expiresAt)
      /\ root' = [root EXCEPT ![new] = new]
  BY DEF IssueCreate
<1>. HIDE DEF new
<1>. QED
  BY <1>1, <1>2

(***************************************************************************)
(* Every step leaves a handler alone, lets it go on with the same work,    *)
(* ends it, or begins it on an existing row or for an existing user.       *)
(***************************************************************************)
LEMMA HandlerEffect ==
  ASSUME TypeOK, HandlersBound, [TokenStep]_vars, NEW q \in Requests
  PROVE  \/ req'[q] = req[q]
         \/ req'[q] = Idle
         \/ ~At(q, "idle") /\ SameWork(q) /\ (req'[q].pc \in TokenPcs => req[q].pc \in TokenPcs)
         \/ /\ req'[q].user \in Users /\ req'[q].service \in Services
            /\ req'[q].pc \in TokenPcs => req'[q].token \in TokenIds
            /\ req'[q].saw = OpenNow(req'[q].user, req'[q].service)
            /\ UNCHANGED <<users, members>>
<1>. DEFINE Goal ==
       \/ req'[q] = req[q]
       \/ req'[q] = Idle
       \/ ~At(q, "idle") /\ SameWork(q) /\ (req'[q].pc \in TokenPcs => req[q].pc \in TokenPcs)
       \/ /\ req'[q].user \in Users /\ req'[q].service \in Services
          /\ req'[q].pc \in TokenPcs => req'[q].token \in TokenIds
          /\ req'[q].saw = OpenNow(req'[q].user, req'[q].service)
          /\ UNCHANGED <<users, members>>
<1>. USE DEF env, hist
<1>1. UNCHANGED req => Goal
  OBVIOUS
<1>2. ASSUME NEW r \in Requests, Finish(r) PROVE Goal
  BY <1>2, FinishEffect DEF Others
<1>3. ASSUME NEW r \in Requests, NEW pc \in Pcs, ~At(r, "idle"), Await(r, pc),
             pc \in TokenPcs => req[r].pc \in TokenPcs
      PROVE  Goal
  BY <1>3, AwaitEffect DEF Others
<1>4. ASSUME NEW r \in Requests, NEW pc \in Pcs, ~At(r, "idle"),
             req' = [req EXCEPT ![r].pc = pc, ![r].expiresAt = now + TTL],
             pc \in TokenPcs => req[r].pc \in TokenPcs
      PROVE  Goal
  BY <1>4, PrepareEffect DEF Others
<1>5. ASSUME WitnessGates PROVE Goal
  BY <1>5, WitnessEffect DEF WitnessGates
<1>6. ASSUME NEW r \in Requests, Start(r) PROVE Goal
  <2>1. ASSUME NEW pc, NEW t, NEW client, NEW row, NEW u \in Users,
               NEW s \in Services, pc \in TokenPcs => t \in TokenIds,
               req' = [req EXCEPT ![r] = Begun(pc, t, client, row, u, s)],
               UNCHANGED <<users, members>>
        PROVE  Goal
    <3>1. /\ req'[r].pc = pc /\ req'[r].token = t
          /\ req'[r].user = u /\ req'[r].service = s
          /\ req'[r].client = client /\ req'[r].existing = row
          /\ req'[r].saw = OpenNow(u, s) /\ Others(r)
      BY <2>1, BegunEffect
    <3>2. CASE q = r
      BY <2>1, <3>1, <3>2
    <3>3. CASE q # r
      BY <3>1, <3>3 DEF Others
    <3>. QED
      BY <3>2, <3>3
  <2>. HIDE DEF Goal
  <2>2. ASSUME NEW t \in TokenIds, NEW client \in Clients,
               RefreshStart(r, t, client)
        PROVE  Goal
    BY <2>1, <2>2 DEF RefreshStart, HandlersBound
  <2>3. ASSUME NEW t \in TokenIds, NEW client \in Clients,
               RevokeStart(r, t, client)
        PROVE  Goal
    BY <2>1, <2>3 DEF RevokeStart, HandlersBound, Live
  <2>4. ASSUME NEW u \in Users, NEW s \in Services, IssueStart(r, u, s)
        PROVE  Goal
    BY <2>1, <2>4 DEF IssueStart, TokenPcs
  <2>. QED
    BY <1>6, <2>2, <2>3, <2>4 DEF Start
<1>7. ASSUME NEW r \in Requests, Continue(r) PROVE Goal
  <2>. USE DEF At, Pcs, TokenPcs
  <2>1. CASE \/ RefreshRefuse(r) \/ RefreshRotate(r) \/ RevokeFamily(r)
            \/ RevokeRow(r) \/ IssueCreate(r)
    BY <1>2, <2>1
    DEF RefreshRefuse, RefreshRotate, RevokeFamily, RevokeRow, IssueCreate
  <2>2. CASE \/ RefreshDetectReuse(r) \/ RefreshAccept(r) \/ RefreshLoseRace(r)
    BY <1>3, <2>2 DEF RefreshDetectReuse, RefreshAccept, RefreshLoseRace
  <2>3. CASE \/ RefreshSubject(r) \/ RefreshReread(r) \/ IssueSubject(r)
    BY <1>2, <1>3, <2>3 DEF RefreshSubject, RefreshReread, IssueSubject
  <2>4. CASE \/ RefreshMember(r) \/ IssueMember(r)
    BY <1>2, <1>4, <2>4 DEF RefreshMember, IssueMember
  <2>. QED
    BY <1>7, <2>1, <2>2, <2>3, <2>4 DEF Continue
<1>8. ASSUME NEW r \in Requests, CutShort(r) PROVE Goal
  BY <1>2, <1>8 DEF CutShort
<1>9. CASE World
  BY <1>1, <1>5, <1>9 DEF World, FamilyRevoked, Environment, Tick, PruneExpired,
     SoftDelete, PasswordChanged, PurgeTokens, SetEmail, AddMember, RemoveMember
<1>10. CASE UNCHANGED vars
  BY <1>1, <1>10 DEF vars
<1>. QED
  BY <1>6, <1>7, <1>8, <1>9, <1>10 DEF TokenStep, World, Next

(* Every step keeps rows and handlers bound to a user and a service.       *)
LEMMA BoundStep ==
  ASSUME TypeOK, HandlersBound, [TokenStep]_vars PROVE HandlersBound'
<1>1. ASSUME NEW t \in TokenIds, tokens'[t].st = "row"
      PROVE  tokens'[t].user \in Users /\ tokens'[t].service \in Services
  <2>1. CASE Weakened(tokens, tokens')
    BY <1>1, <2>1 DEF Weakened, HandlersBound
  <2>2. ASSUME NEW r \in Requests, RefreshRotate(r)
        PROVE  tokens'[t].user \in Users /\ tokens'[t].service \in Services
    <3>1. PICK old \in TokenIds, new \in TokenIds :
            /\ old # new /\ Live(tokens, old)
            /\ tokens' = Rotate(tokens, old, new, req[r].expiresAt, now)
      BY <2>2, RotateStep
    <3>2. \A x \in TokenIds \ {old, new} : tokens'[x] = tokens[x]
      BY <3>1, RotateEffect DEF TypeOK
    <3>3. /\ tokens'[old].user = tokens[old].user
          /\ tokens'[old].service = tokens[old].service
          /\ tokens'[new].user = tokens[old].user
          /\ tokens'[new].service = tokens[old].service
      BY <3>1, RotateEffect DEF TypeOK
    <3>. QED
      BY <1>1, <3>1, <3>2, <3>3 DEF HandlersBound, Live
  <2>3. ASSUME NEW r \in Requests, IssueCreate(r)
        PROVE  tokens'[t].user \in Users /\ tokens'[t].service \in Services
    <3>1. PICK new \in TokenIds :
            /\ tokens' = Create(tokens, new, req[r].user, req[r].service,
                               req[r].expiresAt)
            /\ req[r].user \in Users /\ req[r].service \in Services
      BY <2>3, CreateStep
    <3>2. /\ tokens'[new].user = req[r].user
          /\ tokens'[new].service = req[r].service
          /\ \A x \in TokenIds \ {new} : tokens'[x] = tokens[x]
      BY <3>1, CreateEffect DEF TypeOK
    <3>. QED
      BY <1>1, <3>1, <3>2 DEF HandlersBound
  <2>. QED
    BY <2>1, <2>2, <2>3, TableStep
<1>2. ASSUME NEW q \in Requests
      PROVE  /\ req'[q].pc # "idle" =>
                  req'[q].user \in Users /\ req'[q].service \in Services
             /\ req'[q].pc \in TokenPcs => req'[q].token \in TokenIds
  <2>1. CASE req'[q] = req[q]
    BY <2>1 DEF HandlersBound, At
  <2>2. CASE req'[q] = Idle
    BY <2>2 DEF Idle, TokenPcs
  <2>3. CASE /\ ~At(q, "idle") /\ SameWork(q)
             /\ req'[q].pc \in TokenPcs => req[q].pc \in TokenPcs
    BY <2>3 DEF HandlersBound, SameWork
  <2>4. CASE /\ req'[q].user \in Users /\ req'[q].service \in Services
             /\ req'[q].pc \in TokenPcs => req'[q].token \in TokenIds
    BY <2>4
  <2>. QED
    BY <2>1, <2>2, <2>3, <2>4, HandlerEffect
<1>. QED
  BY <1>1, <1>2 DEF HandlersBound, At

(* Both hold in every reachable state, whenever families are revoked.      *)
LEMMA AlwaysTyped == TokenSpec => [](TypeOK /\ HandlersBound)
<1>1. Init => TypeOK /\ HandlersBound
  BY TypeInit
<1>2. TypeOK /\ HandlersBound /\ [TokenStep]_vars => (TypeOK /\ HandlersBound)'
  BY TypeStep, BoundStep
<1>. QED
  BY <1>1, <1>2, PTL DEF TokenSpec

(***************************************************************************)
(* The model's type invariant holds in every reachable state.              *)
(***************************************************************************)
THEOREM TypeCorrect == Spec => [](TypeOK /\ HandlersBound)
BY AlwaysTyped, AsTokens, PTL

-----------------------------------------------------------------------------
(***************************************************************************)
(* No handler mints a token for a request that was made after the user's   *)
(* account, address or membership stopped admitting it.                    *)
(*                                                                         *)
(* MinterPassedEveryGate speaks of a handler that is about to mint. Before *)
(* that, a handler has seen every gate that is open now, so a check that   *)
(* succeeds succeeds on a gate it has seen; and what it passed it has seen.*)
(***************************************************************************)
PassedSubject(q) ==
  /\ "live" \in req[q].saw
  /\ RequireEmailVerification => "verified" \in req[q].saw

GateOf(q) ==
  ~At(q, "idle") =>
    /\ OpenNow(req[q].user, req[q].service) \subseteq req[q].saw
    /\ req[q].pc \in {"member", "rotate", "issueMember", "create"} =>
         PassedSubject(q)
    /\ req[q].pc \in {"rotate", "create"} => "member" \in req[q].saw

GateInv == \A q \in Requests : GateOf(q)

(* A gate is seen to be open when the check of it succeeds.                *)
LEMMA SubjectIsOpen ==
  ASSUME NEW u, NEW s, SubjectAdmitted(u)
  PROVE  /\ "live" \in OpenNow(u, s)
         /\ RequireEmailVerification => "verified" \in OpenNow(u, s)
BY DEF SubjectAdmitted, RequireVerifiedEmail, OpenNow, Open, Gates

(* The same for the membership.                                            *)
LEMMA MemberIsOpen ==
  ASSUME NEW u, NEW s, IsMember(u, s)
  PROVE  "member" \in OpenNow(u, s)
BY DEF IsMember, OpenNow, Open, Gates

(* Handlers that a step of handler r leaves alone.                         *)
LEMMA OthersKeep ==
  ASSUME GateInv, UNCHANGED <<users, members>>, NEW q \in Requests,
         req'[q] = req[q]
  PROVE  GateOf(q)'
BY DEF GateInv, GateOf, PassedSubject, At, OpenNow, Open

(* A handler that goes on to pc has the gates that pc asks for.            *)
LEMMA GoesOn ==
  ASSUME GateInv, UNCHANGED <<users, members>>, NEW q \in Requests,
         ~At(q, "idle"), SameWork(q),
         req'[q].pc \in {"member", "rotate", "issueMember", "create"} =>
           PassedSubject(q),
         req'[q].pc \in {"rotate", "create"} => "member" \in req[q].saw
  PROVE  GateOf(q)'
BY DEF GateInv, GateOf, PassedSubject, SameWork, At, OpenNow, Open

(* A handler that begins has seen the gates that are open.                 *)
LEMMA StartGates ==
  ASSUME TypeOK, GateInv, NEW r \in Requests, Start(r)
  PROVE  GateInv'
<1>. USE DEF env, hist
<1>1. ASSUME NEW pc \in {"service", "revoke", "issueSubject"}, NEW t,
             NEW client, NEW row, NEW u, NEW s,
             req' = [req EXCEPT ![r] = Begun(pc, t, client, row, u, s)],
             UNCHANGED <<users, members>>
      PROVE  GateInv'
  <2>1. /\ req'[r].pc = pc /\ req'[r].token = t
        /\ req'[r].user = u /\ req'[r].service = s
        /\ req'[r].client = client
        /\ req'[r].saw = OpenNow(u, s) /\ Others(r)
    BY <1>1, BegunEffect
  <2>2. GateOf(r)'
    BY <1>1, <2>1 DEF GateOf, OpenNow, Open
  <2>3. ASSUME NEW q \in Requests, q # r PROVE GateOf(q)'
    BY <1>1, <2>1, <2>3, OthersKeep DEF Others
  <2>. QED
    BY <2>2, <2>3 DEF GateInv
<1>2. ASSUME NEW t \in TokenIds, NEW client \in Clients,
             RefreshStart(r, t, client) \/ RevokeStart(r, t, client)
      PROVE  GateInv'
  BY <1>1, <1>2 DEF RefreshStart, RevokeStart
<1>3. ASSUME NEW u \in Users, NEW s \in Services, IssueStart(r, u, s)
      PROVE  GateInv'
  BY <1>1, <1>3 DEF IssueStart
<1>. QED
  BY <1>2, <1>3 DEF Start

(* A handler that goes on has passed what its next statement needs.        *)
LEMMA ContinueGates ==
  ASSUME TypeOK, GateInv, NEW r \in Requests, Continue(r) \/ CutShort(r)
  PROVE  GateInv'
<1>. USE DEF env, hist
<1>1. UNCHANGED <<users, members>> /\ ~At(r, "idle")
  BY DEF Continue, CutShort, RefreshRefuse, RefreshDetectReuse, RefreshAccept,
     RefreshSubject, RefreshMember, RefreshRotate, RefreshLoseRace,
     RefreshReread, RevokeFamily, RevokeRow, IssueSubject, IssueMember,
     IssueCreate, At
<1>2. ASSUME Others(r), GateOf(r)' PROVE GateInv'
  BY <1>1, <1>2, OthersKeep DEF GateInv, Others
<1>3. ASSUME Finish(r) PROVE GateInv'
  BY <1>2, <1>3, FinishEffect DEF GateOf, At, Idle
<1>4. ASSUME NEW pc \in Pcs, Await(r, pc),
             pc \in {"member", "issueMember"} => PassedSubject(r),
             pc \notin {"rotate", "create"}
      PROVE  GateInv'
  <2>1. /\ req'[r].pc = pc /\ SameWork(r) /\ Others(r)
    BY <1>4, AwaitEffect
  <2>2. GateOf(r)'
    BY <1>1, <1>4, <2>1, GoesOn
  <2>. QED
    BY <1>2, <2>1, <2>2
<1>5. ASSUME NEW pc \in {"rotate", "create"}, PassedSubject(r),
             "member" \in req[r].saw,
             req' = [req EXCEPT ![r].pc = pc, ![r].expiresAt = now + TTL]
      PROVE  GateInv'
  <2>1. /\ req'[r].pc = pc /\ SameWork(r) /\ Others(r)
    BY <1>5, PrepareEffect
  <2>2. GateOf(r)'
    BY <1>1, <1>5, <2>1, GoesOn
  <2>. QED
    BY <1>2, <2>1, <2>2
<1>6. GateOf(r)
  BY DEF GateInv
<1>7. SubjectAdmitted(req[r].user) => PassedSubject(r)
  BY <1>1, <1>6, SubjectIsOpen DEF GateOf, PassedSubject
<1>8. IsMember(req[r].user, req[r].service) => "member" \in req[r].saw
  BY <1>1, <1>6, MemberIsOpen DEF GateOf
<1>9. CASE \/ RefreshRefuse(r) \/ RefreshRotate(r) \/ RevokeFamily(r)
           \/ RevokeRow(r) \/ IssueCreate(r) \/ CutShort(r)
  BY <1>3, <1>9 DEF RefreshRefuse, RefreshRotate, RevokeFamily, RevokeRow,
     IssueCreate, CutShort
<1>10. CASE \/ RefreshDetectReuse(r) \/ RefreshAccept(r) \/ RefreshLoseRace(r)
            \/ RefreshReread(r)
  BY <1>3, <1>4, <1>10 DEF RefreshDetectReuse, RefreshAccept, RefreshLoseRace,
     RefreshReread, Pcs
<1>11. CASE RefreshSubject(r) \/ IssueSubject(r)
  BY <1>3, <1>4, <1>7, <1>11 DEF RefreshSubject, IssueSubject, Pcs
<1>12. CASE RefreshMember(r) \/ IssueMember(r)
  <2>1. PassedSubject(r)
    BY <1>1, <1>6, <1>12 DEF GateOf, RefreshMember, IssueMember, At
  <2>. QED
    BY <1>3, <1>5, <1>8, <1>12, <2>1 DEF RefreshMember, IssueMember
<1>. QED
  BY <1>9, <1>10, <1>11, <1>12 DEF Continue

(* A gate that closes leaves what was seen; one that opens is seen.        *)
LEMMA WorldGates ==
  ASSUME TypeOK, HandlersBound, GateInv, World
  PROVE  GateInv'
<1>. USE DEF env, hist
<1>1. ASSUME UNCHANGED <<users, members, req>> PROVE GateInv'
  BY <1>1, OthersKeep DEF GateInv
<1>2. ASSUME NEW u \in Users, SoftDelete(u) PROVE GateInv'
  <2>1. \A v \in Users : /\ users'[v].email = users[v].email
                         /\ users'[v].live => users[v].live
    BY <1>2 DEF SoftDelete, TypeOK
  <2>2. ASSUME NEW q \in Requests PROVE GateOf(q)'
    <3>1. UNCHANGED <<members, req>>
      BY <1>2 DEF SoftDelete
    <3>2. CASE At(q, "idle")
      BY <3>1, <3>2 DEF GateOf, At
    <3>3. CASE ~At(q, "idle")
      <4>1. req[q].user \in Users
        BY <3>3 DEF HandlersBound
      <4>2. OpenNow(req[q].user, req[q].service)'
              \subseteq OpenNow(req[q].user, req[q].service)
        BY <2>1, <3>1, <4>1 DEF OpenNow, Open
      <4>3. GateOf(q)
        BY DEF GateInv
      <4>. QED
        BY <3>1, <4>2, <4>3 DEF GateOf, PassedSubject, At
    <3>. QED
      BY <3>2, <3>3
  <2>. QED
    BY <2>2 DEF GateInv
<1>3. ASSUME NEW u \in Users, NEW o \in Orgs, RemoveMember(u, o) PROVE GateInv'
  BY <1>3 DEF RemoveMember, GateInv, GateOf, PassedSubject, At, OpenNow, Open
<1>4. ASSUME WitnessGates PROVE GateInv'
  <2>1. ASSUME NEW q \in Requests PROVE GateOf(q)'
    <3>1. /\ SameWork(q) /\ req'[q].pc = req[q].pc
          /\ ~At(q, "idle") =>
               Open(users'[req[q].user].live, users'[req[q].user].email,
                    members', req[q].user, req[q].service) \subseteq req'[q].saw
      BY <1>4, WitnessEffect
    <3>2. req[q].saw \subseteq req'[q].saw
      BY <1>4 DEF WitnessGates, TypeOK, Request
    <3>3. GateOf(q)
      BY DEF GateInv
    <3>. QED
      BY <3>1, <3>2, <3>3 DEF GateOf, PassedSubject, SameWork, At, OpenNow
  <2>. QED
    BY <2>1 DEF GateInv
<1>. QED
  BY <1>1, <1>2, <1>3, <1>4 DEF World, FamilyRevoked, Environment, Tick, PruneExpired,
     SetEmail, PasswordChanged, PurgeTokens, AddMember

(* No handler runs at first.                                               *)
LEMMA GateInit == Init => GateInv
BY DEF Init, GateInv, GateOf, At, Idle

(* Every step keeps the gates that handlers have seen.                     *)
LEMMA GateStep ==
  ASSUME TypeOK, HandlersBound, GateInv, [TokenStep]_vars PROVE GateInv'
<1>1. TokenStep => GateInv'
  BY StartGates, ContinueGates, WorldGates DEF TokenStep, World, Next
<1>2. UNCHANGED vars => GateInv'
  BY OthersKeep DEF vars, GateInv
<1>. QED
  BY <1>1, <1>2

(* What handlers have seen implies what the minter passed.                 *)
LEMMA GatesAlways == TokenSpec => []MinterPassedEveryGate
<1>1. TypeOK /\ HandlersBound /\ GateInv /\ [TokenStep]_vars => GateInv'
  BY GateStep
<1>2. GateInv => MinterPassedEveryGate
  BY DEF GateInv, GateOf, MinterPassedEveryGate, PassedSubject, At
<1>. QED
  BY <1>1, <1>2, GateInit, AlwaysTyped, PTL DEF TokenSpec

(***************************************************************************)
(* Deleting an account, removing a member or un-verifying an address stops *)
(* every refresh and every grant that is requested afterwards, however     *)
(* handlers interleave (refreshGrant and issueTokensForService).           *)
(***************************************************************************)
THEOREM GatesHold == Spec => []MinterPassedEveryGate
BY AsTokens, GatesAlways, PTL

-----------------------------------------------------------------------------
(***************************************************************************)
(* Rotation keeps one usable token per chain, and RefreshTokens implements *)
(* RotationChain.                                                          *)
(***************************************************************************)

(***************************************************************************)
(* OneLiveTokenPerChain alone is not inductive: a new chain could meet an  *)
(* old token that already has the new token for its root. So the root of a *)
(* token that was used was itself used.                                    *)
(***************************************************************************)
Rooted ==
  \A t \in TokenIds : tokens[t].st # "free" =>
    root[t] \in TokenIds /\ tokens[root[t]].st # "free"

ChainInv == TypeOK /\ HandlersBound /\ Rooted /\ OneLiveTokenPerChain

(* In a new system no token was used.                                      *)
LEMMA ChainInit == Init => Rooted /\ OneLiveTokenPerChain
BY DEF Init, Rooted, OneLiveTokenPerChain, NoRow, Live

(* What a rotation makes of every token and its root.                      *)
LEMMA AfterRotate ==
  ASSUME TypeOK, HandlersBound, NEW r \in Requests, RefreshRotate(r)
  PROVE  \E old, new \in TokenIds :
           /\ old # new /\ Live(tokens, old) /\ tokens[new].st = "free"
           /\ tokens'[old].st = "row" /\ ~Live(tokens', old)
           /\ Live(tokens', new)
           /\ root'[new] = root[old]
           /\ \A t \in TokenIds \ {old, new} : tokens'[t] = tokens[t]
           /\ \A t \in TokenIds \ {new} : root'[t] = root[t]
<1>1. PICK old \in TokenIds, new \in TokenIds :
        /\ old # new /\ Live(tokens, old) /\ tokens[new].st = "free"
        /\ tokens' = Rotate(tokens, old, new, req[r].expiresAt, now)
        /\ root' = [root EXCEPT ![new] = root[old]]
        /\ now \in Nat
  BY RotateStep
<1>2. Stored(now) # Null
  BY <1>1, StoredNat, NullIsNoValue
<1>3. /\ tokens'[old].st = "row" /\ ~Live(tokens', old) /\ Live(tokens', new)
      /\ \A t \in TokenIds \ {old, new} : tokens'[t] = tokens[t]
  BY <1>1, <1>2, RotateEffect DEF TypeOK, Live
<1>4. root'[new] = root[old] /\ \A t \in TokenIds \ {new} : root'[t] = root[t]
  BY <1>1 DEF TypeOK
<1>. QED
  BY <1>1, <1>3, <1>4

(* What a creation makes of every token and its root.                      *)
LEMMA AfterCreate ==
  ASSUME TypeOK, HandlersBound, NEW r \in Requests, IssueCreate(r)
  PROVE  \E new \in TokenIds :
           /\ tokens[new].st = "free"
           /\ Live(tokens', new) /\ root'[new] = new
           /\ \A t \in TokenIds \ {new} :
                tokens'[t] = tokens[t] /\ root'[t] = root[t]
<1>1. PICK new \in TokenIds :
        /\ tokens[new].st = "free"
        /\ tokens' = Create(tokens, new, req[r].user, req[r].service,
                           req[r].expiresAt)
        /\ root' = [root EXCEPT ![new] = new]
  BY CreateStep
<1>2. /\ Live(tokens', new)
      /\ \A t \in TokenIds \ {new} : tokens'[t] = tokens[t]
  BY <1>1, CreateEffect DEF TypeOK, Live
<1>3. root'[new] = new /\ \A t \in TokenIds \ {new} : root'[t] = root[t]
  BY <1>1 DEF TypeOK
<1>. QED
  BY <1>1, <1>2, <1>3

(* A table that was weakened has no usable token it did not have.          *)
LEMMA WeakenedLive ==
  ASSUME NEW T, NEW U, Weakened(T, U), NEW t \in TokenIds, Live(U, t)
  PROVE  Live(T, t)
BY DEF Weakened, Live

(* Every step keeps the strengthened invariant.                            *)
LEMMA ChainStep ==
  ASSUME ChainInv, [TokenStep]_vars
  PROVE  (Rooted /\ OneLiveTokenPerChain)'
<1>. USE DEF ChainInv
<1>1. CASE Weakened(tokens, tokens') /\ UNCHANGED root
  <2>1. Rooted'
    BY <1>1 DEF Rooted, Weakened
  <2>2. OneLiveTokenPerChain'
    BY <1>1, WeakenedLive DEF OneLiveTokenPerChain
  <2>. QED
    BY <2>1, <2>2
<1>2. ASSUME NEW r \in Requests, RefreshRotate(r)
      PROVE  (Rooted /\ OneLiveTokenPerChain)'
  <2>1. PICK old \in TokenIds, new \in TokenIds :
          /\ old # new /\ Live(tokens, old) /\ tokens[new].st = "free"
          /\ tokens'[old].st = "row" /\ ~Live(tokens', old)
          /\ Live(tokens', new)
          /\ root'[new] = root[old]
          /\ \A t \in TokenIds \ {old, new} : tokens'[t] = tokens[t]
          /\ \A t \in TokenIds \ {new} : root'[t] = root[t]
    BY <1>2, AfterRotate
  <2>2. \A t \in TokenIds : tokens[t].st # "free" => tokens'[t].st # "free"
    BY <2>1
  <2>3. Rooted'
    BY <2>1, <2>2 DEF Rooted, Live
  <2>4. ASSUME NEW t \in TokenIds, t # new, Live(tokens', t)
        PROVE  t # old /\ Live(tokens, t) /\ root'[t] = root[t]
    BY <2>1, <2>4 DEF Live
  <2>5. OneLiveTokenPerChain'
    BY <2>1, <2>4 DEF OneLiveTokenPerChain
  <2>. QED
    BY <2>3, <2>5
<1>3. ASSUME NEW r \in Requests, IssueCreate(r)
      PROVE  (Rooted /\ OneLiveTokenPerChain)'
  <2>1. PICK new \in TokenIds :
          /\ tokens[new].st = "free"
          /\ Live(tokens', new) /\ root'[new] = new
          /\ \A t \in TokenIds \ {new} :
               tokens'[t] = tokens[t] /\ root'[t] = root[t]
    BY <1>3, AfterCreate
  <2>2. Rooted'
    BY <2>1 DEF Rooted, Live
  <2>3. ASSUME NEW t \in TokenIds, t # new, Live(tokens', t)
        PROVE  Live(tokens, t) /\ root'[t] = root[t] /\ root'[t] # new
    BY <2>1, <2>3 DEF Live, Rooted
  <2>4. OneLiveTokenPerChain'
    BY <2>1, <2>3 DEF OneLiveTokenPerChain
  <2>. QED
    BY <2>2, <2>4
<1>. QED
  BY <1>1, <1>2, <1>3, TableStep

(* The inductive invariant holds in every reachable state.                 *)
LEMMA ChainInvariant == TokenSpec => []ChainInv
<1>1. Init => ChainInv
  BY TypeInit, ChainInit DEF ChainInv
<1>2. ChainInv /\ [TokenStep]_vars => ChainInv'
  BY TypeStep, BoundStep, ChainStep DEF ChainInv
<1>. QED
  BY <1>1, <1>2, PTL DEF TokenSpec

(***************************************************************************)
(* However many handlers race with however many tokens, no chain ever has  *)
(* two usable tokens (refreshGrant and the conditional UPDATE of rotate).  *)
(***************************************************************************)
THEOREM OneLiveToken == Spec => []OneLiveTokenPerChain
<1>1. ChainInv => OneLiveTokenPerChain
  BY DEF ChainInv
<1>. QED
  BY <1>1, AsTokens, ChainInvariant, PTL

-----------------------------------------------------------------------------
(***************************************************************************)
(* The refinement. Current is the mapping of the abstract chains.          *)
(***************************************************************************)
Current(T, R) == [c \in TokenIds |-> {t \in TokenIds : Live(T, t) /\ R[t] = c}]

Used(T) == {t \in TokenIds : T[t].st # "free"}

(* A rotation moves the chain of the old token on to the new one.          *)
LEMMA RotateAdvances ==
  ASSUME ChainInv, NEW r \in Requests, RefreshRotate(r)
  PROVE  \E c, t \in TokenIds :
           /\ Current(tokens, root)[c] # {}
           /\ t \notin Used(tokens)
           /\ Current(tokens', root') = [Current(tokens, root) EXCEPT ![c] = {t}]
           /\ Used(tokens') = Used(tokens) \cup {t}
<1>. USE DEF ChainInv
<1>1. PICK old \in TokenIds, new \in TokenIds :
        /\ old # new /\ Live(tokens, old) /\ tokens[new].st = "free"
        /\ tokens'[old].st = "row" /\ ~Live(tokens', old)
        /\ Live(tokens', new)
        /\ root'[new] = root[old]
        /\ \A t \in TokenIds \ {old, new} : tokens'[t] = tokens[t]
        /\ \A t \in TokenIds \ {new} : root'[t] = root[t]
  BY AfterRotate
<1>. DEFINE c == root[old]
<1>2. c \in TokenIds
  BY <1>1 DEF Rooted, Live
<1>3. old \in Current(tokens, root)[c]
  BY <1>1, <1>2 DEF Current
<1>4. new \notin Used(tokens) /\ Used(tokens') = Used(tokens) \cup {new}
  BY <1>1 DEF Used, Live
<1>5. ASSUME NEW t \in TokenIds, t # new, Live(tokens', t)
      PROVE  Live(tokens, t) /\ root'[t] = root[t] /\ root[t] # c
  BY <1>1, <1>5 DEF Live, OneLiveTokenPerChain
<1>6. ASSUME NEW t \in TokenIds, t # new, Live(tokens, t), root[t] # c
      PROVE  Live(tokens', t) /\ root'[t] = root[t]
  BY <1>1, <1>6 DEF Live
<1>7. ~Live(tokens, new)
  BY <1>1 DEF Live
<1>8. Current(tokens', root')[c] = {new}
  BY <1>1, <1>2, <1>5 DEF Current
<1>9. ASSUME NEW d \in TokenIds, d # c
      PROVE  Current(tokens', root')[d] = Current(tokens, root)[d]
  BY <1>1, <1>5, <1>6, <1>7, <1>9 DEF Current
<1>10. Current(tokens', root') = [Current(tokens, root) EXCEPT ![c] = {new}]
  BY <1>2, <1>8, <1>9 DEF Current
<1>. QED
  BY <1>2, <1>3, <1>4, <1>10

(* A creation begins a chain.                                              *)
LEMMA CreateBegins ==
  ASSUME ChainInv, NEW r \in Requests, IssueCreate(r)
  PROVE  \E c \in TokenIds :
           /\ c \notin Used(tokens)
           /\ Current(tokens', root') = [Current(tokens, root) EXCEPT ![c] = {c}]
           /\ Used(tokens') = Used(tokens) \cup {c}
<1>. USE DEF ChainInv
<1>1. PICK new \in TokenIds :
        /\ tokens[new].st = "free"
        /\ Live(tokens', new) /\ root'[new] = new
        /\ \A t \in TokenIds \ {new} :
             tokens'[t] = tokens[t] /\ root'[t] = root[t]
  BY AfterCreate
<1>2. new \notin Used(tokens) /\ Used(tokens') = Used(tokens) \cup {new}
  BY <1>1 DEF Used, Live
<1>3. ASSUME NEW t \in TokenIds, t # new
      PROVE  Live(tokens', t) <=> Live(tokens, t)
  BY <1>1, <1>3 DEF Live
<1>4. \A t \in TokenIds : Live(tokens, t) => t # new /\ root[t] # new
  BY <1>1 DEF Live, Rooted
<1>5. Current(tokens', root')[new] = {new}
  BY <1>1, <1>3, <1>4 DEF Current
<1>6. ASSUME NEW d \in TokenIds, d # new
      PROVE  Current(tokens', root')[d] = Current(tokens, root)[d]
  BY <1>1, <1>3, <1>4, <1>6 DEF Current
<1>7. Current(tokens', root') = [Current(tokens, root) EXCEPT ![new] = {new}]
  BY <1>5, <1>6 DEF Current
<1>. QED
  BY <1>2, <1>7

(* Whatever weakens the table ends the chains that lose their token.       *)
LEMMA WeakenEnds ==
  ASSUME ChainInv, Weakened(tokens, tokens'), UNCHANGED root
  PROVE  \E C \in SUBSET TokenIds :
           /\ Current(tokens', root') =
                [c \in TokenIds |-> IF c \in C THEN {} ELSE Current(tokens, root)[c]]
           /\ Used(tokens') = Used(tokens)
<1>. DEFINE C == {c \in TokenIds : Current(tokens', root')[c] = {}}
<1>1. Used(tokens') = Used(tokens)
  BY DEF Used, Weakened
<1>2. ASSUME NEW c \in TokenIds, c \notin C
      PROVE  Current(tokens', root')[c] = Current(tokens, root)[c]
  <2>1. PICK t \in TokenIds : Live(tokens', t) /\ root[t] = c
    BY <1>2 DEF Current
  <2>2. \A s \in TokenIds : Live(tokens', s) => Live(tokens, s)
    BY WeakenedLive
  <2>3. \A s \in TokenIds : Live(tokens, s) /\ root[s] = c => s = t
    BY <2>1, <2>2 DEF ChainInv, OneLiveTokenPerChain
  <2>. QED
    BY <2>1, <2>2, <2>3 DEF Current
<1>3. Current(tokens', root') =
        [c \in TokenIds |-> IF c \in C THEN {} ELSE Current(tokens, root)[c]]
  BY <1>2 DEF Current
<1>. QED
  BY <1>1, <1>3

(* Every step is a step of the abstract chains, or leaves them alone.      *)
LEMMA ChainNext ==
  ASSUME ChainInv, [TokenStep]_vars
  PROVE  [Chain!Next]_(Chain!vars)
<1>. USE DEF ChainInv, Current, Used
<1>1. CASE Weakened(tokens, tokens') /\ UNCHANGED root
  BY <1>1, WeakenEnds DEF Chain!Next, Chain!End
<1>2. ASSUME NEW r \in Requests, RefreshRotate(r) PROVE Chain!Next
  BY <1>2, RotateAdvances DEF Chain!Next, Chain!Advance
<1>3. ASSUME NEW r \in Requests, IssueCreate(r) PROVE Chain!Next
  BY <1>3, CreateBegins DEF Chain!Next, Chain!Begin
<1>. QED
  BY <1>1, <1>2, <1>3, TableStep

(* So is a behaviour in which families are revoked at any time.            *)
LEMMA ChainsAlways == TokenSpec => RotationChainSpec
<1>1. Init => Chain!Init
  BY DEF Init, Chain!Init, NoRow, Live
<1>2. ChainInv /\ [TokenStep]_vars => [Chain!Next]_(Chain!vars)
  BY ChainNext
<1>. QED
  BY <1>1, <1>2, ChainInvariant, PTL DEF TokenSpec, RotationChainSpec, Chain!Spec

(***************************************************************************)
(* Every interleaving of refreshes, revocations, password changes, purges  *)
(* and prunes is one of the abstract chains: a chain that was ended stays  *)
(* ended, whichever handler was in flight.                                 *)
(***************************************************************************)
THEOREM ImplementsChains == Spec => RotationChainSpec
BY AsTokens, ChainsAlways, PTL

-----------------------------------------------------------------------------
(***************************************************************************)
(* Where a handler can be after a step. SameStatement: it awaits what it   *)
(* awaited. Begins: it read an existing row, and on the revocation path    *)
(* authenticated its client. MovesOn's disjuncts are the moves of          *)
(* refreshGrant and issueTokensForService from one statement to the next;  *)
(* SeenAsReplay: the row it read was revoked, by no rotation just now.     *)
(***************************************************************************)
SameStatement(q) ==
  /\ SameWork(q)
  /\ req'[q].pc = req[q].pc
  /\ req'[q].expiresAt = req[q].expiresAt
  /\ req'[q].existing = req[q].existing

Begins(q) ==
  /\ UNCHANGED <<tokens, now>>
  /\ \/ /\ req'[q].pc \in {"service", "revoke"}
        /\ req'[q].token \in TokenIds
        /\ tokens[req'[q].token].st = "row"
        /\ req'[q].pc = "revoke" =>
             AuthenticateTokenClient(req'[q].service, req'[q].client)
        /\ req'[q].pc = "service" => req'[q].existing = tokens[req'[q].token]
     \/ req'[q].pc = "issueSubject"

Prepares(q) == req'[q].expiresAt = now + TTL

SeenAsReplay(q) ==
  \/ /\ req[q].pc = "service" /\ req[q].existing.revokedAt # Null
     /\ ~JustRotated(req[q].existing, now)
  \/ /\ req[q].pc = "reread"
     /\ ~(tokens[req[q].token].st = "row" /\ JustRotated(tokens[req[q].token], now))

MovesOn(q) ==
  /\ SameWork(q)
  /\ UNCHANGED <<tokens, now>>
  /\ req'[q].pc = "family" => SeenAsReplay(q)
  /\ \/ /\ req[q].pc = "service" /\ req'[q].pc \in {"family", "subject"}
        /\ AuthenticateTokenClient(req[q].service, req[q].client)
     \/ /\ req[q].pc \in {"subject", "rotate", "reread"}
        /\ req'[q].pc \in {"member", "reread", "family"}
     \/ req[q].pc = "member" /\ req'[q].pc = "rotate" /\ Prepares(q)
     \/ req[q].pc = "issueSubject" /\ req'[q].pc = "issueMember"
     \/ req[q].pc = "issueMember" /\ req'[q].pc = "create" /\ Prepares(q)

Moves(q) ==
  \/ SameStatement(q)
  \/ req'[q].pc = "idle"
  \/ Begins(q)
  \/ MovesOn(q)

(* A handler that a step leaves alone.                                     *)
LEMMA LeftAlone ==
  ASSUME NEW q \in Requests, req'[q] = req[q] PROVE Moves(q)
BY DEF Moves, SameStatement, SameWork

(* Every step moves every handler along one of these ways.                 *)
LEMMA HandlerMoves ==
  ASSUME TypeOK, HandlersBound, [TokenStep]_vars, NEW q \in Requests
  PROVE  Moves(q)
<1>. USE DEF env, hist
<1>1. UNCHANGED req => Moves(q)
  BY LeftAlone
<1>2. ASSUME NEW r \in Requests, Finish(r) PROVE Moves(q)
  BY <1>2, FinishEffect, LeftAlone DEF Others, Moves
<1>3. ASSUME NEW r \in Requests, Others(r), Begins(r) \/ MovesOn(r)
      PROVE  Moves(q)
  BY <1>3, LeftAlone DEF Others, Moves
<1>4. ASSUME NEW r \in Requests, NEW pc \in Pcs, Await(r, pc)
      PROVE  req'[r].pc = pc /\ SameWork(r) /\ Others(r)
  BY <1>4, AwaitEffect
<1>5. ASSUME WitnessGates PROVE Moves(q)
  BY <1>5, WitnessEffect DEF Moves, SameStatement
<1>6. ASSUME NEW r \in Requests, Start(r) PROVE Moves(q)
  <2>. DEFINE Began(pc, t, client, row, u, s) ==
                /\ req'[r].pc = pc /\ req'[r].token = t
                /\ req'[r].user = u /\ req'[r].service = s
                /\ req'[r].client = client /\ req'[r].existing = row
                /\ req'[r].saw = OpenNow(u, s) /\ Others(r)
  <2>0. ASSUME NEW pc, NEW t, NEW client, NEW row, NEW u, NEW s,
               req' = [req EXCEPT ![r] = Begun(pc, t, client, row, u, s)]
        PROVE  Began(pc, t, client, row, u, s)
    BY <2>0, BegunEffect
  <2>1. ASSUME NEW t \in TokenIds, NEW client \in Clients,
               RefreshStart(r, t, client)
        PROVE  Begins(r) /\ Others(r)
    <3>1. Began("service", t, client, tokens[t], tokens[t].user, tokens[t].service)
      BY <2>0, <2>1 DEF RefreshStart
    <3>. QED
      BY <2>1, <3>1 DEF RefreshStart, Begins
  <2>2. ASSUME NEW t \in TokenIds, NEW client \in Clients,
               RevokeStart(r, t, client)
        PROVE  Begins(r) /\ Others(r)
    <3>1. Began("revoke", t, client, NoRow, tokens[t].user, tokens[t].service)
      BY <2>0, <2>2 DEF RevokeStart
    <3>. QED
      BY <2>2, <3>1 DEF RevokeStart, Begins, Live
  <2>3. ASSUME NEW u \in Users, NEW s \in Services, IssueStart(r, u, s)
        PROVE  Begins(r) /\ Others(r)
    <3>1. Began("issueSubject", Null, NoClient, NoRow, u, s)
      BY <2>0, <2>3 DEF IssueStart
    <3>. QED
      BY <2>3, <3>1 DEF IssueStart, Begins
  <2>. QED
    BY <1>3, <1>6, <2>1, <2>2, <2>3 DEF Start
<1>7. ASSUME NEW r \in Requests, Continue(r) PROVE Moves(q)
  <2>. USE DEF At, Pcs
  <2>1. CASE \/ RefreshRefuse(r) \/ RefreshRotate(r) \/ RevokeFamily(r)
            \/ RevokeRow(r) \/ IssueCreate(r)
    BY <1>2, <2>1
    DEF RefreshRefuse, RefreshRotate, RevokeFamily, RevokeRow, IssueCreate
  <2>2. CASE RefreshDetectReuse(r) \/ RefreshAccept(r)
    <3>1. CASE RefreshDetectReuse(r)
      <4>1. MovesOn(r) /\ Others(r)
        BY <1>4, <3>1 DEF RefreshDetectReuse, MovesOn, ClientOf, SeenAsReplay
      <4>. QED
        BY <1>3, <4>1
    <3>2. CASE RefreshAccept(r)
      <4>1. MovesOn(r) /\ Others(r)
        BY <1>4, <3>2 DEF RefreshAccept, MovesOn, ClientOf
      <4>. QED
        BY <1>3, <4>1
    <3>. QED
      BY <2>2, <3>1, <3>2
  <2>3. CASE RefreshSubject(r)
    <3>1. ASSUME Await(r, "member") PROVE MovesOn(r) /\ Others(r)
      BY <1>4, <2>3, <3>1 DEF RefreshSubject, MovesOn
    <3>. QED
      BY <1>2, <1>3, <2>3, <3>1 DEF RefreshSubject
  <2>4. CASE RefreshLoseRace(r)
    BY <1>3, <1>4, <2>4 DEF RefreshLoseRace, MovesOn
  <2>5. CASE RefreshReread(r)
    <3>1. ASSUME Await(r, "family"), SeenAsReplay(r)
          PROVE  MovesOn(r) /\ Others(r)
      BY <1>4, <2>5, <3>1 DEF RefreshReread, MovesOn
    <3>2. Finish(r) \/ (Await(r, "family") /\ SeenAsReplay(r))
      BY <2>5 DEF RefreshReread, SeenAsReplay
    <3>. QED
      BY <1>2, <1>3, <3>1, <3>2
  <2>6. CASE IssueSubject(r)
    <3>1. ASSUME Await(r, "issueMember") PROVE MovesOn(r) /\ Others(r)
      BY <1>4, <2>6, <3>1 DEF IssueSubject, MovesOn
    <3>. QED
      BY <1>2, <1>3, <2>6, <3>1 DEF IssueSubject
  <2>7. CASE RefreshMember(r)
    BY <1>2, <1>3, <2>7, PrepareEffect DEF RefreshMember, MovesOn, Prepares
  <2>8. CASE IssueMember(r)
    BY <1>2, <1>3, <2>8, PrepareEffect DEF IssueMember, MovesOn, Prepares
  <2>. QED
    BY <1>7, <2>1, <2>2, <2>3, <2>4, <2>5, <2>6, <2>7, <2>8 DEF Continue
<1>8. ASSUME NEW r \in Requests, CutShort(r) PROVE Moves(q)
  BY <1>2, <1>8 DEF CutShort
<1>9. CASE World
  BY <1>1, <1>5, <1>9 DEF World, FamilyRevoked, Environment, Tick, PruneExpired,
     SoftDelete, PasswordChanged, PurgeTokens, SetEmail, AddMember, RemoveMember
<1>10. CASE UNCHANGED vars
  BY <1>1, <1>10 DEF vars
<1>. QED
  BY <1>6, <1>7, <1>8, <1>9, <1>10 DEF TokenStep, World, Next

-----------------------------------------------------------------------------
(***************************************************************************)
(* A handler that got past the client check of refreshGrant, or that       *)
(* revokes, acts for a client that authenticated.                          *)
(***************************************************************************)
Authenticated ==
  \A r \in Requests : req[r].pc \in TokenPcs \ {"service"} =>
    AuthenticateTokenClient(req[r].service, req[r].client)

(* Every step keeps it: nothing passes the check from behind.              *)
LEMMA AuthenticatedStep ==
  ASSUME TypeOK, HandlersBound, Authenticated, [TokenStep]_vars
  PROVE  Authenticated'
<1>. SUFFICES ASSUME NEW q \in Requests, req'[q].pc \in TokenPcs \ {"service"}
              PROVE  AuthenticateTokenClient(req'[q].service, req'[q].client)
  BY DEF Authenticated, AuthenticateTokenClient, ClientSecretOk
<1>1. CASE SameStatement(q)
  BY <1>1 DEF SameStatement, SameWork, Authenticated
<1>2. CASE Begins(q)
  BY <1>2 DEF Begins, TokenPcs
<1>3. CASE MovesOn(q)
  BY <1>3 DEF MovesOn, SameWork, Authenticated, TokenPcs
<1>. QED
  BY <1>1, <1>2, <1>3, HandlerMoves DEF Moves, TokenPcs

(* Only authenticated clients act, whenever families are revoked.          *)
LEMMA OwnClientAlways == TokenSpec => OnlyOwnClientActs
<1>. DEFINE Inv == TypeOK /\ HandlersBound /\ Authenticated
<1>1. Init => Inv
  <2>1. Init => Authenticated
    BY DEF Init, Authenticated, Idle, TokenPcs
  <2>. QED
    BY <2>1, TypeInit
<1>2. Inv /\ [TokenStep]_vars => Inv'
  BY TypeStep, BoundStep, AuthenticatedStep
<1>3. ASSUME Inv, NEW r \in Requests, req[r].pc \in {"family", "rotate", "revoke"}
      PROVE  \/ req[r].service \in Public
             \/ req[r].client = [id |-> req[r].service, secret |-> TRUE]
  <2>1. req[r].client \in Client /\ req[r].service # Null
    BY <1>3, NullIsNoValue DEF TypeOK, Request, HandlersBound, At
  <2>2. AuthenticateTokenClient(req[r].service, req[r].client)
    BY <1>3 DEF Authenticated, TokenPcs
  <2>. QED
    BY <2>1, <2>2 DEF AuthenticateTokenClient, ClientSecretOk, Client
<1>4. Inv => [\A r \in Requests :
       /\ req[r].pc \in {"family", "rotate", "revoke"}
       /\ req'[r] # req[r] /\ tokens' # tokens
       => \/ req[r].service \in Public
          \/ req[r].client = [id |-> req[r].service, secret |-> TRUE]]_vars
  BY <1>3
<1>. QED
  BY <1>1, <1>2, <1>4, PTL DEF TokenSpec, OnlyOwnClientActs

(***************************************************************************)
(* Only the token's own client makes a handler rotate, revoke or end a     *)
(* family: whoever holds a token of a confidential client without its      *)
(* secret changes nothing (the order of the checks in refreshGrant).       *)
(***************************************************************************)
THEOREM OwnClientOnly == Spec => OnlyOwnClientActs
BY OwnClientAlways, AsTokens, PTL

-----------------------------------------------------------------------------
(***************************************************************************)
(* SuccessorPresent is not inductive: that the successor expires no        *)
(* earlier rests on when both rows were built. The row that a handler is   *)
(* about to insert was built after the row it replaces was inserted, and   *)
(* lives for the same TTL; the rounding of the column keeps that order.    *)
(***************************************************************************)
RowsInTime ==
  \A t \in TokenIds : tokens[t].st = "row" =>
    tokens[t].expiresAt <= Stored(now + TTL)

NextInTime ==
  /\ \A r \in Requests : req[r].pc \in {"rotate", "create"} =>
       req[r].expiresAt <= now + TTL
  /\ \A r \in Requests : req[r].pc = "rotate" =>
       LET old == tokens[req[r].token]
       IN old.st = "row" => old.expiresAt <= Stored(req[r].expiresAt)

HandlersHold ==
  \A r \in Requests : req[r].pc \in TokenPcs =>
    tokens[req[r].token].st # "free"

PresentInv ==
  /\ TypeOK /\ HandlersBound
  /\ RowsInTime /\ NextInTime /\ HandlersHold
  /\ SuccessorPresent

(* A bound that starts later is a weaker one.                              *)
LEMMA LaterBound ==
  ASSUME NEW x \in Nat, NEW y \in Nat, NEW d \in Nat, NEW e \in Nat, x <= y
  PROVE  /\ e <= x + d => e <= y + d
         /\ e = x + d => e <= y + d
OBVIOUS

(* The clock does not go back.                                             *)
LEMMA ClockForward ==
  ASSUME TypeOK, [TokenStep]_vars PROVE now' \in Nat /\ now <= now'
<1>1. now \in Nat
  BY DEF TypeOK
<1>2. now' = now \/ now' = now + 1
  BY DEF TokenStep, FamilyRevoked, Next, Start, Continue, Environment, vars,
     env, Tick, PruneExpired,
     SoftDelete, PasswordChanged, PurgeTokens, SetEmail, AddMember,
     RemoveMember, CutShort, RefreshStart, RevokeStart, IssueStart,
     RefreshRefuse, RefreshDetectReuse, RefreshAccept, RefreshSubject,
     RefreshMember, RefreshRotate, RefreshLoseRace, RefreshReread,
     RevokeFamily, RevokeRow, IssueSubject, IssueMember, IssueCreate
<1>. QED
  BY <1>1, <1>2

(* A row keeps its user and expiry; an id that was used is not free again. *)
LEMMA RowsKept ==
  ASSUME TypeOK, HandlersBound, [TokenStep]_vars,
         NEW t \in TokenIds, tokens[t].st # "free"
  PROVE  /\ tokens'[t].st # "free"
         /\ tokens'[t].st = "row" =>
              /\ tokens[t].st = "row"
              /\ tokens'[t].user = tokens[t].user
              /\ tokens'[t].expiresAt = tokens[t].expiresAt
<1>1. CASE Weakened(tokens, tokens')
  BY <1>1 DEF Weakened
<1>2. ASSUME NEW r \in Requests, RefreshRotate(r)
      PROVE  /\ tokens'[t].st # "free"
             /\ tokens'[t].st = "row" =>
                  /\ tokens[t].st = "row"
                  /\ tokens'[t].user = tokens[t].user
                  /\ tokens'[t].expiresAt = tokens[t].expiresAt
  <2>1. PICK old \in TokenIds, new \in TokenIds :
          /\ old # new /\ Live(tokens, old) /\ tokens[new].st = "free"
          /\ tokens' = Rotate(tokens, old, new, req[r].expiresAt, now)
    BY <1>2, RotateStep
  <2>. QED
    BY <2>1, RotateEffect DEF TypeOK, Live
<1>3. ASSUME NEW r \in Requests, IssueCreate(r)
      PROVE  tokens'[t] = tokens[t]
  <2>1. PICK new \in TokenIds :
          /\ tokens[new].st = "free"
          /\ \A s \in TokenIds \ {new} : tokens'[s] = tokens[s]
    BY <1>3, AfterCreate
  <2>. QED
    BY <2>1
<1>. QED
  BY <1>1, <1>2, <1>3, TableStep

(* A row that was not there was built by a handler that inserts it now.    *)
LEMMA NewRow ==
  ASSUME TypeOK, HandlersBound, [TokenStep]_vars,
         NEW t \in TokenIds, tokens[t].st = "free", tokens'[t].st = "row"
  PROVE  \E r \in Requests :
           /\ req[r].pc \in {"rotate", "create"}
           /\ tokens'[t].expiresAt = Stored(req[r].expiresAt)
           /\ tokens'[t].replacedBy = Null
           /\ UNCHANGED now
<1>1. ~Weakened(tokens, tokens')
  BY DEF Weakened
<1>2. ASSUME NEW r \in Requests, RefreshRotate(r)
      PROVE  /\ req[r].pc = "rotate" /\ UNCHANGED now
             /\ tokens'[t].expiresAt = Stored(req[r].expiresAt)
             /\ tokens'[t].replacedBy = Null
  <2>1. PICK old \in TokenIds, new \in TokenIds :
          /\ old # new /\ Live(tokens, old) /\ tokens[new].st = "free"
          /\ tokens' = Rotate(tokens, old, new, req[r].expiresAt, now)
    BY <1>2, RotateStep
  <2>2. t = new
    BY <2>1, RotateEffect DEF TypeOK, Live
  <2>. QED
    BY <1>2, <2>1, <2>2, RotateEffect DEF TypeOK, RefreshRotate, At, env
<1>3. ASSUME NEW r \in Requests, IssueCreate(r)
      PROVE  /\ req[r].pc = "create" /\ UNCHANGED now
             /\ tokens'[t].expiresAt = Stored(req[r].expiresAt)
             /\ tokens'[t].replacedBy = Null
  <2>1. PICK new \in TokenIds :
          /\ tokens[new].st = "free"
          /\ tokens' = Create(tokens, new, req[r].user, req[r].service,
                             req[r].expiresAt)
    BY <1>3, CreateStep
  <2>2. t = new
    BY <2>1, CreateEffect DEF TypeOK
  <2>. QED
    BY <1>3, <2>1, <2>2, CreateEffect DEF TypeOK, IssueCreate, At, env
<1>. QED
  BY <1>1, <1>2, <1>3, TableStep

(* Every step keeps the rows in time.                                      *)
LEMMA RowsInTimeStep ==
  ASSUME PresentInv, [TokenStep]_vars PROVE RowsInTime'
<1>. USE DEF PresentInv
<1>. SUFFICES ASSUME NEW t \in TokenIds, tokens'[t].st = "row"
              PROVE  tokens'[t].expiresAt <= Stored(now' + TTL)
  BY DEF RowsInTime, Stored, Seconds
<1>1. /\ now \in Nat /\ now' \in Nat /\ TTL \in Nat /\ now <= now'
      /\ Stored(now + TTL) \in Nat /\ Stored(now' + TTL) \in Nat
  BY ClockForward, StoredNat, RefreshAssumption DEF TypeOK
<1>2. Stored(now + TTL) <= Stored(now' + TTL)
  BY <1>1, StoredMonotone
<1>3. CASE tokens[t].st # "free"
  <2>1. /\ tokens[t].st = "row"
        /\ tokens'[t].expiresAt = tokens[t].expiresAt
        /\ tokens[t].expiresAt \in Nat
    BY <1>3, RowsKept DEF TypeOK, Row
  <2>. QED
    BY <1>1, <1>2, <2>1 DEF RowsInTime
<1>4. CASE tokens[t].st = "free"
  <2>1. PICK r \in Requests :
          /\ req[r].pc \in {"rotate", "create"}
          /\ tokens'[t].expiresAt = Stored(req[r].expiresAt)
    BY <1>4, NewRow
  <2>2. req[r].expiresAt \in Nat /\ req[r].expiresAt <= now + TTL
    BY <2>1 DEF NextInTime, TypeOK, Request
  <2>3. Stored(req[r].expiresAt) \in Nat
    BY <2>2, StoredNat
  <2>4. Stored(req[r].expiresAt) <= Stored(now + TTL)
    BY <1>1, <2>2, StoredMonotone
  <2>. QED
    BY <1>1, <1>2, <2>1, <2>3, <2>4
<1>. QED
  BY <1>3, <1>4

(* Every handler on the refresh path keeps a token that was used.          *)
LEMMA HandlersHoldStep ==
  ASSUME PresentInv, [TokenStep]_vars PROVE HandlersHold'
<1>. USE DEF PresentInv
<1>. SUFFICES ASSUME NEW q \in Requests, req'[q].pc \in TokenPcs
              PROVE  tokens'[req'[q].token].st # "free"
  BY DEF HandlersHold
<1>1. CASE Begins(q)
  BY <1>1 DEF Begins, TokenPcs
<1>2. CASE SameStatement(q) \/ MovesOn(q)
  <2>1. req[q].pc \in TokenPcs /\ req'[q].token = req[q].token
    BY <1>2 DEF SameStatement, MovesOn, SameWork, TokenPcs
  <2>2. req[q].token \in TokenIds /\ tokens[req[q].token].st # "free"
    BY <2>1 DEF HandlersBound, HandlersHold
  <2>. QED
    BY <2>1, <2>2, RowsKept
<1>. QED
  BY <1>1, <1>2, HandlerMoves DEF Moves, TokenPcs

(* Every step keeps the rows to be inserted later than those they replace. *)
LEMMA NextInTimeStep ==
  ASSUME PresentInv, [TokenStep]_vars PROVE NextInTime'
<1>. USE DEF PresentInv
<1>1. now \in Nat /\ now' \in Nat /\ TTL \in Nat /\ now <= now'
  BY ClockForward, RefreshAssumption DEF TypeOK
<1>2. ASSUME NEW q \in Requests, req'[q].pc \in {"rotate", "create"}
      PROVE  \/ SameStatement(q)
             \/ /\ req'[q].expiresAt = now + TTL /\ SameWork(q)
                /\ UNCHANGED <<tokens, now>>
                /\ req'[q].pc = "rotate" => req[q].pc \in TokenPcs
  BY <1>2, HandlerMoves DEF Moves, Begins, MovesOn, Prepares, TokenPcs
<1>3. ASSUME NEW q \in Requests, req'[q].pc \in {"rotate", "create"}
      PROVE  req'[q].expiresAt <= now' + TTL
  <2>1. CASE SameStatement(q)
    <3>1. /\ req[q].pc \in {"rotate", "create"}
          /\ req'[q].expiresAt = req[q].expiresAt /\ req[q].expiresAt \in Nat
      BY <1>3, <2>1 DEF SameStatement, TypeOK, Request
    <3>2. req[q].expiresAt <= now + TTL
      BY <3>1 DEF NextInTime
    <3>3. req[q].expiresAt <= now' + TTL
      BY <1>1, <3>1, <3>2, LaterBound
    <3>. QED
      BY <3>1, <3>3
  <2>2. CASE req'[q].expiresAt = now + TTL
    BY <1>1, <2>2, LaterBound
  <2>. QED
    BY <1>2, <1>3, <2>1, <2>2
<1>4. ASSUME NEW q \in Requests, req'[q].pc = "rotate",
             tokens'[req'[q].token].st = "row"
      PROVE  tokens'[req'[q].token].expiresAt <= Stored(req'[q].expiresAt)
  <2>. DEFINE old == req[q].token
  <2>1. req[q].pc \in TokenPcs /\ req'[q].token = old
    BY <1>2, <1>4 DEF SameStatement, SameWork, TokenPcs
  <2>2. old \in TokenIds /\ tokens[old].st # "free"
    BY <2>1 DEF HandlersBound, HandlersHold
  <2>. HIDE DEF old
  <2>3. tokens[old].st = "row" /\ tokens'[old].expiresAt = tokens[old].expiresAt
    BY <1>4, <2>1, <2>2, RowsKept
  <2>4. CASE SameStatement(q)
    <3>1. req[q].pc = "rotate" /\ req'[q].expiresAt = req[q].expiresAt
      BY <1>4, <2>4 DEF SameStatement
    <3>2. tokens[old].expiresAt <= Stored(req[q].expiresAt)
      BY <2>3, <3>1 DEF NextInTime, old
    <3>. QED
      BY <2>1, <2>3, <3>1, <3>2
  <2>5. CASE req'[q].expiresAt = now + TTL
    BY <2>1, <2>2, <2>3, <2>5 DEF RowsInTime
  <2>. QED
    BY <1>2, <1>4, <2>4, <2>5
<1>. QED
  BY <1>3, <1>4 DEF NextInTime, Stored, Seconds

(* Every step leaves a replaced row with its successor.                    *)
LEMMA SuccessorStep ==
  ASSUME PresentInv, [TokenStep]_vars PROVE SuccessorPresent'
<1>. USE DEF PresentInv
<1>. DEFINE Follows(T, R, t) ==
       LET next == T[t].replacedBy
       IN /\ T[next].st = "row"
          /\ T[next].user = T[t].user
          /\ T[next].expiresAt >= T[t].expiresAt
          /\ R[next] = R[t]
<1>. SUFFICES ASSUME NEW t \in TokenIds, tokens'[t].st = "row",
                     tokens'[t].replacedBy # Null
              PROVE  Follows(tokens', root', t)
  BY DEF SuccessorPresent
<1>1. ASSUME tokens[t].st = "row", tokens[t].replacedBy # Null
      PROVE  /\ tokens[t].replacedBy \in TokenIds
             /\ Follows(tokens, root, t)
  BY <1>1 DEF SuccessorPresent, TypeOK, Row
<1>2. CASE Weakened(tokens, tokens') /\ OldestFirst(tokens, tokens') /\ UNCHANGED root
  <2>. DEFINE n == tokens[t].replacedBy
  <2>1. /\ tokens[t].st = "row" /\ tokens'[t].replacedBy = n
        /\ tokens'[t].user = tokens[t].user
        /\ tokens'[t].expiresAt = tokens[t].expiresAt
    BY <1>2 DEF Weakened
  <2>2. /\ n \in TokenIds /\ tokens[n].st = "row"
        /\ tokens[n].user = tokens[t].user
        /\ tokens[n].expiresAt >= tokens[t].expiresAt
        /\ root[n] = root[t]
    BY <1>1, <2>1
  <2>. HIDE DEF n
  <2>3. tokens'[n].st = "row"
    BY <1>2, <2>1, <2>2 DEF OldestFirst
  <2>4. /\ tokens'[n].user = tokens[n].user
        /\ tokens'[n].expiresAt = tokens[n].expiresAt
    BY <1>2, <2>2, <2>3 DEF Weakened
  <2>. QED
    BY <1>2, <2>1, <2>2, <2>3, <2>4
<1>3. ASSUME NEW r \in Requests, RefreshRotate(r)
      PROVE  Follows(tokens', root', t)
  <2>1. PICK old \in TokenIds, new \in TokenIds :
          /\ old = req[r].token /\ old # new
          /\ Live(tokens, old) /\ tokens[new].st = "free"
          /\ tokens' = Rotate(tokens, old, new, req[r].expiresAt, now)
          /\ root' = [root EXCEPT ![new] = root[old]]
    BY <1>3, RotateStep
  <2>2. /\ tokens'[new].st = "row" /\ tokens'[new].user = tokens[old].user
        /\ tokens'[new].expiresAt = Stored(req[r].expiresAt)
        /\ tokens'[new].replacedBy = Null
        /\ tokens'[old].st = "row" /\ tokens'[old].user = tokens[old].user
        /\ tokens'[old].expiresAt = tokens[old].expiresAt
        /\ tokens'[old].replacedBy = new
        /\ \A s \in TokenIds \ {old, new} : tokens'[s] = tokens[s]
    BY <2>1, RotateEffect DEF TypeOK, Live
  <2>3. /\ root'[new] = root[old]
        /\ \A s \in TokenIds \ {new} : root'[s] = root[s]
    BY <2>1 DEF TypeOK
  <2>4. /\ tokens[old].expiresAt \in Nat /\ Stored(req[r].expiresAt) \in Nat
        /\ tokens[old].expiresAt <= Stored(req[r].expiresAt)
    BY <1>3, <2>1, StoredNat
    DEF NextInTime, RefreshRotate, At, Live, TypeOK, Row, Request
  <2>5. CASE t = old
    BY <2>1, <2>2, <2>3, <2>4, <2>5
  <2>6. CASE t # old
    <3>. DEFINE n == tokens[t].replacedBy
    <3>1. t # new /\ tokens'[t] = tokens[t]
      BY <2>2, <2>6
    <3>2. /\ n \in TokenIds /\ tokens[n].st = "row"
          /\ tokens[n].user = tokens[t].user
          /\ tokens[n].expiresAt >= tokens[t].expiresAt
          /\ root[n] = root[t]
      BY <1>1, <3>1
    <3>. HIDE DEF n
    <3>3. n # new
      BY <2>1, <3>2
    <3>4. /\ tokens'[n].st = "row" /\ tokens'[n].user = tokens[n].user
          /\ tokens'[n].expiresAt = tokens[n].expiresAt
      BY <2>2, <3>2, <3>3
    <3>5. root'[n] = root[n] /\ root'[t] = root[t]
      BY <2>3, <3>1, <3>2, <3>3
    <3>. QED
      BY <3>1, <3>2, <3>4, <3>5 DEF n
  <2>. QED
    BY <2>5, <2>6
<1>4. ASSUME NEW r \in Requests, IssueCreate(r)
      PROVE  Follows(tokens', root', t)
  <2>1. PICK new \in TokenIds :
          /\ tokens[new].st = "free"
          /\ tokens' = Create(tokens, new, req[r].user, req[r].service,
                             req[r].expiresAt)
          /\ root' = [root EXCEPT ![new] = new]
    BY <1>4, CreateStep
  <2>2. /\ tokens'[new].replacedBy = Null
        /\ \A s \in TokenIds \ {new} : tokens'[s] = tokens[s]
    BY <2>1, CreateEffect DEF TypeOK
  <2>3. \A s \in TokenIds \ {new} : root'[s] = root[s]
    BY <2>1 DEF TypeOK
  <2>4. t # new /\ tokens'[t] = tokens[t]
    BY <2>2
  <2>. QED
    BY <1>1, <2>1, <2>2, <2>3, <2>4
<1>. QED
  BY <1>2, <1>3, <1>4, TableStep

(* The whole invariant, of the first state and of every step.              *)
LEMMA PresentAlways == TokenSpec => []PresentInv
<1>1. Init => PresentInv
  <2>1. ASSUME Init
        PROVE  RowsInTime /\ NextInTime /\ HandlersHold /\ SuccessorPresent
    BY <2>1 DEF Init, RowsInTime, NextInTime, HandlersHold, SuccessorPresent,
       Idle, NoRow, TokenPcs
  <2>. QED
    BY <2>1, TypeInit DEF PresentInv
<1>2. PresentInv /\ [TokenStep]_vars => PresentInv'
  <2>1. PresentInv /\ [TokenStep]_vars => (TypeOK /\ HandlersBound)'
    BY TypeStep, BoundStep DEF PresentInv
  <2>. QED
    BY <2>1, RowsInTimeStep, NextInTimeStep, HandlersHoldStep, SuccessorStep
    DEF PresentInv
<1>. QED
  BY <1>1, <1>2, PTL DEF TokenSpec

(***************************************************************************)
(* A replaced row never outlasts the row it was replaced by, for any       *)
(* number of handlers, purges and prunes and whatever the rounding of the  *)
(* column (the transaction of rotate, and db/prune.ts).                    *)
(***************************************************************************)
THEOREM SuccessorStays == Spec => []SuccessorPresent
<1>1. PresentInv => SuccessorPresent
  BY DEF PresentInv
<1>. QED
  BY <1>1, AsTokens, PresentAlways, PTL

-----------------------------------------------------------------------------
(***************************************************************************)
(* What the grace is measured from. A row that was rotated carries its     *)
(* successor and a revocation at most half a second earlier than the       *)
(* rotation, whatever revoked it again since (Stamped); a handler about to *)
(* judge the row it read first read it after the rotation, or there was    *)
(* none (SawRotation).                                                     *)
(***************************************************************************)
Since(row, at) ==
  /\ row.replacedBy # Null /\ row.revokedAt # Null
  /\ 2 * at < 2 * row.revokedAt + Resolution

Stamped ==
  \A t \in TokenIds :
    /\ tokens[t].st = "free" => rotatedAt[t] = Null
    /\ rotatedAt[t] # Null =>
         /\ rotatedAt[t] <= now
         /\ tokens[t].st = "row" => Since(tokens[t], rotatedAt[t])

SawRotation(t, row) ==
  tokens[t].st = "row" /\ row.revokedAt # Null =>
    /\ tokens[t].revokedAt # Null
    /\ rotatedAt[t] # Null => Since(row, rotatedAt[t])

GraceInv ==
  /\ Stamped
  /\ \A r \in Requests : At(r, "service") => SawRotation(req[r].token, req[r].existing)

(* What is stored now stands for a time no later, to half a second.        *)
LEMMA StoredSince ==
  ASSUME NEW x \in Nat, NEW y \in Nat, y <= x
  PROVE  /\ Stored(x) \in Nat /\ Stored(x) # Null
         /\ 2 * y < 2 * Stored(x) + Resolution
BY StoreAssumption, StoredNearest, NullIsNoValue

(* The rows that stay are those of before, or are revoked now.             *)
Restamped(T, U) ==
  \A t \in TokenIds : U[t].st = "row" =>
    U[t].revokedAt \in {T[t].revokedAt, Stored(now)}

LEMMA RestampStep ==
  ASSUME TypeOK, HandlersBound, [TokenStep]_vars,
         \A r \in Requests : ~RefreshRotate(r) /\ ~IssueCreate(r)
  PROVE  Restamped(tokens, tokens') /\ UNCHANGED rotatedAt
<1>. DEFINE Goal == Restamped(tokens, tokens') /\ UNCHANGED rotatedAt
<1>. USE DEF env, hist
<1>1. UNCHANGED <<tokens, rotatedAt>> => Goal
  BY DEF Restamped
<1>2. ASSUME NEW u, tokens' = RevokeAllForUser(tokens, u, now)
      PROVE  Restamped(tokens, tokens')
  BY <1>2 DEF RevokeAllForUser, Restamped, TypeOK, Row
<1>3. ASSUME NEW t, tokens' = Revoke(tokens, t, now)
      PROVE  Restamped(tokens, tokens')
  BY <1>3 DEF Revoke, Restamped, TypeOK, Row
<1>4. ASSUME NEW u, NEW cutoff, \/ tokens' = DeleteAllForUser(tokens, u)
                                \/ tokens' = DeleteExpiredBefore(tokens, cutoff)
      PROVE  Restamped(tokens, tokens')
  BY <1>4 DEF DeleteAllForUser, DeleteExpiredBefore, Restamped, Gone, NoRow
<1>5. ASSUME NEW r \in Requests, Start(r) \/ CutShort(r) PROVE Goal
  BY <1>1, <1>5 DEF Start, RefreshStart, RevokeStart, IssueStart, CutShort
<1>6. ASSUME NEW r \in Requests, Continue(r) PROVE Goal
  <2>1. CASE RevokeFamily(r)
    BY <1>2, <2>1 DEF RevokeFamily
  <2>2. CASE RevokeRow(r)
    BY <1>3, <2>2 DEF RevokeRow
  <2>. QED
    BY <1>1, <1>6, <2>1, <2>2
    DEF Continue, RefreshRefuse, RefreshDetectReuse, RefreshAccept,
        RefreshSubject, RefreshMember, RefreshLoseRace, RefreshReread,
        IssueSubject, IssueMember
<1>7. CASE World
  <2>1. CASE PruneExpired
    BY <1>4, <2>1 DEF PruneExpired
  <2>2. ASSUME NEW u \in Users, FamilyRevoked(u) PROVE Goal
    BY <1>2, <2>2 DEF FamilyRevoked
  <2>3. ASSUME NEW u \in Users, PurgeTokens(u) PROVE Goal
    BY <1>4, <2>3 DEF PurgeTokens
  <2>4. CASE Tick
    BY <1>1, <2>4 DEF Tick
  <2>5. ASSUME NEW u \in Users, NEW e \in EmailStates,
               SoftDelete(u) \/ SetEmail(u, e)
        PROVE  Goal
    BY <1>1, <2>5 DEF SoftDelete, SetEmail
  <2>6. ASSUME NEW u \in Users, SoftDelete(u) PROVE Goal
    BY <1>1, <2>6 DEF SoftDelete
  <2>7. ASSUME NEW u \in Users, NEW o \in Orgs,
               AddMember(u, o) \/ RemoveMember(u, o)
        PROVE  Goal
    BY <1>1, <2>7 DEF AddMember, RemoveMember
  <2>. HIDE DEF Goal
  <2>. QED
    BY <1>7, <2>1, <2>2, <2>3, <2>4, <2>5, <2>6, <2>7
    DEF World, Environment, PasswordChanged, FamilyRevoked, Goal
<1>8. CASE UNCHANGED vars
  BY <1>1, <1>8 DEF vars
<1>. QED
  BY <1>5, <1>6, <1>7, <1>8 DEF TokenStep, World, Next

(* The clock and the stamps after any step.                                *)
LEMMA StampedStep ==
  ASSUME TypeOK, HandlersBound, Stamped, [TokenStep]_vars PROVE Stamped'
<1>1. now \in Nat /\ now' \in Nat /\ now <= now'
  BY ClockForward DEF TypeOK
<1>2. /\ tokens \in [TokenIds -> Row]
      /\ rotatedAt \in [TokenIds -> Nat \cup {Null}]
  BY DEF TypeOK
<1>3. /\ Stored(now) # Null /\ Stored(now) \in Nat
      /\ \A at \in Nat : at <= now => 2 * at < 2 * Stored(now) + Resolution
  BY <1>1, StoredSince
<1>4. ASSUME NEW r \in Requests, RefreshRotate(r) PROVE Stamped'
  <2>1. PICK old, new \in TokenIds :
          /\ old = req[r].token /\ old # new
          /\ Live(tokens, old) /\ tokens[new].st = "free"
          /\ tokens' = Rotate(tokens, old, new, req[r].expiresAt, now)
    BY <1>4, RotateStep
  <2>2. rotatedAt' = [rotatedAt EXCEPT ![old] = now] /\ now' = now
    BY <1>4, <2>1 DEF RefreshRotate, env
  <2>3. /\ tokens'[new].st = "row"
        /\ tokens'[old].st = "row"
        /\ tokens'[old].revokedAt = Stored(now) /\ tokens'[old].replacedBy = new
        /\ \A t \in TokenIds \ {old, new} : tokens'[t] = tokens[t]
    BY <1>2, <2>1, RotateEffect DEF Live
  <2>4. rotatedAt[new] = Null /\ new # Null
    BY <2>1, NullIsNoValue DEF Stamped
  <2>5. ASSUME NEW t \in TokenIds
        PROVE  /\ tokens'[t].st = "free" => rotatedAt'[t] = Null
               /\ rotatedAt'[t] # Null =>
                    /\ rotatedAt'[t] <= now'
                    /\ tokens'[t].st = "row" => Since(tokens'[t], rotatedAt'[t])
    <3>1. CASE t = old
      BY <1>1, <1>2, <1>3, <2>2, <2>3, <2>4, <3>1 DEF Since
    <3>2. CASE t = new
      BY <1>2, <2>1, <2>2, <2>3, <2>4, <3>2
    <3>3. CASE t \notin {old, new}
      BY <1>2, <2>2, <2>3, <3>3 DEF Stamped
    <3>. QED
      BY <3>1, <3>2, <3>3
  <2>. QED
    BY <2>5 DEF Stamped, Since
<1>5. ASSUME NEW r \in Requests, IssueCreate(r) PROVE Stamped'
  <2>1. PICK new \in TokenIds :
          /\ tokens[new].st = "free"
          /\ tokens' = Create(tokens, new, req[r].user, req[r].service,
                             req[r].expiresAt)
    BY <1>5, CreateStep
  <2>2. rotatedAt' = rotatedAt /\ now' = now
    BY <1>5 DEF IssueCreate, env
  <2>3. /\ tokens'[new].st = "row"
        /\ \A t \in TokenIds \ {new} : tokens'[t] = tokens[t]
    BY <1>2, <2>1, CreateEffect
  <2>. QED
    BY <2>1, <2>2, <2>3 DEF Stamped, Since
<1>6. ASSUME \A r \in Requests : ~RefreshRotate(r) /\ ~IssueCreate(r)
      PROVE  Stamped'
  <2>1. Restamped(tokens, tokens') /\ rotatedAt' = rotatedAt
    BY <1>6, RestampStep
  <2>2. Weakened(tokens, tokens')
    BY <1>6, TableStep
  <2>3. ASSUME NEW t \in TokenIds, rotatedAt[t] # Null
        PROVE  /\ rotatedAt[t] <= now'
               /\ tokens'[t].st = "row" => Since(tokens'[t], rotatedAt[t])
    <3>1. rotatedAt[t] \in Nat /\ rotatedAt[t] <= now
      BY <1>2, <2>3 DEF Stamped
    <3>2. ASSUME tokens'[t].st = "row" PROVE Since(tokens'[t], rotatedAt[t])
      <4>1. /\ Since(tokens[t], rotatedAt[t])
            /\ tokens'[t].replacedBy = tokens[t].replacedBy
            /\ tokens'[t].revokedAt \in {tokens[t].revokedAt, Stored(now)}
        BY <2>1, <2>2, <2>3, <3>2 DEF Stamped, Weakened, Restamped
      <4>. QED
        BY <1>1, <1>3, <3>1, <4>1 DEF Since
    <3>. QED
      BY <1>1, <3>1, <3>2
  <2>4. \A t \in TokenIds : tokens'[t].st = "free" => rotatedAt[t] = Null
    BY <2>2 DEF Stamped, Weakened
  <2>. QED
    BY <2>1, <2>3, <2>4 DEF Stamped, Since
<1>. QED
  BY <1>4, <1>5, <1>6

(* A row that a handler read is judged by a rotation that it saw.          *)
LEMMA SawRotationStep ==
  ASSUME PresentInv, GraceInv, [TokenStep]_vars, NEW q \in Requests,
         req'[q].pc = "service"
  PROVE  SawRotation(req[q].token, req[q].existing)'
<1>. USE DEF PresentInv
<1>1. CASE Begins(q)
  <2>1. /\ req'[q].token \in TokenIds
        /\ tokens[req'[q].token].st = "row"
        /\ req'[q].existing = tokens[req'[q].token] /\ tokens' = tokens
    BY <1>1 DEF Begins
  <2>2. Stamped'
    BY StampedStep DEF GraceInv
  <2>. QED
    BY <2>1, <2>2 DEF Stamped, SawRotation, Since
<1>2. CASE SameStatement(q)
  <2>. DEFINE t == req[q].token
              row == req[q].existing
  <2>1. /\ req'[q].token = t /\ req'[q].existing = row
        /\ t \in TokenIds /\ tokens[t].st # "free"
        /\ SawRotation(t, row)
    BY <1>2 DEF SameStatement, SameWork, HandlersBound, HandlersHold, GraceInv,
       At, TokenPcs
  <2>. HIDE DEF t, row
  <2>2. ASSUME tokens'[t].st = "row", row.revokedAt # Null
        PROVE  /\ tokens'[t].revokedAt # Null
               /\ rotatedAt'[t] # Null => Since(row, rotatedAt'[t])
    <3>1. tokens[t].st = "row"
      BY <2>1, <2>2, RowsKept
    <3>2. /\ tokens[t].revokedAt # Null
          /\ rotatedAt[t] # Null => Since(row, rotatedAt[t])
      BY <2>1, <2>2, <3>1 DEF SawRotation
    <3>3. ASSUME NEW r \in Requests, RefreshRotate(r)
          PROVE  tokens'[t] = tokens[t] /\ rotatedAt'[t] = rotatedAt[t]
      <4>1. PICK old, new \in TokenIds :
              /\ old = req[r].token /\ old # new
              /\ Live(tokens, old) /\ tokens[new].st = "free"
              /\ tokens' = Rotate(tokens, old, new, req[r].expiresAt, now)
        BY <3>3, RotateStep
      <4>2. t # old /\ t # new
        BY <3>1, <3>2, <4>1 DEF Live
      <4>3. rotatedAt' = [rotatedAt EXCEPT ![old] = now]
        BY <3>3, <4>1 DEF RefreshRotate
      <4>. QED
        BY <2>1, <4>1, <4>2, <4>3, RotateEffect DEF TypeOK
    <3>4. ASSUME NEW r \in Requests, IssueCreate(r)
          PROVE  tokens'[t] = tokens[t] /\ rotatedAt'[t] = rotatedAt[t]
      <4>1. PICK new \in TokenIds :
              /\ tokens[new].st = "free"
              /\ tokens' = Create(tokens, new, req[r].user, req[r].service,
                                 req[r].expiresAt)
        BY <3>4, CreateStep
      <4>. QED
        BY <2>1, <3>1, <3>4, <4>1, CreateEffect DEF TypeOK, IssueCreate
    <3>5. ASSUME \A r \in Requests : ~RefreshRotate(r) /\ ~IssueCreate(r)
          PROVE  tokens'[t].revokedAt # Null /\ rotatedAt'[t] = rotatedAt[t]
      <4>1. Weakened(tokens, tokens') /\ rotatedAt' = rotatedAt
        BY <3>5, RestampStep, TableStep
      <4>. QED
        BY <2>1, <2>2, <3>2, <4>1 DEF Weakened
    <3>. QED
      BY <3>2, <3>3, <3>4, <3>5
  <2>. QED
    BY <2>1, <2>2 DEF SawRotation, Since
<1>. QED
  BY <1>1, <1>2, HandlerMoves DEF Moves, MovesOn

(* A handler that recognised a replay found no rotation within the grace.  *)
LEMMA ReplayIsOld ==
  ASSUME PresentInv, GraceInv, NEW r \in Requests, SeenAsReplay(r),
         tokens[req[r].token].st = "row", rotatedAt[req[r].token] # Null
  PROVE  2 * (now - rotatedAt[req[r].token]) + Resolution > 2 * Grace
<1>. DEFINE t == req[r].token
<1>1. t \in TokenIds
  BY DEF SeenAsReplay, PresentInv, HandlersBound, TokenPcs
<1>2. /\ now \in Nat /\ rotatedAt[t] \in Nat /\ rotatedAt[t] <= now
      /\ Grace \in Nat /\ Resolution \in Nat \ {0}
  BY <1>1, RefreshAssumption, StoreAssumption
     DEF PresentInv, TypeOK, GraceInv, Stamped
<1>3. ASSUME NEW row \in Row, Since(row, rotatedAt[t]), ~JustRotated(row, now)
      PROVE  2 * (now - rotatedAt[t]) + Resolution > 2 * Grace
  <2>1. /\ row.revokedAt \in Nat /\ row.replacedBy # Null
        /\ 2 * rotatedAt[t] < 2 * row.revokedAt + Resolution
    BY <1>3 DEF Since, Row
  <2>2. Grace = 0 \/ now - row.revokedAt >= Grace
    BY <1>2, <1>3, <2>1 DEF JustRotated, Since
  <2>. QED
    BY <1>2, <2>1, <2>2
<1>4. CASE At(r, "service") /\ ~JustRotated(req[r].existing, now)
           /\ req[r].existing.revokedAt # Null
  <2>1. Since(req[r].existing, rotatedAt[t]) /\ req[r].existing \in Row
    BY <1>4 DEF GraceInv, SawRotation, PresentInv, TypeOK, Request
  <2>. QED
    BY <1>3, <1>4, <2>1
<1>5. CASE ~JustRotated(tokens[t], now)
  <2>1. Since(tokens[t], rotatedAt[t]) /\ tokens[t] \in Row
    BY <1>1 DEF GraceInv, Stamped, PresentInv, TypeOK
  <2>. QED
    BY <1>3, <1>5, <2>1
<1>. QED
  BY <1>4, <1>5 DEF SeenAsReplay, At

(* Races are forgiven, whenever families are revoked.                      *)
LEMMA RaceAlways == TokenSpec => RaceWithinGraceIsForgiven
<1>. DEFINE A == \A r \in Requests :
              ~At(r, "family") /\ At(r, "family")' =>
                LET t == req[r].token
                IN \/ tokens[t].st # "row"
                   \/ rotatedAt[t] = Null
                   \/ 2 * (now - rotatedAt[t]) + Resolution > 2 * Grace
<1>1. Init => GraceInv
  BY DEF Init, GraceInv, Stamped, SawRotation, NoRow, Idle, At
<1>2. PresentInv /\ GraceInv /\ [TokenStep]_vars => GraceInv'
  <2>1. ASSUME PresentInv, GraceInv, [TokenStep]_vars PROVE Stamped'
    BY <2>1, StampedStep DEF PresentInv, GraceInv
  <2>2. ASSUME PresentInv, GraceInv, [TokenStep]_vars, NEW r \in Requests,
               At(r, "service")'
        PROVE  SawRotation(req[r].token, req[r].existing)'
    BY <2>2, SawRotationStep DEF At
  <2>. QED
    BY <2>1, <2>2 DEF GraceInv
<1>3. PresentInv /\ GraceInv /\ [TokenStep]_vars => A
  <2>1. ASSUME PresentInv, GraceInv, [TokenStep]_vars, NEW r \in Requests,
               ~At(r, "family"), At(r, "family")'
        PROVE  SeenAsReplay(r)
    BY <2>1, HandlerMoves
    DEF PresentInv, Moves, SameStatement, Begins, MovesOn, At
  <2>. QED
    BY <2>1, ReplayIsOld
<1>4. PresentInv /\ GraceInv /\ [TokenStep]_vars => [A]_vars
  BY <1>3
<1>. QED
  BY <1>1, <1>2, <1>4, PresentAlways, PTL DEF TokenSpec, RaceWithinGraceIsForgiven

(***************************************************************************)
(* Two tabs refreshing at once do not sign the user out, whatever the      *)
(* grace, the resolution of the clock and the revocations in between       *)
(* (justRotated, at both of its places). revoked_at rounds to the nearest  *)
(* second, so half a second of the grace is not promised.                  *)
(***************************************************************************)
THEOREM RaceForgiven == Spec => RaceWithinGraceIsForgiven
BY RaceAlways, AsTokens, PTL

-----------------------------------------------------------------------------
(***************************************************************************)
(* PART TWO: CodeExchange.                                                 *)
(***************************************************************************)

-----------------------------------------------------------------------------
(***************************************************************************)
(* Type correctness. A code that was read belongs to a user and a service. *)
(***************************************************************************)
CodesBound ==
  /\ \A k \in CodeIds : codes[k].st = "row" =>
       codes[k].user \in Users /\ codes[k].service \in Services
  /\ \A r \in Requests : xreq[r].pc # "idle" =>
       /\ xreq[r].code \in CodeIds
       /\ xreq[r].existing.user \in Users
       /\ xreq[r].existing.service \in Services

XTypes ==
  /\ codes \in [CodeIds -> Code]
  /\ xreq \in [Requests -> Exchange]
  /\ minted \in [CodeIds -> SUBSET TokenIds]

(* The steps of RefreshTokens that CodeExchange takes are its own.         *)
LEMMA OwnSteps ==
  /\ UNCHANGED vars => [Next]_vars
  /\ \A r \in Requests : Continue(r) \/ CutShort(r) => Next
  /\ \A r \in Requests, t \in TokenIds, client \in Clients :
       RefreshStart(r, t, client) => Next
  /\ Environment => Next
BY DEF Next, Start

(* Step changes the exchange of one handler, and what it knows stays.      *)
LEMMA StepEffect ==
  ASSUME XTypes, NEW r \in Requests, NEW from,
         NEW to \in {"idle", "service", "family", "consume", "issuing"},
         Step(r, from, to)
  PROVE  /\ xreq[r].pc = from
         /\ xreq' \in [Requests -> Exchange]
         /\ xreq'[r].pc = to
         /\ to # "idle" => /\ xreq'[r].code = xreq[r].code
                           /\ xreq'[r].proof = xreq[r].proof
                           /\ xreq'[r].existing = xreq[r].existing
         /\ \A q \in Requests \ {r} : xreq'[q] = xreq[q]
<1>1. NoExchange \in Exchange /\ NoExchange.pc = "idle"
  BY DEF NoExchange, Exchange, NoCode, Code
<1>2. xreq[r] \in Exchange
  BY DEF XTypes
<1>3. [xreq[r] EXCEPT !.pc = to] \in Exchange
  BY <1>2 DEF Exchange
<1>4. /\ xreq[r].pc = from
      /\ xreq' = [xreq EXCEPT ![r] = IF to = "idle" THEN NoExchange
                                     ELSE [xreq[r] EXCEPT !.pc = to]]
  BY <1>2 DEF Step, XTypes
<1>5. xreq' \in [Requests -> Exchange]
  BY <1>1, <1>3, <1>4 DEF XTypes
<1>6. \A q \in Requests \ {r} : xreq'[q] = xreq[q]
  BY <1>4 DEF XTypes
<1>7. xreq'[r] = IF to = "idle" THEN NoExchange ELSE [xreq[r] EXCEPT !.pc = to]
  BY <1>4 DEF XTypes
<1>. HIDE DEF NoExchange
<1>. QED
  BY <1>1, <1>2, <1>4, <1>5, <1>6, <1>7 DEF Exchange

(* In a new system no code was issued and no exchange is under way.        *)
LEMMA XTypeInit == XInit => XTypes /\ CodesBound
BY DEF XInit, XTypes, CodesBound, NoCode, Code, NoExchange, Exchange

(* Every step is one of RefreshTokens, wins a code or revokes a family.    *)
LEMMA BaseCases ==
  ASSUME [XNext]_xvars
  PROVE  \/ [Next]_vars
         \/ \E r \in Requests : ExchangeConsume(r)
         \/ \E r \in Requests : ExchangeRevokeFamily(r)
<1>1. CASE \/ \E k \in CodeIds, u \in Users, s \in Services :
                IssueAuthorizationCode(k, u, s)
           \/ \E r \in Requests, k \in CodeIds, proof \in Proof :
                ExchangeStart(r, k, proof)
           \/ \E r \in Requests : \/ ExchangeJudge(r) \/ ExchangeLoseRace(r)
                                  \/ ExchangeCutShort(r)
           \/ \E u \in Users : PurgeCodes(u)
           \/ PruneCodes
           \/ UNCHANGED xvars
  <2>1. UNCHANGED vars
    BY <1>1 DEF IssueAuthorizationCode, ExchangeStart, ExchangeJudge,
       ExchangeLoseRace, ExchangeCutShort, PurgeCodes, PruneCodes, xvars
  <2>. QED
    BY <2>1
<1>2. CASE \/ \E r \in Requests, t \in TokenIds, client \in Clients :
                RefreshStart(r, t, client)
           \/ \E r \in Requests : HandlerStep(r)
           \/ Environment
  BY <1>2, OwnSteps DEF HandlerStep
<1>. QED
  BY <1>1, <1>2 DEF XNext, ExchangeStep

(* Every step keeps RefreshTokens' own state well-typed and bound.         *)
LEMMA BaseStep ==
  ASSUME TypeOK, HandlersBound, XTypes, CodesBound, [XNext]_xvars
  PROVE  (TypeOK /\ HandlersBound)'
<1>. USE DEF env, hist
<1>1. CASE [Next]_vars
  BY <1>1, TypeStep, BoundStep DEF TokenStep
<1>2. ASSUME NEW r \in Requests, ExchangeConsume(r)
      PROVE  (TypeOK /\ HandlersBound)'
  <2>. DEFINE u == xreq[r].existing.user
              s == xreq[r].existing.service
  <2>1. u \in Users /\ s \in Services
    BY <1>2 DEF ExchangeConsume, Step, CodesBound
  <2>2. /\ req' = [req EXCEPT ![r] =
                     Begun("issueSubject", Null, NoClient, NoRow, u, s)]
        /\ UNCHANGED <<now, users, members, tokens, root, rotatedAt>>
    BY <1>2 DEF ExchangeConsume
  <2>. HIDE DEF u, s
  <2>3. req' \in [Requests -> Request]
    BY <2>1, <2>2, ClientType, IdleType, BegunType DEF Pcs
  <2>4. /\ req'[r].pc = "issueSubject" /\ req'[r].token = Null
        /\ req'[r].user = u /\ req'[r].service = s
        /\ req'[r].client = NoClient
        /\ req'[r].saw = OpenNow(u, s) /\ Others(r)
    BY <2>2, BegunEffect
  <2>5. TypeOK'
    BY <2>2, <2>3 DEF TypeOK
  <2>6. HandlersBound'
    BY <2>1, <2>2, <2>4 DEF HandlersBound, Others, At, TokenPcs
  <2>. QED
    BY <2>5, <2>6
<1>3. ASSUME NEW r \in Requests, ExchangeRevokeFamily(r)
      PROVE  (TypeOK /\ HandlersBound)'
  <2>1. /\ tokens' = RevokeAllForUser(tokens, xreq[r].existing.user, now)
        /\ UNCHANGED <<now, users, members, req, root, rotatedAt>>
    BY <1>3 DEF ExchangeRevokeFamily
  <2>2. tokens' \in [TokenIds -> Row] /\ Weakened(tokens, tokens')
    BY <2>1, RevokeAllType, RevokeWeakens DEF TypeOK
  <2>3. TypeOK'
    BY <2>1, <2>2 DEF TypeOK
  <2>4. HandlersBound'
    BY <2>1, <2>2 DEF HandlersBound, Weakened, At
  <2>. QED
    BY <2>3, <2>4
<1>. QED
  BY <1>1, <1>2, <1>3, BaseCases

-----------------------------------------------------------------------------
(***************************************************************************)
(* What a step does to one exchange.                                       *)
(***************************************************************************)
Kept(q) ==
  /\ xreq'[q].code = xreq[q].code
  /\ xreq'[q].proof = xreq[q].proof
  /\ xreq'[q].existing = xreq[q].existing

Reads(q) ==
  /\ UNCHANGED codes
  /\ xreq'[q].pc = "service"
  /\ xreq'[q].code \in CodeIds /\ codes[xreq'[q].code].st = "row"
  /\ xreq'[q].existing = codes[xreq'[q].code]

Judges(q) ==
  /\ UNCHANGED codes
  /\ Kept(q)
  /\ \/ xreq[q].pc = "service" /\ xreq'[q].pc = "family"
     \/ /\ xreq[q].pc = "service" /\ xreq'[q].pc = "consume"
        /\ RightClient(q) /\ ProofOk(q)
     \/ xreq[q].pc = "consume" /\ xreq'[q].pc = "family"

Wins(q) ==
  /\ ExchangeConsume(q)
  /\ Kept(q)
  /\ xreq[q].pc = "consume" /\ xreq'[q].pc = "issuing"

XMoves(q) ==
  /\ xreq' \in [Requests -> Exchange]
  /\ \/ xreq'[q] = xreq[q]
     \/ xreq'[q].pc = "idle"
     \/ Reads(q)
     \/ Judges(q)
     \/ Wins(q)

(* Every step moves every exchange along one of these ways.                *)
LEMMA ExchangeMoves ==
  ASSUME XTypes, [XNext]_xvars, NEW q \in Requests
  PROVE  XMoves(q)
<1>0. NoExchange \in Exchange /\ NoExchange.pc = "idle"
  BY DEF NoExchange, Exchange, NoCode, Code
<1>1. UNCHANGED xreq => XMoves(q)
  BY DEF XMoves, XTypes
<1>2. ASSUME NEW r \in Requests, NEW k \in CodeIds, NEW proof \in Proof,
             ExchangeStart(r, k, proof)
      PROVE  XMoves(q)
  <2>. DEFINE next == [pc |-> "service", code |-> k, proof |-> proof,
                       existing |-> codes[k]]
  <2>1. next \in Exchange
    BY DEF Exchange, XTypes
  <2>2. xreq' = [xreq EXCEPT ![r] = next] /\ codes[k].st = "row" /\ UNCHANGED codes
    BY <1>2 DEF ExchangeStart
  <2>3. xreq'[r] = next /\ \A p \in Requests \ {r} : xreq'[p] = xreq[p]
    BY <2>2 DEF XTypes
  <2>4. Reads(r)
    BY <2>2, <2>3 DEF Reads
  <2>. HIDE DEF next
  <2>. QED
    BY <2>1, <2>2, <2>3, <2>4 DEF XMoves, XTypes
<1>3. ASSUME NEW r \in Requests, NEW from,
             NEW to \in {"idle", "service", "family", "consume", "issuing"},
             Step(r, from, to),
             to = "idle" \/ (Kept(r) => Judges(r) \/ Wins(r))
      PROVE  XMoves(q)
  <2>1. /\ xreq' \in [Requests -> Exchange]
        /\ xreq'[r].pc = to
        /\ to # "idle" => Kept(r)
        /\ \A p \in Requests \ {r} : xreq'[p] = xreq[p]
    BY <1>3, StepEffect DEF Kept
  <2>. QED
    BY <1>3, <2>1 DEF XMoves
<1>4. ASSUME NEW r \in Requests, ExchangeJudge(r) PROVE XMoves(q)
  <2>1. CASE RightClient(r) /\ Step(r, "service", "family")
    BY <1>3, <1>4, <2>1, StepEffect DEF ExchangeJudge, Judges
  <2>2. CASE RightClient(r) /\ ProofOk(r) /\ Step(r, "service", "consume")
    BY <1>3, <1>4, <2>2, StepEffect DEF ExchangeJudge, Judges
  <2>3. CASE Step(r, "service", "idle")
    BY <1>3, <2>3
  <2>. QED
    BY <1>4, <2>1, <2>2, <2>3 DEF ExchangeJudge
<1>5. ASSUME NEW r \in Requests, ExchangeConsume(r) PROVE XMoves(q)
  BY <1>3, <1>5, StepEffect DEF ExchangeConsume, Wins
<1>6. ASSUME NEW r \in Requests, ExchangeLoseRace(r) PROVE XMoves(q)
  BY <1>3, <1>6, StepEffect DEF ExchangeLoseRace, Judges
<1>7. ASSUME NEW r \in Requests, ExchangeRevokeFamily(r) PROVE XMoves(q)
  BY <1>3, <1>7 DEF ExchangeRevokeFamily
<1>8. ASSUME NEW r \in Requests, ExchangeCutShort(r) \/ HandlerStep(r) PROVE XMoves(q)
  <2>1. xreq' = [xreq EXCEPT ![r] = NoExchange] \/ xreq' = xreq
    BY <1>8 DEF ExchangeCutShort, HandlerStep, XTypes
  <2>. HIDE DEF NoExchange
  <2>. QED
    BY <1>0, <1>1, <2>1 DEF XMoves, XTypes
<1>9. CASE \/ \E k \in CodeIds, u \in Users, s \in Services :
                IssueAuthorizationCode(k, u, s)
           \/ \E u \in Users : PurgeCodes(u)
           \/ PruneCodes
           \/ \E r \in Requests, t \in TokenIds, client \in Clients :
                RefreshStart(r, t, client) /\ UNCHANGED codeVars
           \/ Environment /\ UNCHANGED codeVars
           \/ UNCHANGED xvars
  <2>1. UNCHANGED xreq
    BY <1>9 DEF IssueAuthorizationCode, PurgeCodes, PruneCodes, codeVars, xvars
  <2>. QED
    BY <1>1, <2>1
<1>10. CASE \E r \in Requests : ExchangeStep(r)
  BY <1>4, <1>5, <1>6, <1>7, <1>10 DEF ExchangeStep
<1>. QED
  BY <1>2, <1>8, <1>9, <1>10 DEF XNext

-----------------------------------------------------------------------------
(***************************************************************************)
(* What a step does to one code: it is issued, deleted, or consumed by the *)
(* handler that wins it. Its user and service stay.                        *)
(***************************************************************************)
Issued(k) ==
  /\ codes[k].st = "free" /\ codes'[k].st = "row" /\ ~codes'[k].consumed
  /\ codes'[k].user \in Users /\ codes'[k].service \in Services

Deleted(k) ==
  /\ codes[k].st # "free"
  /\ codes'[k] = [NoCode EXCEPT !.st = "deleted"]

Won(k) ==
  /\ \E r \in Requests : ExchangeConsume(r) /\ xreq[r].code = k
  /\ codes[k].st = "row" /\ ~codes[k].consumed
  /\ codes'[k] = [codes[k] EXCEPT !.consumed = TRUE]

CodeMoves(k) ==
  codes'[k] = codes[k] \/ Issued(k) \/ Deleted(k) \/ Won(k)

(* Only rows have a user, so a purge deletes rows alone.                   *)
RowsOwned ==
  \A k \in CodeIds : codes[k].st = "free" => codes[k].user = Null

(* Every step moves every code along one of these ways.                    *)
LEMMA CodesMove ==
  ASSUME TypeOK, XTypes, CodesBound, RowsOwned, [XNext]_xvars
  PROVE  codes' \in [CodeIds -> Code] /\ \A k \in CodeIds : CodeMoves(k)
<1>0. [NoCode EXCEPT !.st = "deleted"] \in Code
  BY DEF NoCode, Code
<1>1. CASE UNCHANGED codes
  BY <1>1 DEF CodeMoves, XTypes
<1>2. ASSUME NEW j \in CodeIds, NEW u \in Users, NEW s \in Services,
             IssueAuthorizationCode(j, u, s)
      PROVE  codes' \in [CodeIds -> Code] /\ \A k \in CodeIds : CodeMoves(k)
  <2>. DEFINE row == [st |-> "row", user |-> u, service |-> s,
                      expiresAt |-> Stored(now + CodeTTL), consumed |-> FALSE]
  <2>1. now + CodeTTL \in Nat
    BY CodeAssumption DEF TypeOK
  <2>2. row \in Code
    BY <2>1, StoredNat DEF Code
  <2>3. codes[j].st = "free" /\ codes' = [codes EXCEPT ![j] = row]
    BY <1>2 DEF IssueAuthorizationCode
  <2>4. row.st = "row" /\ ~row.consumed /\ row.user = u /\ row.service = s
    OBVIOUS
  <2>. HIDE DEF row
  <2>. QED
    BY <2>2, <2>3, <2>4 DEF CodeMoves, Issued, XTypes
<1>3. ASSUME NEW r \in Requests, ExchangeConsume(r)
      PROVE  codes' \in [CodeIds -> Code] /\ \A k \in CodeIds : CodeMoves(k)
  <2>. DEFINE j == xreq[r].code
              row == [codes[j] EXCEPT !.consumed = TRUE]
  <2>1. j \in CodeIds
    BY <1>3 DEF ExchangeConsume, Step, CodesBound
  <2>2. codes[j] \in Code /\ codes[j].st = "row" /\ ~codes[j].consumed
    BY <1>3, <2>1 DEF ExchangeConsume, ConsumeWins, CodeRow, XTypes
  <2>3. row \in Code
    BY <2>2 DEF Code
  <2>4. codes' = [codes EXCEPT ![j] = row]
    BY <1>3, <2>1, <2>2 DEF ExchangeConsume, XTypes, Code
  <2>5. codes'[j] = row /\ \A k \in CodeIds \ {j} : codes'[k] = codes[k]
    BY <2>1, <2>4 DEF XTypes
  <2>6. Won(j)
    BY <1>3, <2>2, <2>5 DEF Won
  <2>. HIDE DEF j, row
  <2>. QED
    BY <2>3, <2>4, <2>5, <2>6 DEF CodeMoves, XTypes
<1>4. ASSUME NEW u \in Users, PurgeCodes(u)
      PROVE  codes' \in [CodeIds -> Code] /\ \A k \in CodeIds : CodeMoves(k)
  <2>. DEFINE gone == [NoCode EXCEPT !.st = "deleted"]
  <2>1. codes' = [k \in CodeIds |-> IF codes[k].user = u THEN gone ELSE codes[k]]
    BY <1>4 DEF PurgeCodes
  <2>2. ASSUME NEW k \in CodeIds, codes[k].user = u PROVE codes[k].st # "free"
    BY <2>2, NullIsNoValue DEF RowsOwned
  <2>3. \A k \in CodeIds : codes'[k] = codes[k] \/ Deleted(k)
    BY <2>1, <2>2 DEF Deleted
  <2>. HIDE DEF gone
  <2>. QED
    BY <1>0, <2>1, <2>3 DEF CodeMoves, XTypes, gone
<1>5. CASE PruneCodes
  <2>. DEFINE gone == [NoCode EXCEPT !.st = "deleted"]
  <2>1. codes' = [k \in CodeIds |->
                    IF codes[k].st = "row" /\ codes[k].expiresAt < now - Retention
                      THEN gone ELSE codes[k]]
    BY <1>5 DEF PruneCodes
  <2>2. \A k \in CodeIds : codes'[k] = codes[k] \/ Deleted(k)
    BY <2>1 DEF Deleted
  <2>. HIDE DEF gone
  <2>. QED
    BY <1>0, <2>1, <2>2 DEF CodeMoves, XTypes, gone
<1>6. CASE \/ \E r \in Requests, k \in CodeIds, proof \in Proof :
                ExchangeStart(r, k, proof)
           \/ \E r \in Requests, t \in TokenIds, client \in Clients :
                RefreshStart(r, t, client) /\ UNCHANGED codeVars
           \/ \E r \in Requests :
                \/ ExchangeJudge(r) \/ ExchangeLoseRace(r)
                \/ ExchangeRevokeFamily(r) \/ ExchangeCutShort(r)
                \/ HandlerStep(r)
           \/ Environment /\ UNCHANGED codeVars
           \/ UNCHANGED xvars
  <2>1. UNCHANGED codes
    BY <1>6 DEF ExchangeStart, ExchangeJudge, ExchangeLoseRace,
       ExchangeRevokeFamily, ExchangeCutShort, HandlerStep, codeVars, xvars
  <2>. QED
    BY <1>1, <2>1
<1>. QED
  BY <1>2, <1>3, <1>4, <1>5, <1>6 DEF XNext, ExchangeStep

(* Every step keeps what codes and exchanges are bound to.                 *)
LEMMA XBoundStep ==
  ASSUME TypeOK, XTypes, CodesBound, RowsOwned, [XNext]_xvars
  PROVE  (CodesBound /\ RowsOwned)'
<1>1. ASSUME NEW k \in CodeIds
      PROVE  /\ codes'[k].st = "row" =>
                  codes'[k].user \in Users /\ codes'[k].service \in Services
             /\ codes'[k].st = "free" => codes'[k].user = Null
  <2>1. CodeMoves(k) /\ codes[k] \in Code
    BY CodesMove DEF XTypes
  <2>2. CASE codes'[k] = codes[k]
    BY <2>2 DEF CodesBound, RowsOwned
  <2>3. CASE Issued(k)
    BY <2>3 DEF Issued
  <2>4. CASE Deleted(k)
    BY <2>4 DEF Deleted, NoCode
  <2>5. CASE Won(k)
    BY <2>1, <2>5 DEF Won, CodesBound, Code
  <2>. QED
    BY <2>1, <2>2, <2>3, <2>4, <2>5 DEF CodeMoves
<1>2. ASSUME NEW q \in Requests, xreq'[q].pc # "idle"
      PROVE  /\ xreq'[q].code \in CodeIds
             /\ xreq'[q].existing.user \in Users
             /\ xreq'[q].existing.service \in Services
  <2>1. CASE xreq'[q] = xreq[q]
    BY <1>2, <2>1 DEF CodesBound
  <2>2. CASE Reads(q)
    BY <2>2 DEF Reads, CodesBound
  <2>3. CASE Judges(q) \/ Wins(q)
    BY <2>3 DEF Judges, Wins, Kept, CodesBound
  <2>. QED
    BY <1>2, <2>1, <2>2, <2>3, ExchangeMoves DEF XMoves
<1>. QED
  BY <1>1, <1>2 DEF CodesBound, RowsOwned

(* minted stays a set of tokens for every code.                            *)
LEMMA MintedType ==
  ASSUME XTypes, CodesBound, [XNext]_xvars
  PROVE  minted' \in [CodeIds -> SUBSET TokenIds]
<1>1. ASSUME NEW r \in Requests, HandlerStep(r)
      PROVE  minted' \in [CodeIds -> SUBSET TokenIds]
  BY <1>1 DEF HandlerStep, XTypes
<1>2. CASE UNCHANGED minted
  BY <1>2 DEF XTypes
<1>. QED
  BY <1>1, <1>2 DEF XNext, ExchangeStep, IssueAuthorizationCode, ExchangeStart,
     ExchangeJudge, ExchangeConsume, ExchangeLoseRace, ExchangeRevokeFamily,
     ExchangeCutShort, PurgeCodes, PruneCodes, codeVars, xvars

XBase == TypeOK /\ HandlersBound /\ XTypes /\ CodesBound /\ RowsOwned

(* The base invariant holds at first, and every step keeps it.             *)
LEMMA XBaseInit == XInit => XBase
BY TypeInit, XTypeInit DEF XInit, XBase, RowsOwned, NoCode

(* Every step keeps it.                                                    *)
LEMMA XBaseStep == ASSUME XBase, [XNext]_xvars PROVE XBase'
<1>. USE DEF XBase
<1>1. (TypeOK /\ HandlersBound)'
  BY BaseStep
<1>2. (CodesBound /\ RowsOwned)'
  BY XBoundStep
<1>3. XTypes'
  <2>1. codes' \in [CodeIds -> Code]
    BY CodesMove
  <2>2. minted' \in [CodeIds -> SUBSET TokenIds]
    BY MintedType
  <2>3. xreq' \in [Requests -> Exchange]
    <3>1. CASE Requests # {}
      BY <3>1, ExchangeMoves DEF XMoves
    <3>2. CASE Requests = {}
      BY <3>2 DEF XTypes, XNext, IssueAuthorizationCode, PurgeCodes,
         PruneCodes, codeVars, xvars
    <3>. QED
      BY <3>1, <3>2
  <2>. QED
    BY <2>1, <2>2, <2>3 DEF XTypes
<1>. QED
  BY <1>1, <1>2, <1>3

(***************************************************************************)
(* The composed model is well-typed.                                       *)
(***************************************************************************)
THEOREM ExchangeTyped == XSpec => []XTypeOK
<1>1. XInit => XBase
  BY XBaseInit
<1>2. XBase /\ [XNext]_xvars => XBase'
  BY XBaseStep
<1>3. XBase => XTypeOK
  BY DEF XBase, XTypes, XTypeOK
<1>. QED
  BY <1>1, <1>2, <1>3, PTL DEF XSpec

-----------------------------------------------------------------------------
(***************************************************************************)
(* Redemption. CodeRedeemedOnce is strengthened: a code that a handler     *)
(* redeems, or that minted a token, is consumed or gone for good, so       *)
(* nobody wins it again; and a handler that redeems one is on its way      *)
(* through issueTokensForService, which mints at most one token.           *)
(***************************************************************************)
Spent(k) ==
  \/ codes[k].st = "deleted"
  \/ codes[k].st = "row" /\ codes[k].consumed

Redeems(r, k) == xreq[r].pc = "issuing" /\ xreq[r].code = k

IssuePcs == {"issueSubject", "issueMember", "create"}

Aligned ==
  \A r \in Requests :
    /\ xreq[r].pc \in {"service", "family", "consume"} => At(r, "idle")
    /\ xreq[r].pc = "issuing" => req[r].pc \in IssuePcs

Once(k) ==
  /\ (\E r \in Requests : Redeems(r, k)) => Spent(k) /\ minted[k] = {}
  /\ minted[k] # {} => Spent(k)
  /\ \A r1, r2 \in Requests : Redeems(r1, k) /\ Redeems(r2, k) => r1 = r2
  /\ \A t1, t2 \in minted[k] : t1 = t2

RedeemInv == XBase /\ Aligned /\ \A k \in CodeIds : Once(k)

(* A step of a handler of RefreshTokens changes that handler alone.        *)
LEMMA ContinueEffect ==
  ASSUME TypeOK, HandlersBound, NEW r \in Requests, Continue(r) \/ CutShort(r)
  PROVE  /\ ~At(r, "idle") /\ Others(r)
         /\ req[r].pc \in IssuePcs => req'[r].pc \in IssuePcs \cup {"idle"}
<1>1. ASSUME Finish(r) PROVE Others(r) /\ req'[r].pc = "idle"
  BY <1>1, FinishEffect
<1>2. ASSUME NEW pc \in Pcs, Await(r, pc) PROVE Others(r) /\ req'[r].pc = pc
  BY <1>2, AwaitEffect
<1>3. ASSUME NEW pc,
             req' = [req EXCEPT ![r].pc = pc, ![r].expiresAt = now + TTL]
      PROVE  Others(r) /\ req'[r].pc = pc
  BY <1>3, PrepareEffect
<1>4. CASE \/ RefreshRefuse(r) \/ RefreshRotate(r) \/ RevokeFamily(r)
           \/ RevokeRow(r) \/ IssueCreate(r) \/ CutShort(r)
  BY <1>1, <1>4 DEF RefreshRefuse, RefreshRotate, RevokeFamily, RevokeRow,
     IssueCreate, CutShort, At
<1>5. CASE \/ RefreshDetectReuse(r) \/ RefreshAccept(r) \/ RefreshLoseRace(r)
  BY <1>2, <1>5 DEF RefreshDetectReuse, RefreshAccept, RefreshLoseRace, At,
     Pcs, IssuePcs
<1>6. CASE RefreshSubject(r) \/ RefreshReread(r)
  BY <1>1, <1>2, <1>6 DEF RefreshSubject, RefreshReread, At, Pcs, IssuePcs
<1>7. CASE RefreshMember(r)
  BY <1>1, <1>3, <1>7 DEF RefreshMember, At, IssuePcs
<1>8. CASE IssueSubject(r)
  BY <1>1, <1>2, <1>8 DEF IssueSubject, At, Pcs, IssuePcs
<1>9. CASE IssueMember(r)
  BY <1>1, <1>3, <1>9 DEF IssueMember, At, IssuePcs
<1>. QED
  BY <1>4, <1>5, <1>6, <1>7, <1>8, <1>9 DEF Continue

(* On its way through issueTokensForService it adds one token at its end.  *)
LEMMA MintEffect ==
  ASSUME TypeOK, HandlersBound, NEW r \in Requests, Continue(r) \/ CutShort(r),
         req[r].pc \in IssuePcs
  PROVE  \/ tokens' = tokens
         \/ /\ req'[r].pc = "idle"
            /\ \E new \in TokenIds :
                 \A t \in TokenIds \ {new} : tokens'[t] = tokens[t]
<1>1. CASE IssueCreate(r)
  <2>1. PICK new \in TokenIds :
          tokens' = Create(tokens, new, req[r].user, req[r].service,
                           req[r].expiresAt)
    BY <1>1, CreateStep
  <2>2. \A t \in TokenIds \ {new} : tokens'[t] = tokens[t]
    BY <2>1, CreateEffect DEF TypeOK
  <2>3. req'[r].pc = "idle"
    BY <1>1, FinishEffect DEF IssueCreate
  <2>. QED
    BY <2>2, <2>3
<1>2. CASE IssueSubject(r) \/ IssueMember(r) \/ CutShort(r)
  BY <1>2 DEF IssueSubject, IssueMember, CutShort
<1>. QED
  BY <1>1, <1>2 DEF Continue, IssuePcs, At, RefreshRefuse, RefreshRotate,
     RevokeFamily, RevokeRow, RefreshDetectReuse, RefreshAccept,
     RefreshLoseRace, RefreshSubject, RefreshReread, RefreshMember

(* The rest of the system moves no handler to another statement.           *)
LEMMA EnvironmentEffect ==
  ASSUME TypeOK, Environment, NEW q \in Requests
  PROVE  req'[q].pc = req[q].pc
<1>1. CASE WitnessGates
  BY <1>1, WitnessEffect
<1>. QED
  BY <1>1 DEF Environment, Tick, PruneExpired, SoftDelete, PasswordChanged,
     PurgeTokens, SetEmail, AddMember, RemoveMember

(* What HandlerStep does to the exchange of its handler.                   *)
LEMMA HandlerStepEffect ==
  ASSUME XBase, NEW r \in Requests, HandlerStep(r)
  PROVE  /\ Continue(r) \/ CutShort(r)
         /\ xreq'[r] = IF req'[r].pc = "idle" THEN NoExchange ELSE xreq[r]
         /\ \A q \in Requests \ {r} : xreq'[q] = xreq[q]
         /\ xreq[r].pc # "issuing" => minted' = minted
         /\ xreq[r].pc = "issuing" =>
              /\ minted'[xreq[r].code] = minted[xreq[r].code]
                   \cup {t \in TokenIds : tokens'[t] # tokens[t]}
              /\ \A k \in CodeIds \ {xreq[r].code} : minted'[k] = minted[k]
         /\ UNCHANGED codes
BY DEF HandlerStep, XBase, XTypes, CodesBound

(* Every step keeps exchanges aligned with the handlers.                   *)
LEMMA AlignedStep ==
  ASSUME XBase, Aligned, [XNext]_xvars PROVE Aligned'
<1>. USE DEF XBase
<1>. SUFFICES ASSUME NEW q \in Requests
              PROVE  /\ xreq'[q].pc \in {"service", "family", "consume"} =>
                          req'[q].pc = "idle"
                     /\ xreq'[q].pc = "issuing" => req'[q].pc \in IssuePcs
  BY DEF Aligned, At
<1>. DEFINE Goal == /\ xreq'[q].pc \in {"service", "family", "consume"} =>
                         req'[q].pc = "idle"
                    /\ xreq'[q].pc = "issuing" => req'[q].pc \in IssuePcs
<1>0. NoExchange.pc = "idle"
  BY DEF NoExchange
<1>1. CASE xreq'[q].pc = xreq[q].pc /\ req'[q].pc = req[q].pc
  BY <1>1 DEF Aligned, At
<1>2. ASSUME NEW r \in Requests, HandlerStep(r) PROVE Goal
  <2>1. /\ ~At(r, "idle") /\ Others(r)
        /\ req[r].pc \in IssuePcs => req'[r].pc \in IssuePcs \cup {"idle"}
    BY <1>2, HandlerStepEffect, ContinueEffect
  <2>2. CASE q # r
    BY <1>1, <1>2, <2>1, <2>2, HandlerStepEffect DEF Others
  <2>3. CASE q = r /\ req'[r].pc = "idle"
    BY <1>0, <1>2, <2>3, HandlerStepEffect
  <2>4. CASE q = r /\ req'[r].pc # "idle"
    BY <1>2, <2>1, <2>4, HandlerStepEffect DEF Aligned
  <2>. QED
    BY <2>2, <2>3, <2>4
<1>3. ASSUME NEW r \in Requests, ExchangeConsume(r) PROVE Goal
  <2>1. /\ xreq'[r].pc = "issuing"
        /\ \A p \in Requests \ {r} : xreq'[p] = xreq[p]
    BY <1>3, StepEffect DEF ExchangeConsume
  <2>2. req'[r].pc = "issueSubject" /\ Others(r)
    BY <1>3 DEF ExchangeConsume, Begun, TypeOK, Others
  <2>. QED
    BY <1>1, <2>1, <2>2 DEF Others, IssuePcs
<1>4. ASSUME NEW r \in Requests, NEW k \in CodeIds, NEW proof \in Proof,
             ExchangeStart(r, k, proof)
      PROVE  Goal
  <2>1. /\ At(r, "idle") /\ UNCHANGED req /\ xreq'[r].pc = "service"
        /\ \A p \in Requests \ {r} : xreq'[p] = xreq[p]
    BY <1>4 DEF ExchangeStart, vars, XTypes
  <2>. QED
    BY <1>1, <2>1 DEF At
<1>5. ASSUME NEW r \in Requests, NEW t \in TokenIds, NEW client \in Clients,
             xreq[r].pc = "idle", RefreshStart(r, t, client), UNCHANGED codeVars
      PROVE  Goal
  <2>1. UNCHANGED xreq /\ Others(r)
    BY <1>5 DEF RefreshStart, codeVars, TypeOK, Others
  <2>. QED
    BY <1>1, <1>5, <2>1 DEF Others
<1>6. ASSUME NEW r \in Requests, ExchangeJudge(r) \/ ExchangeLoseRace(r)
      PROVE  Goal
  <2>1. UNCHANGED req
    BY <1>6 DEF ExchangeJudge, ExchangeLoseRace, vars
  <2>2. PICK from \in {"service", "consume"}, to \in {"family", "consume", "idle"} :
          Step(r, from, to)
    BY <1>6 DEF ExchangeJudge, ExchangeLoseRace
  <2>3. /\ xreq[r].pc = from /\ xreq'[r].pc = to
        /\ \A p \in Requests \ {r} : xreq'[p] = xreq[p]
    BY <2>2, StepEffect
  <2>. QED
    BY <1>1, <2>1, <2>3 DEF Aligned, At
<1>7. ASSUME NEW r \in Requests, ExchangeRevokeFamily(r) \/ ExchangeCutShort(r)
      PROVE  Goal
  <2>1. UNCHANGED req
    BY <1>7 DEF ExchangeRevokeFamily, ExchangeCutShort, vars
  <2>2. xreq' = [xreq EXCEPT ![r] = NoExchange]
    BY <1>7 DEF ExchangeRevokeFamily, ExchangeCutShort, Step
  <2>. HIDE DEF NoExchange
  <2>. QED
    BY <1>0, <1>1, <2>1, <2>2 DEF XTypes
<1>8. CASE Environment /\ UNCHANGED codeVars
  BY <1>1, <1>8, EnvironmentEffect DEF codeVars
<1>9. CASE \/ \E k \in CodeIds, u \in Users, s \in Services :
                IssueAuthorizationCode(k, u, s)
           \/ \E u \in Users : PurgeCodes(u)
           \/ PruneCodes
           \/ UNCHANGED xvars
  <2>1. UNCHANGED <<xreq, req>>
    BY <1>9 DEF IssueAuthorizationCode, PurgeCodes, PruneCodes, codeVars, xvars, vars
  <2>. QED
    BY <1>1, <2>1
<1>10. CASE \E r \in Requests : ExchangeStep(r)
  BY <1>3, <1>6, <1>7, <1>10 DEF ExchangeStep
<1>. QED
  BY <1>2, <1>4, <1>5, <1>7, <1>8, <1>9, <1>10 DEF XNext

(* A spent code stays spent.                                               *)
LEMMA SpentStays ==
  ASSUME XBase, [XNext]_xvars, NEW k \in CodeIds, Spent(k)
  PROVE  Spent(k)'
<1>1. CodeMoves(k) /\ codes[k] \in Code
  BY CodesMove DEF XBase, XTypes
<1>2. codes'[k] = codes[k] \/ Deleted(k)
  BY <1>1 DEF CodeMoves, Issued, Won, Spent
<1>. QED
  BY <1>2 DEF Deleted, Spent, NoCode

(* A handler of an issuing exchange mints for a code that is spent.        *)
LEMMA OnceHandler ==
  ASSUME RedeemInv, NEW r \in Requests, HandlerStep(r), [XNext]_xvars,
         NEW k \in CodeIds
  PROVE  Once(k)'
<1>. USE DEF RedeemInv, XBase
<1>0. NoExchange.pc = "idle"
  BY DEF NoExchange
<1>1. /\ xreq'[r] = xreq[r] \/ xreq'[r].pc = "idle"
      /\ \A q \in Requests \ {r} : xreq'[q] = xreq[q]
  BY <1>0, HandlerStepEffect
<1>2. \A q \in Requests : Redeems(q, k)' => Redeems(q, k)
  BY <1>1 DEF Redeems
<1>3. Spent(k) => Spent(k)'
  BY SpentStays
<1>4. CASE minted'[k] = minted[k]
  BY <1>2, <1>3, <1>4 DEF Once
<1>5. CASE Redeems(r, k)
  <2>1. Spent(k)' /\ minted[k] = {}
    BY <1>3, <1>5 DEF Once
  <2>2. minted'[k] = {t \in TokenIds : tokens'[t] # tokens[t]}
    BY <1>5, <2>1, HandlerStepEffect DEF Redeems
  <2>3. \/ tokens' = tokens
        \/ /\ req'[r].pc = "idle"
           /\ \E new \in TokenIds :
                \A t \in TokenIds \ {new} : tokens'[t] = tokens[t]
    BY <1>5, HandlerStepEffect, MintEffect DEF Aligned, Redeems
  <2>4. CASE tokens' = tokens
    BY <1>4, <2>1, <2>2, <2>4
  <2>5. ASSUME req'[r].pc = "idle", NEW new \in TokenIds,
               \A t \in TokenIds \ {new} : tokens'[t] = tokens[t]
        PROVE  Once(k)'
    <3>1. \A t \in minted'[k] : t = new
      BY <2>2, <2>5
    <3>2. xreq'[r].pc = "idle"
      BY <1>0, <2>5, HandlerStepEffect
    <3>3. \A q \in Requests : ~Redeems(q, k)'
      BY <1>2, <1>5, <3>2 DEF Once, Redeems
    <3>. QED
      BY <2>1, <3>1, <3>3 DEF Once
  <2>. QED
    BY <2>3, <2>4, <2>5
<1>6. CASE ~Redeems(r, k)
  <2>1. minted'[k] = minted[k]
    BY <1>6, HandlerStepEffect DEF Redeems
  <2>. QED
    BY <1>4, <2>1
<1>. QED
  BY <1>5, <1>6

(* The winner of a code is the only one there is, and ever was.            *)
LEMMA OnceWin ==
  ASSUME RedeemInv, NEW r \in Requests, ExchangeConsume(r), [XNext]_xvars,
         NEW k \in CodeIds
  PROVE  Once(k)'
<1>. USE DEF RedeemInv, XBase
<1>1. /\ xreq'[r].pc = "issuing" /\ xreq'[r].code = xreq[r].code
      /\ \A q \in Requests \ {r} : xreq'[q] = xreq[q]
  BY StepEffect DEF ExchangeConsume
<1>2. UNCHANGED minted
  BY DEF ExchangeConsume
<1>3. Spent(k) => Spent(k)'
  BY SpentStays
<1>4. CASE xreq[r].code # k
  <2>1. \A q \in Requests : Redeems(q, k)' => Redeems(q, k)
    BY <1>1, <1>4 DEF Redeems
  <2>. QED
    BY <1>2, <1>3, <2>1 DEF Once
<1>5. CASE xreq[r].code = k
  <2>1. codes[k].st = "row" /\ ~codes[k].consumed
    BY <1>5 DEF ExchangeConsume, ConsumeWins, CodeRow
  <2>2. minted[k] = {} /\ \A q \in Requests : ~Redeems(q, k)
    BY <2>1 DEF Once, Spent
  <2>3. \A q \in Requests : Redeems(q, k)' => q = r
    BY <1>1, <2>2 DEF Redeems
  <2>4. Spent(k)'
    BY <1>5, <2>1 DEF ExchangeConsume, XTypes, Code, Spent
  <2>. QED
    BY <1>2, <2>2, <2>3, <2>4 DEF Once
<1>. QED
  BY <1>4, <1>5

(* Every step redeems a code once at most.                                 *)
LEMMA OnceStep ==
  ASSUME RedeemInv, [XNext]_xvars, NEW k \in CodeIds
  PROVE  Once(k)'
<1>. USE DEF RedeemInv, XBase
<1>1. CASE \E r \in Requests : HandlerStep(r)
  BY <1>1, OnceHandler
<1>2. CASE \E r \in Requests : ExchangeConsume(r)
  BY <1>2, OnceWin
<1>3. CASE /\ ~\E r \in Requests : HandlerStep(r)
           /\ ~\E r \in Requests : ExchangeConsume(r)
  <2>1. UNCHANGED minted
    BY <1>3 DEF XNext, ExchangeStep, IssueAuthorizationCode, ExchangeStart,
       ExchangeJudge, ExchangeLoseRace, ExchangeRevokeFamily,
       ExchangeCutShort, PurgeCodes, PruneCodes, codeVars, xvars
  <2>2. \A q \in Requests : Redeems(q, k)' => Redeems(q, k)
    BY <1>3, ExchangeMoves DEF XMoves, Reads, Judges, Wins, Redeems
  <2>3. Spent(k) => Spent(k)'
    BY SpentStays
  <2>. QED
    BY <2>1, <2>2, <2>3 DEF Once
<1>. QED
  BY <1>1, <1>2, <1>3

(* The strengthened invariant holds in every reachable state.              *)
LEMMA RedeemInvariant == XSpec => []RedeemInv
<1>1. XInit => RedeemInv
  <2>1. XInit => Aligned /\ \A k \in CodeIds : Once(k)
    BY DEF XInit, Aligned, Once, Redeems, NoExchange
  <2>. QED
    BY <2>1, XBaseInit DEF RedeemInv
<1>2. RedeemInv /\ [XNext]_xvars => RedeemInv'
  BY XBaseStep, AlignedStep, OnceStep DEF RedeemInv
<1>. QED
  BY <1>1, <1>2, PTL DEF XSpec

(* A set whose members are all the same has at most one.                   *)
LEMMA AtMostOne ==
  ASSUME NEW S, \A x, y \in S : x = y
  PROVE  Cardinality(S) \in {0, 1} /\ (S = {} => Cardinality(S) = 0)
<1>1. CASE S = {}
  BY <1>1, FS_EmptySet
<1>2. ASSUME NEW x \in S PROVE S = {x}
  OBVIOUS
<1>. QED
  BY <1>1, <1>2, FS_Singleton

(***************************************************************************)
(* However many exchanges race for a code, at most one handler is ever     *)
(* past its consume, and no second token is minted from it (the            *)
(* conditional UPDATE of consume, exchangeAuthorizationCode).              *)
(***************************************************************************)
THEOREM CodeWorthOneSignIn == XSpec => []CodeRedeemedOnce
<1>1. ASSUME RedeemInv PROVE CodeRedeemedOnce
  <2>. SUFFICES ASSUME NEW k \in CodeIds
                PROVE  Cardinality({r \in Requests : Redeems(r, k)})
                         + Cardinality(minted[k]) <= 1
    BY DEF CodeRedeemedOnce, Redeems
  <2>. DEFINE R == {r \in Requests : Redeems(r, k)}
  <2>1. /\ \A x, y \in R : x = y
        /\ \A x, y \in minted[k] : x = y
        /\ R = {} \/ minted[k] = {}
    BY <1>1 DEF RedeemInv, Once
  <2>. HIDE DEF R
  <2>2. /\ Cardinality(R) \in {0, 1} /\ (R = {} => Cardinality(R) = 0)
        /\ Cardinality(minted[k]) \in {0, 1}
        /\ minted[k] = {} => Cardinality(minted[k]) = 0
    BY <2>1, AtMostOne
  <2>3. Cardinality(R) + Cardinality(minted[k]) <= 1
    BY <2>1, <2>2
  <2>. QED
    BY <2>3 DEF R
<1>. QED
  BY <1>1, RedeemInvariant, PTL

-----------------------------------------------------------------------------
(***************************************************************************)
(* The refinement of OneShot: its variables, as CodeExchange maps them.    *)
(***************************************************************************)
GoodCodes == {k \in CodeIds : codes[k].st = "row" /\ ~codes[k].consumed}

IssuedCodes == {k \in CodeIds : codes[k].st # "free"}

HeldCodes == {h \in Requests \X CodeIds :
                xreq[h[1]].pc = "issuing" /\ xreq[h[1]].code = h[2]}

Mints == [k \in CodeIds |-> Cardinality(minted[k])]

(* Two sets of holders are the same when they redeem the same.             *)
LEMMA HeldSame ==
  ASSUME \A q \in Requests, k \in CodeIds : Redeems(q, k)' <=> Redeems(q, k)
  PROVE  HeldCodes' = HeldCodes
BY DEF HeldCodes, Redeems

(* A code that is issued is good.                                          *)
LEMMA CodeIssued ==
  ASSUME XBase, NEW k \in CodeIds, NEW u \in Users, NEW s \in Services,
         IssueAuthorizationCode(k, u, s)
  PROVE  /\ k \notin IssuedCodes /\ IssuedCodes' = IssuedCodes \cup {k}
         /\ GoodCodes' = GoodCodes \cup {k}
         /\ HeldCodes' = HeldCodes /\ Mints' = Mints
<1>1. /\ codes[k].st = "free" /\ codes'[k].st = "row" /\ ~codes'[k].consumed
      /\ \A j \in CodeIds \ {k} : codes'[j] = codes[j]
      /\ UNCHANGED <<xreq, minted>>
  BY DEF IssueAuthorizationCode, XBase, XTypes
<1>. QED
  BY <1>1 DEF IssuedCodes, GoodCodes, HeldCodes, Mints

(* A purge and a prune spoil codes.                                        *)
LEMMA DeletionSpoils ==
  ASSUME XBase, (\E u \in Users : PurgeCodes(u)) \/ PruneCodes
  PROVE  /\ \E S \in SUBSET CodeIds : GoodCodes' = GoodCodes \ S
         /\ IssuedCodes' = IssuedCodes
         /\ HeldCodes' = HeldCodes /\ Mints' = Mints
<1>. DEFINE gone == [NoCode EXCEPT !.st = "deleted"]
<1>1. ASSUME NEW k \in CodeIds PROVE codes'[k] = codes[k] \/ Deleted(k)
  <2>1. ASSUME NEW u \in Users, PurgeCodes(u)
        PROVE  codes'[k] = codes[k] \/ Deleted(k)
    <3>1. codes[k].user = u => codes[k].st # "free"
      BY NullIsNoValue DEF XBase, RowsOwned
    <3>. QED
      BY <2>1, <3>1 DEF PurgeCodes, Deleted
  <2>2. CASE PruneCodes
    BY <2>2 DEF PruneCodes, Deleted
  <2>. QED
    BY <2>1, <2>2
<1>2. gone.st = "deleted"
  BY DEF NoCode
<1>3. UNCHANGED <<xreq, minted>>
  BY DEF PurgeCodes, PruneCodes
<1>. DEFINE S == {k \in CodeIds : codes'[k] # codes[k]}
<1>4. GoodCodes' = GoodCodes \ S /\ IssuedCodes' = IssuedCodes
  BY <1>1, <1>2 DEF Deleted, GoodCodes, IssuedCodes
<1>. QED
  BY <1>3, <1>4 DEF HeldCodes, Mints

(* The handler whose UPDATE matched takes the code.                        *)
LEMMA ConsumeTakes ==
  ASSUME XBase, NEW r \in Requests, ExchangeConsume(r)
  PROVE  LET k == xreq[r].code
         IN  /\ k \in CodeIds /\ k \in GoodCodes
             /\ GoodCodes' = GoodCodes \ {k} /\ IssuedCodes' = IssuedCodes
             /\ HeldCodes' = HeldCodes \cup {<<r, k>>} /\ Mints' = Mints
<1>. DEFINE k == xreq[r].code
<1>1. /\ xreq[r].pc = "consume" /\ xreq'[r].pc = "issuing" /\ xreq'[r].code = k
      /\ \A q \in Requests \ {r} : xreq'[q] = xreq[q]
  BY StepEffect DEF ExchangeConsume, XBase
<1>2. k \in CodeIds
  BY <1>1 DEF XBase, CodesBound
<1>3. /\ codes[k] \in Code /\ codes[k].st = "row" /\ ~codes[k].consumed
      /\ codes'[k] = [codes[k] EXCEPT !.consumed = TRUE]
      /\ \A j \in CodeIds \ {k} : codes'[j] = codes[j]
  BY <1>2 DEF ExchangeConsume, ConsumeWins, CodeRow, XBase, XTypes
<1>4. codes'[k].st = "row" /\ codes'[k].consumed
  BY <1>3 DEF Code
<1>5. GoodCodes' = GoodCodes \ {k} /\ IssuedCodes' = IssuedCodes /\ k \in GoodCodes
  <2>. HIDE DEF k
  <2>1. GoodCodes' = GoodCodes \ {k} /\ k \in GoodCodes
    <3>1. \A j \in CodeIds : j \in GoodCodes' <=> j \in GoodCodes /\ j # k
      BY <1>2, <1>3, <1>4 DEF GoodCodes
    <3>. QED
      BY <1>2, <1>3, <3>1 DEF GoodCodes
  <2>2. \A j \in CodeIds : codes'[j].st # "free" <=> codes[j].st # "free"
    BY <1>2, <1>3, <1>4
  <2>. QED
    BY <2>1, <2>2 DEF IssuedCodes
<1>6. HeldCodes' = HeldCodes \cup {<<r, k>>}
  <2>1. ASSUME NEW q \in Requests, NEW j \in CodeIds
        PROVE  <<q, j>> \in HeldCodes' <=>
                 <<q, j>> \in HeldCodes \/ (q = r /\ j = k)
    <3>1. CASE q = r
      BY <1>1, <3>1 DEF HeldCodes
    <3>2. CASE q # r
      BY <1>1, <3>2 DEF HeldCodes
    <3>. QED
      BY <3>1, <3>2
  <2>2. /\ HeldCodes \subseteq Requests \X CodeIds
        /\ HeldCodes' \subseteq Requests \X CodeIds
    BY DEF HeldCodes
  <2>. HIDE DEF k
  <2>. QED
    BY <1>2, <2>1, <2>2
<1>. QED
  BY <1>2, <1>5, <1>6 DEF ExchangeConsume, Mints

(* A handler that is on its way to a token goes on, mints it or gives up.  *)
LEMMA MintingActs ==
  ASSUME RedeemInv, NEW r \in Requests, HandlerStep(r), xreq[r].pc = "issuing"
  PROVE  LET k == xreq[r].code
         IN  /\ k \in CodeIds /\ <<r, k>> \in HeldCodes
             /\ \/ HeldCodes' = HeldCodes /\ Mints' = Mints
                \/ /\ HeldCodes' = HeldCodes \ {<<r, k>>}
                   /\ \/ Mints' = Mints
                      \/ Mints' = [Mints EXCEPT ![k] = @ + 1]
<1>. USE DEF RedeemInv
<1>. DEFINE k == xreq[r].code
            new == {t \in TokenIds : tokens'[t] # tokens[t]}
<1>0. NoExchange.pc = "idle"
  BY DEF NoExchange
<1>1. k \in CodeIds /\ minted[k] = {}
  BY DEF XBase, CodesBound, Once, Redeems
<1>2. /\ Continue(r) \/ CutShort(r)
      /\ xreq'[r] = IF req'[r].pc = "idle" THEN NoExchange ELSE xreq[r]
      /\ \A q \in Requests \ {r} : xreq'[q] = xreq[q]
      /\ minted'[k] = new
      /\ \A j \in CodeIds \ {k} : minted'[j] = minted[j]
  BY <1>1, HandlerStepEffect
<1>3. \/ tokens' = tokens
      \/ req'[r].pc = "idle" /\ \E t \in TokenIds : new \subseteq {t}
  BY <1>2, MintEffect DEF XBase, Aligned
<1>4. req'[r].pc = "idle" => HeldCodes' = HeldCodes \ {<<r, k>>}
  <2>. SUFFICES ASSUME req'[r].pc = "idle"
                PROVE  HeldCodes' = HeldCodes \ {<<r, k>>}
    OBVIOUS
  <2>1. ASSUME NEW q \in Requests, NEW j \in CodeIds
        PROVE  <<q, j>> \in HeldCodes' <=>
                 <<q, j>> \in HeldCodes /\ ~(q = r /\ j = k)
    <3>1. CASE q = r
      BY <1>0, <1>2, <3>1 DEF HeldCodes
    <3>2. CASE q # r
      BY <1>2, <3>2 DEF HeldCodes
    <3>. QED
      BY <3>1, <3>2
  <2>2. /\ HeldCodes \subseteq Requests \X CodeIds
        /\ HeldCodes' \subseteq Requests \X CodeIds
    BY DEF HeldCodes
  <2>. HIDE DEF k
  <2>. QED
    BY <1>1, <2>1, <2>2
<1>5. req'[r].pc # "idle" => HeldCodes' = HeldCodes
  BY <1>2 DEF HeldCodes
<1>6. <<r, k>> \in HeldCodes
  BY <1>1 DEF HeldCodes
<1>7. CASE new = {}
  <2>1. Mints' = Mints
    BY <1>1, <1>2, <1>7 DEF Mints
  <2>. HIDE DEF k
  <2>. QED
    BY <1>1, <1>4, <1>5, <1>6, <2>1 DEF k
<1>8. CASE new # {}
  <2>1. req'[r].pc = "idle" /\ \E t \in TokenIds : new = {t}
    BY <1>3, <1>8
  <2>2. Cardinality(new) = 1 /\ Cardinality(minted[k]) = 0
    BY <1>1, <2>1, FS_EmptySet, FS_Singleton
  <2>3. Mints' = [Mints EXCEPT ![k] = @ + 1]
    <3>1. Mints[k] = 0 /\ Mints'[k] = 1
      BY <1>1, <1>2, <2>2 DEF Mints
    <3>2. \A j \in CodeIds \ {k} : Mints'[j] = Mints[j]
      BY <1>2 DEF Mints
    <3>. QED
      BY <1>1, <3>1, <3>2 DEF Mints
  <2>. QED
    BY <1>1, <1>4, <1>6, <2>1, <2>3
<1>. QED
  BY <1>7, <1>8

(* Every other step leaves alone who holds a code, and every code.         *)
LEMMA OtherSteps ==
  ASSUME XBase, [XNext]_xvars,
         \A r \in Requests : HandlerStep(r) => xreq[r].pc # "issuing",
         ~\E r \in Requests : ExchangeConsume(r),
         ~\E k \in CodeIds, u \in Users, s \in Services :
            IssueAuthorizationCode(k, u, s),
         ~\E u \in Users : PurgeCodes(u), ~PruneCodes
  PROVE  HeldCodes' = HeldCodes /\ UNCHANGED <<codes, minted>>
<1>. USE DEF XBase
<1>0. NoExchange.pc = "idle"
  BY DEF NoExchange
<1>1. ASSUME NEW r \in Requests, xreq[r].pc # "issuing", xreq'[r].pc # "issuing",
             \A q \in Requests \ {r} : xreq'[q] = xreq[q]
      PROVE  HeldCodes' = HeldCodes
  BY <1>1, HeldSame DEF Redeems
<1>2. CASE UNCHANGED codeVars
  BY <1>2 DEF codeVars, HeldCodes
<1>3. ASSUME NEW r \in Requests, HandlerStep(r)
      PROVE  HeldCodes' = HeldCodes /\ UNCHANGED <<codes, minted>>
  BY <1>0, <1>1, <1>3, HandlerStepEffect
<1>4. ASSUME NEW r \in Requests, NEW k \in CodeIds, NEW proof \in Proof,
             ExchangeStart(r, k, proof)
      PROVE  HeldCodes' = HeldCodes /\ UNCHANGED <<codes, minted>>
  BY <1>1, <1>4 DEF ExchangeStart, XTypes
<1>5. ASSUME NEW r \in Requests,
             \/ ExchangeJudge(r) \/ ExchangeLoseRace(r)
             \/ ExchangeRevokeFamily(r) \/ ExchangeCutShort(r)
      PROVE  HeldCodes' = HeldCodes /\ UNCHANGED <<codes, minted>>
  <2>1. UNCHANGED <<codes, minted>>
    BY <1>5 DEF ExchangeJudge, ExchangeLoseRace, ExchangeRevokeFamily,
       ExchangeCutShort
  <2>2. CASE ExchangeCutShort(r)
    BY <1>0, <1>1, <2>1, <2>2 DEF ExchangeCutShort, XTypes
  <2>3. CASE ExchangeJudge(r) \/ ExchangeLoseRace(r) \/ ExchangeRevokeFamily(r)
    <3>1. PICK from \in {"service", "consume", "family"},
               to \in {"family", "consume", "idle"} : Step(r, from, to)
      BY <2>3 DEF ExchangeJudge, ExchangeLoseRace, ExchangeRevokeFamily
    <3>2. /\ xreq[r].pc = from /\ xreq'[r].pc = to
          /\ \A q \in Requests \ {r} : xreq'[q] = xreq[q]
      BY <3>1, StepEffect
    <3>. QED
      BY <1>1, <2>1, <3>2
  <2>. QED
    BY <1>5, <2>2, <2>3
<1>. QED
  BY <1>2, <1>3, <1>4, <1>5 DEF XNext, ExchangeStep, xvars, codeVars

(* Every step is one of OneShot's, or none.                                *)
LEMMA SecretStep ==
  ASSUME RedeemInv, [XNext]_xvars
  PROVE  [Secret!Next]_(Secret!vars)
<1>. USE DEF RedeemInv, GoodCodes, IssuedCodes, HeldCodes, Mints
<1>1. ASSUME NEW r \in Requests, HandlerStep(r), xreq[r].pc = "issuing"
      PROVE  [Secret!Next]_(Secret!vars)
  <2>1. GoodCodes' = GoodCodes /\ IssuedCodes' = IssuedCodes
    BY <1>1 DEF HandlerStep
  <2>. QED
    BY <1>1, <2>1, MintingActs
    DEF Secret!Next, Secret!Act, Secret!GiveUp, Secret!vars
<1>2. ASSUME NEW r \in Requests, ExchangeConsume(r) PROVE Secret!Next
  BY <1>2, ConsumeTakes DEF Secret!Next, Secret!Take
<1>3. ASSUME NEW k \in CodeIds, NEW u \in Users, NEW s \in Services,
             IssueAuthorizationCode(k, u, s)
      PROVE  Secret!Next
  BY <1>3, CodeIssued DEF Secret!Next, Secret!Issue
<1>4. CASE (\E u \in Users : PurgeCodes(u)) \/ PruneCodes
  BY <1>4, DeletionSpoils DEF Secret!Next, Secret!Spoil
<1>5. CASE /\ \A r \in Requests : HandlerStep(r) => xreq[r].pc # "issuing"
           /\ ~\E r \in Requests : ExchangeConsume(r)
           /\ ~\E k \in CodeIds, u \in Users, s \in Services :
                 IssueAuthorizationCode(k, u, s)
           /\ ~\E u \in Users : PurgeCodes(u)
           /\ ~PruneCodes
  <2>1. HeldCodes' = HeldCodes /\ UNCHANGED <<codes, minted>>
    BY <1>5, OtherSteps
  <2>. QED
    BY <2>1 DEF Secret!vars
<1>. QED
  BY <1>1, <1>2, <1>3, <1>4, <1>5

(***************************************************************************)
(* Codes keep what OneShot promises, whatever exchanges, purges, prunes    *)
(* and failures they meet: a code that was consumed or deleted is never    *)
(* good again, and only the handler that consumed it mints by it.          *)
(***************************************************************************)
THEOREM CodesImplementOneShot == XSpec => CodeOneShot
<1>1. XInit => Secret!Init
  BY FS_EmptySet DEF XInit, Secret!Init, NoCode, NoExchange
<1>2. RedeemInv /\ [XNext]_xvars => [Secret!Next]_(Secret!vars)
  BY SecretStep
<1>. QED
  BY <1>1, <1>2, RedeemInvariant, PTL DEF XSpec, CodeOneShot, Secret!Spec

-----------------------------------------------------------------------------
(***************************************************************************)
(* The proof that a handler presented was judged against the row as it was *)
(* read; the row still belongs to the same service when it is consumed.    *)
(***************************************************************************)
Judged ==
  \A r \in Requests :
    /\ xreq[r].pc \in {"service", "consume"} =>
         /\ codes[xreq[r].code].st # "free"
         /\ codes[xreq[r].code].st = "row" =>
              codes[xreq[r].code].service = xreq[r].existing.service
    /\ xreq[r].pc = "consume" =>
         /\ RightClient(r)
         /\ xreq[r].proof.redirect /\ xreq[r].proof.verifier
         /\ ClientSecretOk(xreq[r].existing.service, xreq[r].proof)

(* Every step keeps what was judged.                                       *)
LEMMA JudgedStep == ASSUME XBase, Judged, [XNext]_xvars PROVE Judged'
<1>. USE DEF XBase
<1>. SUFFICES ASSUME NEW q \in Requests
              PROVE  /\ xreq'[q].pc \in {"service", "consume"} =>
                          /\ codes'[xreq'[q].code].st # "free"
                          /\ codes'[xreq'[q].code].st = "row" =>
                               codes'[xreq'[q].code].service
                                 = xreq'[q].existing.service
                     /\ xreq'[q].pc = "consume" =>
                          /\ RightClient(q)'
                          /\ xreq'[q].proof.redirect /\ xreq'[q].proof.verifier
                          /\ ClientSecretOk(xreq'[q].existing.service,
                                            xreq'[q].proof)
  BY DEF Judged, ClientSecretOk
<1>1. CASE xreq'[q].pc \notin {"service", "consume"}
  BY <1>1
<1>2. CASE Reads(q)
  BY <1>2 DEF Reads
<1>3. CASE Judges(q)
  BY <1>3 DEF Judges, Kept, Judged, RightClient, ProofOk
<1>4. CASE xreq'[q] = xreq[q] /\ xreq[q].pc \in {"service", "consume"}
  <2>. DEFINE k == xreq[q].code
  <2>1. k \in CodeIds
    BY <1>4 DEF CodesBound
  <2>2. codes[k].st # "free" /\ codes[k] \in Code
    BY <1>4, <2>1 DEF Judged, XTypes
  <2>. HIDE DEF k
  <2>3. /\ codes'[k].st # "free"
        /\ codes'[k].st = "row" =>
             codes[k].st = "row" /\ codes'[k].service = codes[k].service
    <3>1. CodeMoves(k)
      BY <2>1, CodesMove
    <3>2. CASE codes'[k] = codes[k]
      BY <2>2, <3>2
    <3>3. CASE Deleted(k)
      BY <3>3 DEF Deleted, NoCode
    <3>4. CASE Won(k)
      BY <2>2, <3>4 DEF Won, Code
    <3>. QED
      BY <2>2, <3>1, <3>2, <3>3, <3>4 DEF CodeMoves, Issued
  <2>. QED
    BY <1>4, <2>3 DEF Judged, RightClient, k
<1>. QED
  BY <1>1, <1>2, <1>3, <1>4, ExchangeMoves DEF XMoves, Wins

(***************************************************************************)
(* A code becomes consumed only by a handler that presented the secret of  *)
(* the code's own client, its redirect URI and its PKCE verifier.          *)
(***************************************************************************)
THEOREM FullProofOnly == XSpec => OnlyFullProofConsumes
<1>. DEFINE Inv == XBase /\ Judged
<1>1. XInit => Inv
  <2>1. XInit => Judged
    BY DEF XInit, Judged, NoExchange
  <2>. QED
    BY <2>1, XBaseInit
<1>2. Inv /\ [XNext]_xvars => Inv'
  BY XBaseStep, JudgedStep
<1>3. ASSUME Inv, [XNext]_xvars, NEW k \in CodeIds,
             ~codes[k].consumed, codes'[k].consumed
      PROVE  \E r \in Requests :
               /\ xreq[r].code = k /\ xreq'[r].pc = "issuing"
               /\ xreq[r].proof.id = codes[k].service
               /\ xreq[r].proof.redirect /\ xreq[r].proof.verifier
               /\ codes[k].service \in Public \/ xreq[r].proof.secret
  <2>1. CodeMoves(k)
    BY <1>3, CodesMove DEF XBase
  <2>2. Won(k)
    BY <1>3, <2>1 DEF CodeMoves, Issued, Deleted, NoCode
  <2>3. PICK r \in Requests : ExchangeConsume(r) /\ xreq[r].code = k
    BY <2>2 DEF Won
  <2>4. xreq[r].pc = "consume" /\ xreq'[r].pc = "issuing"
    BY <1>3, <2>3, StepEffect DEF ExchangeConsume, XBase
  <2>5. /\ codes[k].service = xreq[r].existing.service
        /\ RightClient(r)
        /\ xreq[r].proof.redirect /\ xreq[r].proof.verifier
        /\ ClientSecretOk(xreq[r].existing.service, xreq[r].proof)
    BY <1>3, <2>2, <2>3, <2>4 DEF Judged, Won
  <2>. QED
    BY <2>3, <2>4, <2>5 DEF RightClient, ClientSecretOk
<1>. HIDE DEF Inv
<1>4. Inv /\ [XNext]_xvars => [\A k \in CodeIds : ~codes[k].consumed /\ codes'[k].consumed =>
       \E r \in Requests :
         /\ xreq[r].code = k /\ xreq'[r].pc = "issuing"
         /\ xreq[r].proof.id = codes[k].service
         /\ xreq[r].proof.redirect /\ xreq[r].proof.verifier
         /\ codes[k].service \in Public \/ xreq[r].proof.secret]_xvars
  BY <1>3
<1>. QED
  BY <1>1, <1>2, <1>4, PTL DEF XSpec, OnlyFullProofConsumes

-----------------------------------------------------------------------------
(***************************************************************************)
(* What RefreshTokens promises it promises beside the exchanges too: a won *)
(* code starts a handler like any grant, for Aligned says that it runs no  *)
(* other, and a replayed one revokes a family.                             *)
(***************************************************************************)
LEMMA ExchangeIsTokenStep ==
  ASSUME RedeemInv, [XNext]_xvars PROVE [TokenStep]_vars
<1>1. ASSUME NEW r \in Requests, ExchangeConsume(r) PROVE Next
  <2>1. /\ xreq[r].pc = "consume"
        /\ xreq[r].existing.user \in Users /\ xreq[r].existing.service \in Services
    BY <1>1 DEF ExchangeConsume, Step, RedeemInv, XBase, CodesBound
  <2>2. At(r, "idle")
    BY <2>1 DEF RedeemInv, Aligned
  <2>3. IssueStart(r, xreq[r].existing.user, xreq[r].existing.service)
    BY <1>1, <2>2 DEF ExchangeConsume, IssueStart
  <2>. QED
    BY <2>1, <2>3 DEF Next, Start
<1>2. ASSUME NEW r \in Requests, ExchangeRevokeFamily(r) PROVE TokenStep
  <2>1. xreq[r].existing.user \in Users
    BY <1>2 DEF ExchangeRevokeFamily, Step, RedeemInv, XBase, CodesBound
  <2>2. FamilyRevoked(xreq[r].existing.user)
    BY <1>2 DEF ExchangeRevokeFamily, FamilyRevoked
  <2>. QED
    BY <2>1, <2>2 DEF TokenStep
<1>. QED
  BY <1>1, <1>2, BaseCases DEF TokenStep

LEMMA ExchangeAsTokens == XSpec => TokenSpec
<1>1. XInit => Init
  BY DEF XInit
<1>2. RedeemInv /\ [XNext]_xvars => [TokenStep]_vars
  BY ExchangeIsTokenStep
<1>. QED
  BY <1>1, <1>2, RedeemInvariant, PTL DEF XSpec, TokenSpec

(***************************************************************************)
(* A deleted, un-verified or removed user is minted no token for an        *)
(* exchange or a refresh requested afterwards: the grant that won a code   *)
(* passes the gates like any other (issueTokensForService).                *)
(***************************************************************************)
THEOREM ExchangeGatesHold == XSpec => []MinterPassedEveryGate
BY ExchangeAsTokens, GatesAlways, PTL

(***************************************************************************)
(* Tokens minted from codes form chains like any others: beside every      *)
(* exchange and replay, the table implements RotationChain, and a chain    *)
(* that a replayed code ended stays ended (exchangeAuthorizationCode).     *)
(***************************************************************************)
THEOREM ExchangeImplementsChains == XSpec => RotationChainSpec
BY ExchangeAsTokens, ChainsAlways, PTL

(***************************************************************************)
(* No exchange, and no revocation that a replayed code causes, gives a     *)
(* chain two usable tokens or takes the successor of a row away.           *)
(***************************************************************************)
THEOREM ExchangeKeepsRows ==
  XSpec => [](OneLiveTokenPerChain /\ SuccessorPresent)
<1>1. ChainInv /\ PresentInv => OneLiveTokenPerChain /\ SuccessorPresent
  BY DEF ChainInv, PresentInv
<1>. QED
  BY <1>1, ExchangeAsTokens, ChainInvariant, PresentAlways, PTL

(***************************************************************************)
(* Beside exchanges, too, a refresh handler acts for its token's own       *)
(* client alone, and forgives a token that was rotated within the grace,   *)
(* save its last half second.                                              *)
(***************************************************************************)
THEOREM ExchangeKeepsRefreshes ==
  XSpec => OnlyOwnClientActs /\ RaceWithinGraceIsForgiven
BY ExchangeAsTokens, OwnClientAlways, RaceAlways, PTL
=============================================================================
