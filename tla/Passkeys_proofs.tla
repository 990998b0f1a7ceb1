---------------------------- MODULE Passkeys_proofs ----------------------------
(***************************************************************************)
(* What holds of Passkeys for any users, credentials, rows and handlers    *)
(* and any limit and lifetimes.                                            *)
(***************************************************************************)
EXTENDS Passkeys, FiniteSetTheorems, TLAPS

(***************************************************************************)
(* What a handler knows at a statement: of whom, with which challenge, and *)
(* that the counter rose against the row it read.                          *)
(***************************************************************************)
Registering == {"consume", "limit", "already", "create"}

HandlerOK(h) ==
  /\ h.pc # "idle" => h.user \in Users
  /\ h.pc \in Registering => h.credential \in Credentials
  /\ h.pc \in {"consume", "assert"} => h.challenge \in ChallengeIds
  /\ h.pc = "assert" => h.passkey \in PasskeyIds
  /\ h.pc = "record" => /\ h.passkey \in PasskeyIds
                        /\ CounterRises(h.counter, h.signed)

HandlersOK == \A r \in Requests : HandlerOK(req[r])

(***************************************************************************)
(* The steps of a handler that changes only itself, by what it becomes.    *)
(***************************************************************************)
LEMMA IdleTyped ==
  Idle \in Request /\ HandlerOK(Idle)
  BY PasskeysAssumption DEF Idle, Handler, Request, HandlerOK, Registering, Pcs, Counters

LEMMA HandlerTyped ==
  ASSUME NEW pc \in Pcs, NEW user \in Users
  PROVE  /\ Handler(pc, user) \in Request
         /\ pc \notin {"assert", "record"} \cup Registering => HandlerOK(Handler(pc, user))
  BY PasskeysAssumption DEF Handler, Request, HandlerOK, Registering, Pcs, Counters

LEMMA VerifyTyped ==
  ASSUME NEW user \in Users, NEW p \in PasskeyIds, NEW k \in ChallengeIds,
         NEW signed \in Counters, NEW counter \in Counters,
         NEW h, h = [pc |-> "assert", user |-> user, challenge |-> k,
                     credential |-> Null, signed |-> signed, passkey |-> p,
                     counter |-> counter]
  PROVE  h \in Request /\ HandlerOK(h)
  BY DEF Request, HandlerOK, Registering, Pcs

LEMMA RegisterTyped ==
  ASSUME NEW user \in Users, NEW k \in ChallengeIds, NEW c \in Credentials,
         NEW h, h = [pc |-> "consume", user |-> user, challenge |-> k,
                     credential |-> c, signed |-> 0, passkey |-> Null,
                     counter |-> 0]
  PROVE  h \in Request /\ HandlerOK(h)
<1>1. 0 \in Counters
  BY PasskeysAssumption DEF Counters
<1> QED BY <1>1 DEF Request, HandlerOK, Registering, Pcs

LEMMA AwaitTyped ==
  ASSUME NEW h \in Request, HandlerOK(h), h.pc # "idle",
         NEW pc \in Pcs \ {"idle", "consume", "assert", "record"},
         pc \in Registering => h.pc \in Registering,
         NEW g, g = [h EXCEPT !.pc = pc]
  PROVE  g \in Request /\ HandlerOK(g)
  BY DEF Request, HandlerOK, Registering, Pcs

LEMMA AwaitOpenedTyped ==
  ASSUME NEW h \in Request, HandlerOK(h), h.pc # "idle",
         NEW pc \in Pcs \ {"idle", "consume", "assert"},
         pc \in Registering => h.pc \in Registering,
         pc = "record" => h.pc = "assert" /\ CounterRises(h.counter, h.signed),
         NEW g, g = [h EXCEPT !.pc = pc, !.challenge = Null]
  PROVE  g \in Request /\ HandlerOK(g)
<1>1. g = [pc |-> pc, user |-> h.user, challenge |-> Null, credential |-> h.credential,
           signed |-> h.signed, passkey |-> h.passkey, counter |-> h.counter]
  BY DEF Request
<1> QED BY <1>1 DEF Request, HandlerOK, Registering, Pcs

-----------------------------------------------------------------------------
(***************************************************************************)
(* What every step does to the handlers: it leaves them, or one of them    *)
(* finishes, starts or goes on, and all stay well typed.                   *)
(***************************************************************************)
LEMMA OneHandler ==
  ASSUME req \in [Requests -> Request], HandlersOK, NEW r \in Requests,
         NEW h \in Request, HandlerOK(h), req' = [req EXCEPT ![r] = h]
  PROVE  req' \in [Requests -> Request] /\ HandlersOK'
  BY DEF HandlersOK

LEMMA Finishes ==
  ASSUME req \in [Requests -> Request], HandlersOK, NEW r \in Requests, Finish(r)
  PROVE  req' \in [Requests -> Request] /\ HandlersOK'
  BY IdleTyped, OneHandler DEF Finish

LEMMA Awaits ==
  ASSUME req \in [Requests -> Request], HandlersOK, NEW r \in Requests,
         req[r].pc # "idle",
         NEW pc \in Pcs \ {"idle", "consume", "assert", "record"},
         pc \in Registering => req[r].pc \in Registering, Await(r, pc)
  PROVE  req' \in [Requests -> Request] /\ HandlersOK'
<1> DEFINE h == [req[r] EXCEPT !.pc = pc]
<1>1. h \in Request /\ HandlerOK(h)
  BY AwaitTyped DEF HandlersOK
<1>2. req' = [req EXCEPT ![r] = h]
  BY DEF Await
<1> QED BY <1>1, <1>2, OneHandler

LEMMA AwaitsOpened ==
  ASSUME req \in [Requests -> Request], HandlersOK, NEW r \in Requests,
         req[r].pc # "idle", NEW pc \in {"limit", "record"},
         pc \in Registering => req[r].pc \in Registering,
         pc = "record" => req[r].pc = "assert" /\ CounterRises(req[r].counter, req[r].signed),
         AwaitOpened(r, pc)
  PROVE  req' \in [Requests -> Request] /\ HandlersOK'
<1> DEFINE h == [req[r] EXCEPT !.pc = pc, !.challenge = Null]
<1>1. h \in Request /\ HandlerOK(h)
  BY AwaitOpenedTyped DEF HandlersOK, Pcs
<1>2. req' = [req EXCEPT ![r] = h]
  BY DEF AwaitOpened
<1> QED BY <1>1, <1>2, OneHandler

(***************************************************************************)
(* The handlers, step by step.                                             *)
(***************************************************************************)
LEMMA SignInHandlers ==
  ASSUME TypeOK, HandlersOK, NEW r \in Requests, SignInStep(r)
  PROVE  req' \in [Requests -> Request] /\ HandlersOK'
<1> USE DEF TypeOK
<1>1. ASSUME NEW p \in PasskeyIds, NEW k \in ChallengeIds, NEW signed \in Counters,
             VerifySignIn(r, p, k, signed)
      PROVE  req' \in [Requests -> Request] /\ HandlersOK'
  <2>1. passkeys[p] \in Passkey
    BY <1>1 DEF VerifySignIn, Rows
  <2>2. passkeys[p].user \in Users /\ passkeys[p].counter \in Counters
    BY <2>1 DEF Passkey
  <2> DEFINE h == [pc |-> "assert", user |-> passkeys[p].user, challenge |-> k,
                   credential |-> Null, signed |-> signed, passkey |-> p,
                   counter |-> passkeys[p].counter]
  <2>3. h \in Request /\ HandlerOK(h)
    BY <2>2, VerifyTyped
  <2>4. req' = [req EXCEPT ![r] = h]
    BY <1>1 DEF VerifySignIn
  <2> QED BY <2>3, <2>4, OneHandler
<1>2. CASE CheckAssertion(r)
  BY <1>2, Finishes, AwaitsOpened DEF CheckAssertion, Registering, At
<1>3. CASE RecordUse(r)
  <2>1. req[r].user \in Users
    BY <1>3 DEF RecordUse, At, HandlersOK, HandlerOK
  <2>2. /\ Handler("account", req[r].user) \in Request
        /\ HandlerOK(Handler("account", req[r].user))
    BY <2>1, HandlerTyped DEF Registering, Pcs
  <2> QED BY <1>3, <2>2, OneHandler DEF RecordUse
<1>4. CASE Account(r)
  BY <1>4, Finishes, Awaits DEF Account, At, Registering, Pcs
<1>5. CASE PasskeySession(r)
  BY <1>5, Finishes DEF PasskeySession
<1> QED BY <1>1, <1>2, <1>3, <1>4, <1>5 DEF SignInStep

LEMMA RegisterHandlers ==
  ASSUME TypeOK, HandlersOK, NEW r \in Requests, RegisterStep(r)
  PROVE  req' \in [Requests -> Request] /\ HandlersOK'
<1> USE DEF TypeOK
<1>1. ASSUME NEW s \in sessions, RegistrationOptions(r, s)
      PROVE  req' \in [Requests -> Request] /\ HandlersOK'
  <2>1. s[1] \in Users
    OBVIOUS
  <2>2. Handler("user", s[1]) \in Request /\ HandlerOK(Handler("user", s[1]))
    BY <2>1, HandlerTyped DEF Registering, Pcs
  <2> QED BY <1>1, <2>2, OneHandler DEF RegistrationOptions
<1>2. CASE OptionsUser(r)
  BY <1>2, Finishes, Awaits DEF OptionsUser, At, Registering, Pcs
<1>3. CASE OptionsList(r)
  BY <1>3, Finishes, Awaits DEF OptionsList, At, Registering, Pcs
<1>4. CASE OptionsStore(r)
  BY <1>4, Finishes DEF OptionsStore
<1>5. ASSUME NEW s \in sessions, NEW k \in ChallengeIds, NEW c \in Credentials,
             Register(r, s, k, c)
      PROVE  req' \in [Requests -> Request] /\ HandlersOK'
  <2> DEFINE h == [pc |-> "consume", user |-> s[1], challenge |-> k,
                   credential |-> c, signed |-> 0, passkey |-> Null, counter |-> 0]
  <2>1. s[1] \in Users
    OBVIOUS
  <2>2. h \in Request /\ HandlerOK(h)
    BY <2>1, RegisterTyped
  <2> QED BY <1>5, <2>2, OneHandler DEF Register
<1>6. CASE RegisterConsume(r)
  BY <1>6, Finishes, AwaitsOpened DEF RegisterConsume, Registering, At
<1>7. CASE RegisterLimit(r)
  BY <1>7, Finishes, Awaits DEF RegisterLimit, At, Registering, Pcs
<1>8. CASE RegisterAlready(r)
  BY <1>8, Finishes, Awaits DEF RegisterAlready, At, Registering, Pcs
<1>9. CASE RegisterCreate(r)
  BY <1>9, Finishes DEF RegisterCreate
<1> QED BY <1>1, <1>2, <1>3, <1>4, <1>5, <1>6, <1>7, <1>8, <1>9 DEF RegisterStep

LEMMA HandlersStep ==
  ASSUME TypeOK, HandlersOK, [Next]_vars
  PROVE  req' \in [Requests -> Request] /\ HandlersOK'
<1>1. CASE UNCHANGED req
  BY <1>1 DEF TypeOK, HandlersOK
<1>2. CASE Environment
  <2> UNCHANGED req
    BY <1>2 DEF Environment, SignInOptions, Remove, DeleteAllPasskeysForUser,
         RevokeSessions, PurgeChallenges, PruneChallenges, SignIn, SoftDelete, Tick
  <2> QED BY <1>1
<1>3. ASSUME NEW r \in Requests, CutShort(r)
      PROVE  req' \in [Requests -> Request] /\ HandlersOK'
  BY <1>3, Finishes DEF CutShort, TypeOK
<1> QED BY <1>1, <1>2, <1>3, SignInHandlers, RegisterHandlers DEF Next, vars

-----------------------------------------------------------------------------
(***************************************************************************)
(* The tables, the sessions and the clock.                                 *)
(***************************************************************************)
TablesOK ==
  /\ live \subseteq Users
  /\ sessions \subseteq Users \X Nat
  /\ passkeys \in [PasskeyIds -> Passkey \cup {NoPasskey}]
  /\ challenges \in [ChallengeIds -> Challenge \cup {NoChallenge}]
  /\ now \in Nat
  /\ opened \in [ChallengeIds -> Nat]
  /\ signedIn \in [Users -> Nat \cup {Null}]

UniqueCredentials ==
  \A p, q \in Rows : passkeys[p].credential = passkeys[q].credential => p = q

LEMMA StoreTyped ==
  ASSUME TablesOK, NEW k, NEW user \in Users \cup {Null}, StoreChallenge(k, user)
  PROVE  /\ challenges' \in [ChallengeIds -> Challenge \cup {NoChallenge}]
         /\ opened' \in [ChallengeIds -> Nat]
<1> DEFINE c == [user |-> user, expiresAt |-> now + ChallengeTTL, consumed |-> FALSE]
<1>1. now + ChallengeTTL \in Nat
  BY PasskeysAssumption DEF TablesOK
<1>2. c \in Challenge
  BY <1>1 DEF Challenge
<1>3. challenges' = [challenges EXCEPT ![k] = c]
  BY DEF StoreChallenge
<1> QED BY <1>2, <1>3 DEF StoreChallenge, TablesOK

LEMMA ConsumeTyped ==
  ASSUME TablesOK, NEW k \in ChallengeIds, NEW user, Consumable(k, user), Consume(k)
  PROVE  /\ challenges' \in [ChallengeIds -> Challenge \cup {NoChallenge}]
         /\ opened' \in [ChallengeIds -> Nat]
<1>1. challenges[k] \in Challenge
  BY DEF TablesOK, Consumable, NoChallenge
<1>2. [challenges[k] EXCEPT !.consumed = TRUE] \in Challenge
  BY <1>1 DEF Challenge
<1>3. challenges' = [challenges EXCEPT ![k] = [challenges[k] EXCEPT !.consumed = TRUE]]
  BY DEF Consume
<1> QED BY <1>2, <1>3 DEF Consume, TablesOK

LEMMA SessionTyped ==
  ASSUME TablesOK, NEW u \in Users, CreateSession(u)
  PROVE  /\ sessions' \subseteq Users \X Nat
         /\ signedIn' \in [Users -> Nat \cup {Null}]
  BY DEF CreateSession, TablesOK

LEMMA KeepPasskeysTyped ==
  ASSUME TablesOK, NEW kept, KeepPasskeys(kept)
  PROVE  passkeys' \in [PasskeyIds -> Passkey \cup {NoPasskey}]
  BY DEF KeepPasskeys, TablesOK

LEMMA KeepChallengesTyped ==
  ASSUME TablesOK, NEW kept, KeepChallenges(kept)
  PROVE  challenges' \in [ChallengeIds -> Challenge \cup {NoChallenge}]
  BY DEF KeepChallenges, TablesOK

LEMMA RecordTyped ==
  ASSUME TablesOK, NEW p \in Rows, NEW counter \in Counters,
         passkeys' = [passkeys EXCEPT ![p].counter = counter]
  PROVE  passkeys' \in [PasskeyIds -> Passkey \cup {NoPasskey}]
<1>1. p \in PasskeyIds /\ passkeys[p] \in Passkey
  BY DEF Rows, TablesOK
<1>2. [passkeys[p] EXCEPT !.counter = counter] \in Passkey
  BY <1>1 DEF Passkey
<1>3. passkeys' = [passkeys EXCEPT ![p] = [passkeys[p] EXCEPT !.counter = counter]]
  OBVIOUS
<1> QED BY <1>1, <1>2, <1>3 DEF TablesOK

LEMMA CreateTyped ==
  ASSUME TablesOK, NEW p \in PasskeyIds, NEW user \in Users,
         NEW credential \in Credentials, NEW counter \in Counters,
         passkeys' = [passkeys EXCEPT ![p] =
            [user |-> user, credential |-> credential, counter |-> counter]]
  PROVE  passkeys' \in [PasskeyIds -> Passkey \cup {NoPasskey}]
  BY DEF TablesOK, Passkey

(***************************************************************************)
(* No step puts a credential into a second row.                            *)
(***************************************************************************)
LEMMA UniqueKept ==
  ASSUME UniqueCredentials,
         \A p \in Rows' : p \in Rows /\ passkeys'[p].credential = passkeys[p].credential
  PROVE  UniqueCredentials'
  BY DEF UniqueCredentials

LEMMA KeepUnique ==
  ASSUME TablesOK, UniqueCredentials, NEW kept, KeepPasskeys(kept)
  PROVE  UniqueCredentials'
  BY UniqueKept DEF KeepPasskeys, TablesOK, Rows

LEMMA SameUnique ==
  ASSUME UniqueCredentials, passkeys' = passkeys
  PROVE  UniqueCredentials'
  BY DEF UniqueCredentials, Rows

LEMMA RecordUnique ==
  ASSUME TablesOK, UniqueCredentials, NEW p \in Rows, NEW counter \in Counters,
         passkeys' = [passkeys EXCEPT ![p].counter = counter]
  PROVE  UniqueCredentials'
<1>1. p \in PasskeyIds /\ passkeys[p] \in Passkey
  BY DEF Rows, TablesOK
<1>2. \A q \in PasskeyIds : q # p => passkeys'[q] = passkeys[q]
  BY DEF TablesOK
<1>3. passkeys'[p].credential = passkeys[p].credential
  BY <1>1 DEF TablesOK, Passkey
<1>4. \A q \in Rows' : q \in Rows
  BY <1>1, <1>2 DEF Rows
<1> QED BY <1>2, <1>3, <1>4, UniqueKept DEF Rows

LEMMA CreateUnique ==
  ASSUME TablesOK, UniqueCredentials, NEW p \in PasskeyIds \ Rows,
         NEW user, NEW credential, NEW counter, RowsWith(credential) = {},
         passkeys' = [passkeys EXCEPT ![p] =
            [user |-> user, credential |-> credential, counter |-> counter]]
  PROVE  UniqueCredentials'
<1>1. passkeys'[p].credential = credential
  BY DEF TablesOK
<1>2. \A q \in PasskeyIds : q # p => passkeys'[q] = passkeys[q]
  BY DEF TablesOK
<1>3. \A q \in Rows : passkeys[q].credential # credential
  BY DEF RowsWith
<1>4. \A q \in Rows' \ {p} : q \in Rows /\ passkeys'[q] = passkeys[q]
  BY <1>2 DEF Rows
<1> QED BY <1>1, <1>3, <1>4 DEF UniqueCredentials

-----------------------------------------------------------------------------
(***************************************************************************)
(* The tables, step by step.                                               *)
(***************************************************************************)
Tables == <<live, sessions, passkeys, challenges, now, opened, signedIn>>

LEMMA TablesUnchanged ==
  ASSUME TablesOK, UniqueCredentials, UNCHANGED Tables
  PROVE  TablesOK' /\ UniqueCredentials'
  BY SameUnique DEF TablesOK, Tables

LEMMA SignInTables ==
  ASSUME TablesOK, UniqueCredentials, req \in [Requests -> Request], HandlersOK,
         NEW r \in Requests, SignInStep(r)
  PROVE  TablesOK' /\ UniqueCredentials'
<1>1. CASE UNCHANGED Tables
  BY <1>1, TablesUnchanged
<1>2. CASE CheckAssertion(r)
  <2>1. CASE ~Consumable(req[r].challenge, Null)
    BY <1>2, <2>1, <1>1 DEF CheckAssertion, Tables
  <2>2. CASE Consumable(req[r].challenge, Null)
    <3>1. req[r].challenge \in ChallengeIds
      BY <1>2 DEF CheckAssertion, At, HandlersOK, HandlerOK
    <3> QED BY <1>2, <2>2, <3>1, ConsumeTyped, SameUnique DEF CheckAssertion, TablesOK
  <2> QED BY <2>1, <2>2
<1>3. CASE RecordUse(r)
  <2>1. CASE req[r].passkey \notin Rows
    BY <1>3, <2>1, <1>1 DEF RecordUse, Tables, history
  <2>2. CASE req[r].passkey \in Rows
    <3>1. req[r].signed \in Counters
      BY DEF Request
    <3>2. passkeys' = [passkeys EXCEPT ![req[r].passkey].counter = req[r].signed]
      BY <1>3, <2>2 DEF RecordUse
    <3> QED BY <1>3, <2>2, <3>1, <3>2, RecordTyped, RecordUnique
            DEF RecordUse, TablesOK, history
  <2> QED BY <2>1, <2>2
<1>4. CASE PasskeySession(r)
  <2>1. req[r].user \in Users
    BY <1>4 DEF PasskeySession, At, HandlersOK, HandlerOK
  <2> QED BY <1>4, <2>1, SessionTyped, SameUnique DEF PasskeySession, TablesOK
<1>5. CASE Account(r)
  BY <1>5, <1>1 DEF Account, Tables, history
<1>6. ASSUME NEW p \in PasskeyIds, NEW k \in ChallengeIds, NEW signed \in Counters,
             VerifySignIn(r, p, k, signed)
      PROVE  TablesOK' /\ UniqueCredentials'
  BY <1>6, <1>1 DEF VerifySignIn, Tables, history
<1> QED BY <1>2, <1>3, <1>4, <1>5, <1>6 DEF SignInStep

LEMMA RegisterTables ==
  ASSUME TablesOK, UniqueCredentials, req \in [Requests -> Request], HandlersOK,
         NEW r \in Requests, RegisterStep(r)
  PROVE  TablesOK' /\ UniqueCredentials'
<1>1. CASE UNCHANGED Tables
  BY <1>1, TablesUnchanged
<1>2. CASE OptionsStore(r)
  <2>1. req[r].user \in Users
    BY <1>2 DEF OptionsStore, At, HandlersOK, HandlerOK
  <2>2. PICK k \in ChallengeIds : StoreChallenge(k, req[r].user)
    BY <1>2 DEF OptionsStore
  <2> QED BY <1>2, <2>1, <2>2, StoreTyped, SameUnique DEF OptionsStore, TablesOK
<1>3. CASE RegisterConsume(r)
  <2>1. CASE ~Consumable(req[r].challenge, req[r].user)
    BY <1>3, <2>1, <1>1 DEF RegisterConsume, Tables
  <2>2. CASE Consumable(req[r].challenge, req[r].user)
    <3>1. req[r].challenge \in ChallengeIds
      BY <1>3 DEF RegisterConsume, At, HandlersOK, HandlerOK
    <3> QED BY <1>3, <2>2, <3>1, ConsumeTyped, SameUnique DEF RegisterConsume, TablesOK
  <2> QED BY <2>1, <2>2
<1>4. CASE RegisterCreate(r)
  <2>1. CASE IndexRefuses(req[r].credential)
    BY <1>4, <2>1, <1>1 DEF RegisterCreate, Tables, history
  <2>2. CASE ~IndexRefuses(req[r].credential)
    <3>1. req[r].user \in Users /\ req[r].credential \in Credentials
      BY <1>4 DEF RegisterCreate, At, HandlersOK, HandlerOK, Registering
    <3>2. PICK p \in FreePasskeys, counter \in Counters :
             passkeys' = [passkeys EXCEPT ![p] =
                [user |-> req[r].user, credential |-> req[r].credential,
                 counter |-> counter]]
      BY <1>4, <2>2 DEF RegisterCreate
    <3>3. p \in PasskeyIds \ Rows /\ RowsWith(req[r].credential) = {}
      BY <2>2 DEF FreePasskeys, IndexRefuses
    <3>4. UniqueCredentials'
      BY <3>2, <3>3, CreateUnique
    <3>5. passkeys' \in [PasskeyIds -> Passkey \cup {NoPasskey}]
      BY <3>1, <3>2, <3>3, CreateTyped
    <3> QED BY <1>4, <3>4, <3>5 DEF RegisterCreate, TablesOK, history
  <2> QED BY <2>1, <2>2
<1>5. ASSUME NEW s \in sessions, RegistrationOptions(r, s)
      PROVE  TablesOK' /\ UniqueCredentials'
  BY <1>5, <1>1 DEF RegistrationOptions, Tables, history
<1>6. ASSUME NEW s \in sessions, NEW k \in ChallengeIds, NEW c \in Credentials,
             Register(r, s, k, c)
      PROVE  TablesOK' /\ UniqueCredentials'
  BY <1>6, <1>1 DEF Register, Tables, history
<1>7. CASE OptionsUser(r) \/ OptionsList(r) \/ RegisterLimit(r) \/ RegisterAlready(r)
  BY <1>7, <1>1 DEF OptionsUser, OptionsList, RegisterLimit, RegisterAlready, Tables,
     history
<1> QED BY <1>2, <1>3, <1>4, <1>5, <1>6, <1>7 DEF RegisterStep

LEMMA EnvironmentTables ==
  ASSUME TablesOK, UniqueCredentials, Environment
  PROVE  TablesOK' /\ UniqueCredentials'
<1>1. ASSUME NEW k \in ChallengeIds, SignInOptions(k)
      PROVE  TablesOK' /\ UniqueCredentials'
  BY <1>1, StoreTyped, SameUnique DEF SignInOptions, TablesOK
<1>2. ASSUME NEW p \in PasskeyIds, Remove(p)
      PROVE  TablesOK' /\ UniqueCredentials'
  BY <1>2, KeepPasskeysTyped, KeepUnique DEF Remove, TablesOK, history
<1>3. ASSUME NEW u \in Users, DeleteAllPasskeysForUser(u)
      PROVE  TablesOK' /\ UniqueCredentials'
  BY <1>3, KeepPasskeysTyped, KeepUnique DEF DeleteAllPasskeysForUser, TablesOK, history
<1>4. ASSUME NEW u \in Users, RevokeSessions(u) \/ SoftDelete(u)
      PROVE  TablesOK' /\ UniqueCredentials'
  BY <1>4, SameUnique DEF RevokeSessions, SoftDelete, TablesOK, history
<1>5. ASSUME NEW u \in Users, PurgeChallenges(u)
      PROVE  TablesOK' /\ UniqueCredentials'
  BY <1>5, KeepChallengesTyped, SameUnique DEF PurgeChallenges, TablesOK, history
<1>6. CASE PruneChallenges
  BY <1>6, KeepChallengesTyped, SameUnique DEF PruneChallenges, TablesOK, history
<1>7. ASSUME NEW u \in Users, SignIn(u)
      PROVE  TablesOK' /\ UniqueCredentials'
  BY <1>7, SessionTyped, SameUnique DEF SignIn, TablesOK
<1>8. CASE Tick
  BY <1>8, SameUnique DEF Tick, TablesOK, history
<1> QED BY <1>1, <1>2, <1>3, <1>4, <1>5, <1>6, <1>7, <1>8 DEF Environment

TypedInv == TypeOK /\ HandlersOK

LEMMA TypeOKParts == TypeOK <=> TablesOK /\ UniqueCredentials /\ req \in [Requests -> Request]
  BY DEF TypeOK, TablesOK, UniqueCredentials

LEMMA InitTyped == Init => TypedInv
<1> SUFFICES ASSUME Init PROVE TypedInv
  OBVIOUS
<1>1. TablesOK
  BY DEF Init, TablesOK, NoPasskey, NoChallenge
<1>2. UniqueCredentials
  BY DEF Init, UniqueCredentials, Rows
<1>3. req \in [Requests -> Request] /\ HandlersOK
  BY IdleTyped DEF Init, HandlersOK
<1> QED BY <1>1, <1>2, <1>3, TypeOKParts DEF TypedInv

LEMMA TypedStep == TypedInv /\ [Next]_vars => TypedInv'
<1> SUFFICES ASSUME TypedInv, [Next]_vars PROVE TypedInv'
  OBVIOUS
<1>1. TablesOK /\ UniqueCredentials /\ req \in [Requests -> Request] /\ HandlersOK
  BY TypeOKParts DEF TypedInv
<1>2. req' \in [Requests -> Request] /\ HandlersOK'
  BY HandlersStep DEF TypedInv
<1>3. TablesOK' /\ UniqueCredentials'
  <2>1. ASSUME NEW r \in Requests, CutShort(r)
        PROVE  TablesOK' /\ UniqueCredentials'
    BY <1>1, <2>1, TablesUnchanged DEF CutShort, Tables, history
  <2>2. CASE UNCHANGED vars
    BY <1>1, <2>2, TablesUnchanged DEF vars, Tables, history
  <2> QED BY <1>1, <2>1, <2>2, SignInTables, RegisterTables, EnvironmentTables DEF Next
<1>4. (TablesOK /\ UniqueCredentials /\ req \in [Requests -> Request])' => TypeOK'
  BY DEF TypeOK, TablesOK, UniqueCredentials
<1> QED BY <1>2, <1>3, <1>4 DEF TypedInv

LEMMA AlwaysTyped == Spec => []TypedInv
  BY InitTyped, TypedStep, PTL DEF Spec

(***************************************************************************)
(* Every reachable state is well typed, and a credential is in one row.    *)
(***************************************************************************)
THEOREM PasskeysTyped == Spec => []TypeOK
  BY AlwaysTyped, PTL DEF TypedInv

-----------------------------------------------------------------------------
(***************************************************************************)
(* A challenge that has opened a ceremony is consumed.                     *)
(***************************************************************************)
OpenedConsumed ==
  \A k \in ChallengeIds :
    opened[k] = 0 \/ (opened[k] = 1 /\ challenges[k].consumed)

LEMMA StoreOpened ==
  ASSUME TablesOK, OpenedConsumed, NEW k, NEW user, StoreChallenge(k, user)
  PROVE  OpenedConsumed'
  BY DEF OpenedConsumed, StoreChallenge, TablesOK

LEMMA ConsumeOpened ==
  ASSUME TablesOK, OpenedConsumed, NEW k \in ChallengeIds, NEW user,
         Consumable(k, user), Consume(k)
  PROVE  OpenedConsumed'
<1>1. opened[k] = 0 /\ opened'[k] = 1
  BY DEF OpenedConsumed, Consumable, Consume, TablesOK
<1>2. challenges[k] \in Challenge
  BY DEF TablesOK, Consumable, NoChallenge
<1>3. challenges'[k].consumed
  BY <1>2 DEF Consume, TablesOK, Challenge
<1>4. \A q \in ChallengeIds \ {k} : opened'[q] = opened[q] /\ challenges'[q] = challenges[q]
  BY DEF Consume, TablesOK
<1> QED BY <1>1, <1>3, <1>4 DEF OpenedConsumed

LEMMA KeepOpened ==
  ASSUME TablesOK, OpenedConsumed, NEW kept, KeepChallenges(kept), UNCHANGED opened
  PROVE  OpenedConsumed'
  BY DEF OpenedConsumed, KeepChallenges, TablesOK, NoChallenge

LEMMA SameOpened ==
  ASSUME OpenedConsumed, UNCHANGED <<challenges, opened>>
  PROVE  OpenedConsumed'
  BY DEF OpenedConsumed

LEMMA OpenedStep ==
  ASSUME TypedInv, OpenedConsumed, [Next]_vars
  PROVE  OpenedConsumed'
<1>1. TablesOK /\ HandlersOK
  BY TypeOKParts DEF TypedInv
<1>2. CASE UNCHANGED <<challenges, opened>>
  BY <1>2, SameOpened
<1>3. ASSUME NEW k \in ChallengeIds, NEW user, StoreChallenge(k, user)
      PROVE  OpenedConsumed'
  BY <1>1, <1>3, StoreOpened
<1>4. ASSUME NEW kept, KeepChallenges(kept), UNCHANGED opened
      PROVE  OpenedConsumed'
  BY <1>1, <1>4, KeepOpened
<1>5. ASSUME NEW r \in Requests, CheckAssertion(r)
      PROVE  OpenedConsumed'
  <2>1. req[r].challenge \in ChallengeIds
    BY <1>1, <1>5 DEF CheckAssertion, At, HandlersOK, HandlerOK
  <2> QED BY <1>1, <1>2, <1>5, <2>1, ConsumeOpened DEF CheckAssertion
<1>6. ASSUME NEW r \in Requests, RegisterConsume(r)
      PROVE  OpenedConsumed'
  <2>1. req[r].challenge \in ChallengeIds
    BY <1>1, <1>6 DEF RegisterConsume, At, HandlersOK, HandlerOK
  <2> QED BY <1>1, <1>2, <1>6, <2>1, ConsumeOpened DEF RegisterConsume
<1>7. ASSUME NEW r \in Requests, SignInStep(r), ~CheckAssertion(r)
      PROVE  OpenedConsumed'
  BY <1>2, <1>7 DEF SignInStep, VerifySignIn, RecordUse, Account, PasskeySession, history
<1>8. ASSUME NEW r \in Requests, RegisterStep(r), ~RegisterConsume(r)
      PROVE  OpenedConsumed'
  <2>1. CASE OptionsStore(r)
    BY <1>3, <2>1 DEF OptionsStore
  <2> QED BY <1>2, <1>8, <2>1 DEF RegisterStep, RegistrationOptions, OptionsUser,
          OptionsList, Register, RegisterLimit, RegisterAlready, RegisterCreate, history
<1>9. CASE Environment
  <2>1. ASSUME NEW k \in ChallengeIds, SignInOptions(k)
        PROVE  OpenedConsumed'
    BY <1>3, <2>1 DEF SignInOptions
  <2>2. CASE PruneChallenges \/ \E u \in Users : PurgeChallenges(u)
    BY <1>4, <2>2 DEF PruneChallenges, PurgeChallenges, history
  <2> QED BY <1>2, <1>9, <2>1, <2>2 DEF Environment, Remove, DeleteAllPasskeysForUser,
          RevokeSessions, SignIn, SoftDelete, Tick, history
<1> QED BY <1>2, <1>5, <1>6, <1>7, <1>8, <1>9 DEF Next, CutShort, vars, history

(***************************************************************************)
(* However many requests carry a challenge at once, it opens one ceremony. *)
(***************************************************************************)
THEOREM OpensOnce == Spec => []ChallengeOpensOnce
<1>1. Init => OpenedConsumed
  BY DEF Init, OpenedConsumed
<1>2. TypedInv /\ OpenedConsumed /\ [Next]_vars => OpenedConsumed'
  BY OpenedStep
<1>3. OpenedConsumed => ChallengeOpensOnce
  BY DEF OpenedConsumed, ChallengeOpensOnce
<1> QED BY <1>1, <1>2, <1>3, AlwaysTyped, PTL DEF Spec

-----------------------------------------------------------------------------
(***************************************************************************)
(* The limit: a step adds to what counts for an account at most where the  *)
(* check found room, and a row replaces the handler that inserts it.       *)
(***************************************************************************)
LEMMA CountsFinite ==
  ASSUME NEW u
  PROVE  /\ IsFiniteSet(RowsOf(u)) /\ IsFiniteSet(Admitted(u))
         /\ Cardinality(RowsOf(u)) \in Nat /\ Cardinality(Admitted(u)) \in Nat
         /\ Cardinality(Requests) \in Nat /\ Cardinality(Admitted(u)) <= Cardinality(Requests)
<1>1. RowsOf(u) \subseteq PasskeyIds /\ Admitted(u) \subseteq Requests
  BY DEF RowsOf, Rows, Admitted
<1> QED BY <1>1, PasskeysAssumption, FS_Subset, FS_CardinalityType

LEMMA NoMore ==
  ASSUME NEW u \in Users, LimitHolds,
         RowsOf(u)' \subseteq RowsOf(u), Admitted(u)' \subseteq Admitted(u)
  PROVE  Cardinality(RowsOf(u)') + Cardinality(Admitted(u)')
           < MaxPasskeys + Cardinality(Requests)
<1>1. /\ IsFiniteSet(RowsOf(u)') /\ Cardinality(RowsOf(u)') \in Nat
      /\ Cardinality(RowsOf(u)') <= Cardinality(RowsOf(u))
      /\ IsFiniteSet(Admitted(u)') /\ Cardinality(Admitted(u)') \in Nat
      /\ Cardinality(Admitted(u)') <= Cardinality(Admitted(u))
  BY CountsFinite, FS_Subset, FS_CardinalityType
<1>2. Cardinality(RowsOf(u)) + Cardinality(Admitted(u))
        < MaxPasskeys + Cardinality(Requests)
  BY DEF LimitHolds
<1> QED BY <1>1, <1>2, CountsFinite, PasskeysAssumption

(* The handlers past the check are the ones there were.                    *)
NoneAdmitted ==
  \A q \in Requests :
    req'[q].pc \in {"already", "create"} =>
      req[q].pc \in {"already", "create"} /\ req'[q].user = req[q].user

LEMMA AdmittedFewer ==
  ASSUME NoneAdmitted, NEW u
  PROVE  Admitted(u)' \subseteq Admitted(u)
  BY DEF Admitted, NoneAdmitted

LEMMA NoneAdmittedBy ==
  ASSUME req \in [Requests -> Request], NEW r \in Requests, NEW h,
         req' = [req EXCEPT ![r] = h],
         \/ h.pc \notin {"already", "create"}
         \/ req[r].pc \in {"already", "create"} /\ h.user = req[r].user
  PROVE  NoneAdmitted
  BY DEF NoneAdmitted

LEMMA FinishAdmitsNone ==
  ASSUME req \in [Requests -> Request], NEW r \in Requests, Finish(r)
  PROVE  NoneAdmitted
<1>1. Idle.pc = "idle"
  BY DEF Idle, Handler
<1> QED BY <1>1, NoneAdmittedBy DEF Finish

LEMMA AwaitAdmitsNone ==
  ASSUME req \in [Requests -> Request], NEW r \in Requests, NEW pc,
         Await(r, pc) \/ AwaitOpened(r, pc),
         pc \notin {"already", "create"} \/ (pc = "create" /\ req[r].pc = "already"
                                              /\ Await(r, pc))
  PROVE  NoneAdmitted
  BY DEF NoneAdmitted, Await, AwaitOpened, Request

LEMMA RowsFewer ==
  ASSUME TablesOK, NEW u \in Users,
         \/ UNCHANGED passkeys
         \/ \E kept : KeepPasskeys(kept)
         \/ \E p \in Rows : \E counter : passkeys' = [passkeys EXCEPT ![p].counter = counter]
  PROVE  RowsOf(u)' \subseteq RowsOf(u)
<1>1. CASE UNCHANGED passkeys
  BY <1>1 DEF RowsOf, Rows
<1>2. ASSUME NEW kept, KeepPasskeys(kept)
      PROVE  RowsOf(u)' \subseteq RowsOf(u)
  BY <1>2 DEF RowsOf, Rows, KeepPasskeys
<1>3. ASSUME NEW p \in Rows, NEW counter,
             passkeys' = [passkeys EXCEPT ![p].counter = counter]
      PROVE  RowsOf(u)' \subseteq RowsOf(u)
  <2>1. p \in PasskeyIds /\ passkeys[p] \in Passkey
    BY DEF Rows, TablesOK
  <2>2. passkeys'[p].user = passkeys[p].user
    BY <1>3, <2>1 DEF TablesOK, Passkey
  <2>3. \A q \in PasskeyIds \ {p} : passkeys'[q] = passkeys[q]
    BY <1>3 DEF TablesOK
  <2> QED BY <2>2, <2>3 DEF RowsOf, Rows
<1> QED BY <1>1, <1>2, <1>3

LEMMA LimitCase ==
  ASSUME TypedInv, LimitHolds, NEW r \in Requests, RegisterLimit(r)
  PROVE  LimitHolds'
<1>1. TablesOK /\ req \in [Requests -> Request]
  BY TypeOKParts DEF TypedInv
<1>2. \A u \in Users : RowsOf(u)' \subseteq RowsOf(u) /\ RowsOf(u)' = RowsOf(u)
  BY DEF RegisterLimit, RowsOf, Rows
<1>3. CASE NoneAdmitted
  BY <1>2, <1>3, AdmittedFewer, NoMore DEF LimitHolds
<1>4. CASE BelowLimit(req[r].user) /\ Await(r, "already")
  <2> SUFFICES ASSUME NEW u \in Users
               PROVE  Cardinality(RowsOf(u)') + Cardinality(Admitted(u)')
                        < MaxPasskeys + Cardinality(Requests)
    BY DEF LimitHolds
  <2>1. CASE u = req[r].user
    <3>1. Admitted(u)' \subseteq Requests
      BY DEF Admitted
    <3>2. /\ Cardinality(Admitted(u)') \in Nat
          /\ Cardinality(Admitted(u)') <= Cardinality(Requests)
      BY <3>1, PasskeysAssumption, FS_Subset, FS_CardinalityType
    <3>3. Cardinality(RowsOf(u)') < MaxPasskeys /\ Cardinality(RowsOf(u)') \in Nat
      BY <1>2, <1>4, <2>1, CountsFinite DEF BelowLimit
    <3>4. Cardinality(Requests) \in Nat /\ MaxPasskeys \in Nat
      BY CountsFinite, PasskeysAssumption
    <3> QED BY <3>2, <3>3, <3>4
  <2>2. CASE u # req[r].user
    <3>1. Admitted(u)' \subseteq Admitted(u)
      BY <1>1, <1>4, <2>2 DEF Admitted, Await, Request
    <3> QED BY <1>2, <3>1, NoMore
  <2> QED BY <2>1, <2>2
<1> QED BY <1>1, <1>3, <1>4, FinishAdmitsNone DEF RegisterLimit

LEMMA CreateCase ==
  ASSUME TypedInv, LimitHolds, NEW r \in Requests, RegisterCreate(r)
  PROVE  LimitHolds'
<1>1. TablesOK /\ req \in [Requests -> Request]
  BY TypeOKParts DEF TypedInv
<1>2. NoneAdmitted
  BY <1>1, FinishAdmitsNone DEF RegisterCreate
<1> SUFFICES ASSUME NEW u \in Users
             PROVE  Cardinality(RowsOf(u)') + Cardinality(Admitted(u)')
                      < MaxPasskeys + Cardinality(Requests)
  BY DEF LimitHolds
<1>3. Admitted(u)' \subseteq Admitted(u)
  BY <1>2, AdmittedFewer
<1>4. CASE UNCHANGED passkeys
  <2>1. RowsOf(u)' \subseteq RowsOf(u)
    BY <1>1, <1>4, RowsFewer
  <2> QED BY <1>3, <2>1, NoMore
<1>5. ASSUME NEW p \in FreePasskeys, NEW counter \in Counters,
             passkeys' = [passkeys EXCEPT ![p] =
                [user |-> req[r].user, credential |-> req[r].credential,
                 counter |-> counter]]
      PROVE  Cardinality(RowsOf(u)') + Cardinality(Admitted(u)')
               < MaxPasskeys + Cardinality(Requests)
  <2>1. /\ p \in PasskeyIds \ Rows
        /\ passkeys'[p].user = req[r].user
        /\ \A q \in PasskeyIds \ {p} : passkeys'[q] = passkeys[q]
    BY <1>1, <1>5 DEF FreePasskeys, TablesOK
  <2>2. CASE u # req[r].user
    <3>1. RowsOf(u)' \subseteq RowsOf(u)
      BY <2>1, <2>2 DEF RowsOf, Rows
    <3> QED BY <1>3, <3>1, NoMore
  <2>3. CASE u = req[r].user
    <3>1. p \notin RowsOf(u) /\ RowsOf(u)' \subseteq RowsOf(u) \cup {p}
      BY <2>1 DEF RowsOf, Rows
    <3>2. r \in Admitted(u)
      BY <2>3 DEF RegisterCreate, At, Admitted
    <3>3. r \notin Admitted(u)'
      BY <1>1 DEF RegisterCreate, Finish, Idle, Handler, Admitted
    <3>4. Admitted(u)' \subseteq Admitted(u) \ {r}
      BY <1>3, <3>3
    <3>5. /\ Cardinality(RowsOf(u) \cup {p}) = Cardinality(RowsOf(u)) + 1
          /\ IsFiniteSet(RowsOf(u) \cup {p})
      BY <3>1, CountsFinite, FS_AddElement
    <3>6. /\ Cardinality(Admitted(u) \ {r}) = Cardinality(Admitted(u)) - 1
          /\ IsFiniteSet(Admitted(u) \ {r})
      BY <3>2, CountsFinite, FS_RemoveElement
    <3>7. /\ Cardinality(RowsOf(u)') \in Nat
          /\ Cardinality(RowsOf(u)') <= Cardinality(RowsOf(u)) + 1
      BY <3>1, <3>5, FS_Subset, FS_CardinalityType
    <3>8. /\ Cardinality(Admitted(u)') \in Nat
          /\ Cardinality(Admitted(u)') <= Cardinality(Admitted(u)) - 1
      BY <3>4, <3>6, FS_Subset, FS_CardinalityType
    <3>9. Cardinality(RowsOf(u)) + Cardinality(Admitted(u))
            < MaxPasskeys + Cardinality(Requests)
      BY DEF LimitHolds
    <3> QED BY <3>7, <3>8, <3>9, CountsFinite, PasskeysAssumption
  <2> QED BY <2>2, <2>3
<1> QED BY <1>4, <1>5 DEF RegisterCreate

LEMMA LimitStep ==
  ASSUME TypedInv, LimitHolds, [Next]_vars
  PROVE  LimitHolds'
<1>1. TablesOK /\ req \in [Requests -> Request]
  BY TypeOKParts DEF TypedInv
<1>2. ASSUME NoneAdmitted, \A u \in Users : RowsOf(u)' \subseteq RowsOf(u)
      PROVE  LimitHolds'
  BY <1>2, AdmittedFewer, NoMore DEF LimitHolds
<1>3. CASE UNCHANGED req /\ UNCHANGED passkeys
  <2>1. NoneAdmitted
    BY <1>3 DEF NoneAdmitted
  <2> QED BY <1>1, <1>2, <1>3, <2>1, RowsFewer
<1>4. ASSUME NoneAdmitted, UNCHANGED passkeys
      PROVE  LimitHolds'
  BY <1>1, <1>2, <1>4, RowsFewer
<1>5. ASSUME NEW r \in Requests, SignInStep(r)
      PROVE  LimitHolds'
  <2>1. NoneAdmitted
    <3>1. ASSUME NEW p \in PasskeyIds, NEW k \in ChallengeIds, NEW signed \in Counters,
                 VerifySignIn(r, p, k, signed)
          PROVE  NoneAdmitted
      BY <1>1, <3>1, NoneAdmittedBy DEF VerifySignIn
    <3>2. CASE RecordUse(r)
      <4>1. Handler("account", req[r].user).pc = "account"
        BY DEF Handler
      <4> QED BY <1>1, <3>2, <4>1, NoneAdmittedBy DEF RecordUse
    <3>3. CASE CheckAssertion(r)
      BY <1>1, <3>3, FinishAdmitsNone, AwaitAdmitsNone DEF CheckAssertion
    <3>4. CASE Account(r)
      BY <1>1, <3>4, FinishAdmitsNone, AwaitAdmitsNone DEF Account
    <3>5. CASE PasskeySession(r)
      BY <1>1, <3>5, FinishAdmitsNone DEF PasskeySession
    <3> QED BY <1>5, <3>1, <3>2, <3>3, <3>4, <3>5 DEF SignInStep
  <2>2. CASE UNCHANGED passkeys
    BY <1>4, <2>1, <2>2
  <2>3. CASE RecordUse(r)
    <3>1. \A u \in Users : RowsOf(u)' \subseteq RowsOf(u)
      BY <1>1, <2>3, RowsFewer DEF RecordUse
    <3> QED BY <1>2, <2>1, <3>1
  <2> QED BY <1>5, <2>2, <2>3 DEF SignInStep, VerifySignIn, CheckAssertion, Account,
          PasskeySession
<1>6. ASSUME NEW r \in Requests, RegisterStep(r), ~RegisterLimit(r), ~RegisterCreate(r)
      PROVE  LimitHolds'
  <2>1. NoneAdmitted
    <3>1. ASSUME NEW s \in sessions, RegistrationOptions(r, s)
          PROVE  NoneAdmitted
      <4>1. Handler("user", s[1]).pc = "user"
        BY DEF Handler
      <4> QED BY <1>1, <3>1, <4>1, NoneAdmittedBy DEF RegistrationOptions
    <3>2. ASSUME NEW s \in sessions, NEW k \in ChallengeIds, NEW c \in Credentials,
                 Register(r, s, k, c)
          PROVE  NoneAdmitted
      BY <1>1, <3>2, NoneAdmittedBy DEF Register
    <3>3. CASE OptionsUser(r) \/ OptionsList(r) \/ OptionsStore(r) \/ RegisterConsume(r)
      BY <1>1, <3>3, FinishAdmitsNone, AwaitAdmitsNone
         DEF OptionsUser, OptionsList, OptionsStore, RegisterConsume
    <3>4. CASE RegisterAlready(r)
      BY <1>1, <3>4, FinishAdmitsNone, AwaitAdmitsNone DEF RegisterAlready, At
    <3> QED BY <1>6, <3>1, <3>2, <3>3, <3>4 DEF RegisterStep
  <2>2. UNCHANGED passkeys
    BY <1>6 DEF RegisterStep, RegistrationOptions, OptionsUser, OptionsList,
       OptionsStore, Register, RegisterConsume, RegisterAlready
  <2> QED BY <1>4, <2>1, <2>2
<1>7. ASSUME NEW r \in Requests, CutShort(r)
      PROVE  LimitHolds'
  BY <1>1, <1>4, <1>7, FinishAdmitsNone DEF CutShort
<1>8. CASE Environment
  <2>1. UNCHANGED req
    BY <1>8 DEF Environment, SignInOptions, Remove, DeleteAllPasskeysForUser,
       RevokeSessions, PurgeChallenges, PruneChallenges, SignIn, SoftDelete, Tick
  <2>2. CASE UNCHANGED passkeys
    BY <1>3, <2>1, <2>2
  <2>3. ASSUME NEW kept, KeepPasskeys(kept)
        PROVE  LimitHolds'
    <3>1. NoneAdmitted
      BY <2>1 DEF NoneAdmitted
    <3> QED BY <1>1, <1>2, <2>3, <3>1, RowsFewer
  <2> QED BY <1>8, <2>2, <2>3 DEF Environment, SignInOptions, Remove,
          DeleteAllPasskeysForUser, RevokeSessions, PurgeChallenges, PruneChallenges,
          SignIn, SoftDelete, Tick
<1> QED BY <1>3, <1>5, <1>6, <1>7, <1>8, LimitCase, CreateCase DEF Next, vars

(***************************************************************************)
(* However many registrations run at once, an account is past the limit by *)
(* fewer than there are.                                                   *)
(***************************************************************************)
THEOREM LimitKept == Spec => []LimitHolds
<1>1. Init => LimitHolds
  <2> SUFFICES ASSUME Init, NEW u \in Users
               PROVE  Cardinality(RowsOf(u)) + Cardinality(Admitted(u))
                        < MaxPasskeys + Cardinality(Requests)
    BY DEF LimitHolds
  <2>1. RowsOf(u) = {} /\ Admitted(u) = {}
    BY DEF Init, RowsOf, Rows, Admitted, Idle, Handler
  <2> QED BY <2>1, CountsFinite, FS_EmptySet, PasskeysAssumption
<1>2. TypedInv /\ LimitHolds /\ [Next]_vars => LimitHolds'
  BY LimitStep
<1> QED BY <1>1, <1>2, AlwaysTyped, PTL DEF Spec

-----------------------------------------------------------------------------
(***************************************************************************)
(* Freshness: of a user that signed in, and late enough for t.  A session  *)
(* is no younger than the last sign-in, a request for options runs while   *)
(* it is fresh, and a challenge to register expires a lifetime later.      *)
(***************************************************************************)
Fresh(u, t) == signedIn[u] # Null /\ t <= signedIn[u] + FreshLogin

RequestsFresh ==
  \A r \in Requests :
    req[r].pc \in {"user", "list", "store"} => Fresh(req[r].user, now)

OfFresh(c) ==
  c.user # Null => \E t \in Nat : Fresh(c.user, t) /\ c.expiresAt <= t + ChallengeTTL

ChallengesFresh == \A k \in ChallengeIds : OfFresh(challenges[k])

FreshInv ==
  /\ \A u \in Users : signedIn[u] # Null => signedIn[u] <= now
  /\ \A s \in sessions : signedIn[s[1]] # Null /\ s[2] <= signedIn[s[1]]
  /\ RequestsFresh
  /\ ChallengesFresh

(* The last sign-ins and the clock go forward.                             *)
Forward ==
  \A u \in Users :
    /\ signedIn[u] # Null => signedIn'[u] # Null /\ signedIn'[u] >= signedIn[u]
    /\ signedIn'[u] # Null => signedIn'[u] <= now'

LEMMA SessionForward ==
  ASSUME TypeOK, FreshInv, NEW u \in Users, CreateSession(u), UNCHANGED now
  PROVE  /\ Forward
         /\ \A s \in sessions' : signedIn'[s[1]] # Null /\ s[2] <= signedIn'[s[1]]
<1>1. signedIn' = [signedIn EXCEPT ![u] = now] /\ sessions' = sessions \cup {<<u, now>>}
  BY DEF CreateSession
<1>2. Forward
  BY <1>1, PasskeysAssumption DEF Forward, TypeOK, FreshInv
<1>3. signedIn'[u] = now /\ now # Null
  BY <1>1, PasskeysAssumption DEF TypeOK
<1>4. ASSUME NEW s \in sessions'
      PROVE  signedIn'[s[1]] # Null /\ s[2] <= signedIn'[s[1]]
  <2>1. CASE s = <<u, now>>
    BY <1>3, <2>1 DEF TypeOK
  <2>2. CASE s \in sessions
    <3>1. s[1] \in Users /\ s[2] \in Nat
      BY <2>2 DEF TypeOK
    <3>2. signedIn[s[1]] # Null /\ s[2] <= signedIn[s[1]]
      BY <2>2 DEF FreshInv
    <3>3. signedIn[s[1]] \in Nat
      BY <3>1, <3>2 DEF TypeOK
    <3>4. signedIn'[s[1]] \in Nat
      BY <1>1, <3>1, <3>3 DEF TypeOK
    <3> QED BY <1>2, <3>1, <3>2, <3>3, <3>4 DEF Forward
  <2> QED BY <1>1, <2>1, <2>2
<1> QED BY <1>2, <1>4

LEMMA ForwardStep ==
  ASSUME TypedInv, FreshInv, [Next]_vars
  PROVE  /\ Forward
         /\ \A s \in sessions' : signedIn'[s[1]] # Null /\ s[2] <= signedIn'[s[1]]
<1> DEFINE G == \A s \in sessions' : signedIn'[s[1]] # Null /\ s[2] <= signedIn'[s[1]]
<1>1. ASSUME UNCHANGED signedIn, sessions' \subseteq sessions, now' >= now, now' \in Nat
      PROVE  Forward /\ G
  BY <1>1 DEF Forward, FreshInv, TypedInv, TypeOK
<1>2. CASE UNCHANGED <<signedIn, sessions, now>>
  BY <1>1, <1>2 DEF TypedInv, TypeOK
<1>3. ASSUME NEW r \in Requests, PasskeySession(r)
      PROVE  Forward /\ G
  <2>1. req[r].user \in Users
    BY <1>3 DEF PasskeySession, At, TypedInv, HandlersOK, HandlerOK
  <2> QED BY <1>3, <2>1, SessionForward DEF PasskeySession, TypedInv
<1>4. ASSUME NEW r \in Requests, SignInStep(r), ~PasskeySession(r)
      PROVE  UNCHANGED <<signedIn, sessions, now>>
  BY <1>4 DEF SignInStep, VerifySignIn, CheckAssertion, RecordUse, Account, history
<1>5. ASSUME NEW r \in Requests, RegisterStep(r)
      PROVE  UNCHANGED <<signedIn, sessions, now>>
  BY <1>5 DEF RegisterStep, RegistrationOptions, OptionsUser, OptionsList,
     OptionsStore, Register, RegisterConsume, RegisterLimit, RegisterAlready,
     RegisterCreate, history
<1>6. CASE Environment
  <2>1. ASSUME NEW u \in Users, SignIn(u)
        PROVE  Forward /\ G
    BY <2>1, SessionForward DEF SignIn, TypedInv
  <2>2. CASE Tick
    BY <1>1, <2>2 DEF Tick, TypedInv, TypeOK, history
  <2>3. ASSUME NEW u \in Users, RevokeSessions(u)
        PROVE  Forward /\ G
    BY <1>1, <2>3 DEF RevokeSessions, TypedInv, TypeOK, history
  <2>4. CASE ~Tick /\ ~(\E u \in Users : SignIn(u) \/ RevokeSessions(u))
    BY <1>2, <1>6, <2>4 DEF Environment, SignInOptions, Remove,
       DeleteAllPasskeysForUser, PurgeChallenges, PruneChallenges, SoftDelete, history
  <2> QED BY <2>1, <2>2, <2>3, <2>4
<1>7. ASSUME NEW r \in Requests, CutShort(r)
      PROVE  UNCHANGED <<signedIn, sessions, now>>
  BY <1>7 DEF CutShort, history
<1> QED BY <1>2, <1>3, <1>4, <1>5, <1>6, <1>7 DEF Next, vars, history

LEMMA FreshForward ==
  ASSUME TypedInv, TypeOK', Forward, NEW u \in Users, NEW t \in Nat, Fresh(u, t)
  PROVE  Fresh(u, t)'
  BY PasskeysAssumption DEF Fresh, Forward, TypedInv, TypeOK

(***************************************************************************)
(* A handler that is at a statement of registrationOptions afterwards was  *)
(* at one before, of the same user, or starts from a fresh session.        *)
(***************************************************************************)
OptionsKept ==
  \A q \in Requests :
    req'[q].pc \in {"user", "list", "store"} =>
      /\ req[q].pc \in {"user", "list", "store"}
      /\ req'[q].user = req[q].user

LEMMA OptionsKeptBy ==
  ASSUME req \in [Requests -> Request], NEW r \in Requests, NEW h,
         req' = [req EXCEPT ![r] = h], h.pc \notin {"user", "list", "store"}
  PROVE  OptionsKept
  BY DEF OptionsKept

LEMMA FinishKept ==
  ASSUME req \in [Requests -> Request], NEW r \in Requests, Finish(r)
  PROVE  OptionsKept
<1>1. Idle.pc = "idle"
  BY DEF Idle, Handler
<1> QED BY <1>1, OptionsKeptBy DEF Finish

LEMMA AwaitKept ==
  ASSUME req \in [Requests -> Request], NEW r \in Requests, NEW pc,
         Await(r, pc) \/ AwaitOpened(r, pc),
         \/ pc \notin {"user", "list", "store"}
         \/ pc # "user" /\ Await(r, pc) /\ req[r].pc \in {"user", "list"}
  PROVE  OptionsKept
  BY DEF OptionsKept, Await, AwaitOpened, Request

LEMMA KeptFresh ==
  ASSUME TypedInv, TypedInv', FreshInv, Forward, OptionsKept, UNCHANGED now
  PROVE  RequestsFresh'
<1> SUFFICES ASSUME NEW r \in Requests, req'[r].pc \in {"user", "list", "store"}
             PROVE  Fresh(req[r].user, now)'
  BY DEF RequestsFresh
<1>1. req[r].pc \in {"user", "list", "store"} /\ req'[r].user = req[r].user
  BY DEF OptionsKept
<1>2. req[r].user \in Users
  BY <1>1 DEF TypedInv, HandlersOK, HandlerOK
<1>3. Fresh(req[r].user, now)
  BY <1>1 DEF FreshInv, RequestsFresh
<1>4. now \in Nat /\ TypeOK'
  BY DEF TypedInv, TypeOK
<1>5. Fresh(req[r].user, now)' <=> (signedIn'[req[r].user] # Null
         /\ now <= signedIn'[req[r].user] + FreshLogin)
  BY <1>1 DEF Fresh
<1>6. signedIn[req[r].user] \in Nat /\ signedIn'[req[r].user] \in Nat \cup {Null}
  BY <1>2, <1>3 DEF TypedInv, TypeOK, Fresh
<1> QED BY <1>2, <1>3, <1>4, <1>5, <1>6, PasskeysAssumption DEF Fresh, Forward

LEMMA OptionsStart ==
  ASSUME TypedInv, FreshInv, NEW r \in Requests, NEW s \in sessions,
         RegistrationOptions(r, s)
  PROVE  RequestsFresh'
<1>1. s[1] \in Users /\ s[2] \in Nat /\ now \in Nat
  BY DEF TypedInv, TypeOK
<1>2. signedIn[s[1]] # Null /\ s[2] <= signedIn[s[1]]
  BY DEF FreshInv
<1>3. signedIn[s[1]] \in Nat
  BY <1>1, <1>2 DEF TypedInv, TypeOK
<1>4. now <= s[2] + FreshLogin
  BY <1>1, PasskeysAssumption DEF RegistrationOptions
<1>5. Fresh(s[1], now)
  BY <1>1, <1>2, <1>3, <1>4, PasskeysAssumption DEF Fresh
<1>6. /\ req' = [req EXCEPT ![r] = Handler("user", s[1])]
      /\ UNCHANGED <<now, signedIn>>
  BY DEF RegistrationOptions, history
<1>7. Handler("user", s[1]).user = s[1]
  BY DEF Handler
<1>8. req \in [Requests -> Request]
  BY DEF TypedInv, TypeOK
<1>9. \A q \in Requests : req'[q].pc \in {"user", "list", "store"} =>
        Fresh(req'[q].user, now)
  BY <1>5, <1>6, <1>7, <1>8 DEF FreshInv, RequestsFresh
<1> QED BY <1>6, <1>9 DEF RequestsFresh, Fresh

LEMMA RequestsFreshStep ==
  ASSUME TypedInv, TypedInv', FreshInv, Forward, [Next]_vars
  PROVE  RequestsFresh'
<1>1. req \in [Requests -> Request]
  BY DEF TypedInv, TypeOK
<1>2. ASSUME OptionsKept, UNCHANGED now
      PROVE  RequestsFresh'
  BY <1>2, KeptFresh
<1>3. CASE UNCHANGED <<req, now>>
  BY <1>2, <1>3 DEF OptionsKept
<1>4. ASSUME NEW r \in Requests, SignInStep(r)
      PROVE  RequestsFresh'
  <2>1. UNCHANGED now
    BY <1>4 DEF SignInStep, VerifySignIn, CheckAssertion, RecordUse, Account,
       PasskeySession
  <2>2. ASSUME NEW p \in PasskeyIds, NEW k \in ChallengeIds, NEW signed \in Counters,
               VerifySignIn(r, p, k, signed)
        PROVE  OptionsKept
    BY <1>1, <2>2, OptionsKeptBy DEF VerifySignIn
  <2>3. CASE CheckAssertion(r)
    BY <1>1, <1>2, <2>1, <2>3, FinishKept, AwaitKept DEF CheckAssertion
  <2>4. CASE RecordUse(r)
    <3>1. Handler("account", req[r].user).pc = "account"
      BY DEF Handler
    <3> QED BY <1>1, <1>2, <2>1, <2>4, <3>1, OptionsKeptBy DEF RecordUse
  <2>5. CASE Account(r) \/ PasskeySession(r)
    BY <1>1, <1>2, <2>1, <2>5, FinishKept, AwaitKept DEF Account, PasskeySession
  <2> QED BY <1>2, <1>4, <2>1, <2>2, <2>3, <2>4, <2>5 DEF SignInStep
<1>5. ASSUME NEW r \in Requests, RegisterStep(r)
      PROVE  RequestsFresh'
  <2>1. UNCHANGED now
    BY <1>5 DEF RegisterStep, RegistrationOptions, OptionsUser, OptionsList,
       OptionsStore, Register, RegisterConsume, RegisterLimit, RegisterAlready,
       RegisterCreate
  <2>2. ASSUME NEW s \in sessions, RegistrationOptions(r, s)
        PROVE  RequestsFresh'
    BY <2>2, OptionsStart
  <2>3. CASE OptionsUser(r) \/ OptionsList(r) \/ OptionsStore(r)
    BY <1>1, <1>2, <2>1, <2>3, FinishKept, AwaitKept
       DEF OptionsUser, OptionsList, OptionsStore, At
  <2>4. ASSUME NEW s \in sessions, NEW k \in ChallengeIds, NEW c \in Credentials,
               Register(r, s, k, c)
        PROVE  OptionsKept
    BY <1>1, <2>4, OptionsKeptBy DEF Register
  <2>5. CASE RegisterConsume(r) \/ RegisterLimit(r)
    BY <1>1, <1>2, <2>1, <2>5, FinishKept, AwaitKept DEF RegisterConsume, RegisterLimit
  <2>6. CASE RegisterAlready(r) \/ RegisterCreate(r)
    BY <1>1, <1>2, <2>1, <2>6, FinishKept, AwaitKept DEF RegisterAlready, RegisterCreate
  <2> QED BY <1>2, <1>5, <2>1, <2>2, <2>3, <2>4, <2>5, <2>6 DEF RegisterStep
<1>6. ASSUME NEW r \in Requests, CutShort(r)
      PROVE  RequestsFresh'
  BY <1>1, <1>2, <1>6, FinishKept DEF CutShort
<1>7. CASE Tick
  BY <1>7 DEF Tick, RequestsFresh
<1>8. CASE Environment /\ ~Tick
  BY <1>3, <1>8 DEF Environment, SignInOptions, Remove, DeleteAllPasskeysForUser,
     RevokeSessions, PurgeChallenges, PruneChallenges, SignIn, SoftDelete
<1> QED BY <1>3, <1>4, <1>5, <1>6, <1>7, <1>8 DEF Next, vars

(***************************************************************************)
(* The challenges afterwards are the ones before, or new ones to sign in,  *)
(* or new ones of a user that is fresh now.                                *)
(***************************************************************************)
ChallengesKept ==
  \A k \in ChallengeIds :
    challenges'[k].user # Null =>
      \/ /\ challenges'[k].user = challenges[k].user
         /\ challenges'[k].expiresAt = challenges[k].expiresAt
      \/ /\ challenges'[k].user \in Users
         /\ Fresh(challenges'[k].user, now)
         /\ challenges'[k].expiresAt = now + ChallengeTTL

LEMMA ChallengesKeptFresh ==
  ASSUME TypedInv, TypedInv', FreshInv, Forward, ChallengesKept
  PROVE  ChallengesFresh'
<1> SUFFICES ASSUME NEW k \in ChallengeIds, challenges'[k].user # Null
             PROVE  \E t \in Nat : /\ Fresh(challenges[k].user, t)'
                                   /\ challenges'[k].expiresAt <= t + ChallengeTTL
  BY DEF ChallengesFresh, OfFresh, Fresh
<1> DEFINE u == challenges'[k].user
<1>1. PICK t \in Nat : u \in Users /\ Fresh(u, t) /\ challenges'[k].expiresAt <= t + ChallengeTTL
  <2>1. CASE u = challenges[k].user /\ challenges'[k].expiresAt = challenges[k].expiresAt
    <3>1. challenges[k] \in Challenge
      BY <2>1 DEF TypedInv, TypeOK, NoChallenge
    <3>2. u \in Users
      BY <2>1, <3>1 DEF Challenge
    <3> QED BY <2>1, <3>2 DEF FreshInv, ChallengesFresh, OfFresh
  <2>2. CASE /\ u \in Users /\ Fresh(u, now)
             /\ challenges'[k].expiresAt = now + ChallengeTTL
    <3>1. now \in Nat /\ challenges'[k].expiresAt <= now + ChallengeTTL
      BY <2>2, PasskeysAssumption DEF TypedInv, TypeOK
    <3> QED BY <2>2, <3>1
  <2> QED BY <2>1, <2>2 DEF ChallengesKept
<1>2. signedIn[u] \in Nat /\ signedIn'[u] \in Nat /\ signedIn'[u] # Null
      /\ signedIn'[u] >= signedIn[u]
  BY <1>1 DEF Fresh, Forward, TypedInv, TypeOK
<1>3. t <= signedIn'[u] + FreshLogin
  BY <1>1, <1>2, PasskeysAssumption DEF Fresh
<1>4. Fresh(challenges[k].user, t)' <=> signedIn'[u] # Null /\ t <= signedIn'[u] + FreshLogin
  BY DEF Fresh
<1> QED BY <1>1, <1>2, <1>3, <1>4

LEMMA StoreKept ==
  ASSUME TypedInv, NEW k \in ChallengeIds, NEW user \in Users \cup {Null},
         StoreChallenge(k, user), user = Null \/ Fresh(user, now)
  PROVE  ChallengesKept
<1>1. challenges' = [challenges EXCEPT ![k] =
         [user |-> user, expiresAt |-> now + ChallengeTTL, consumed |-> FALSE]]
  BY DEF StoreChallenge
<1>2. challenges'[k] =
         [user |-> user, expiresAt |-> now + ChallengeTTL, consumed |-> FALSE]
  BY <1>1 DEF TypedInv, TypeOK
<1>3. \A q \in ChallengeIds \ {k} : challenges'[q] = challenges[q]
  BY <1>1 DEF TypedInv, TypeOK
<1>4. challenges'[k].user = user /\ challenges'[k].expiresAt = now + ChallengeTTL
  BY <1>2
<1> QED BY <1>3, <1>4 DEF ChallengesKept

LEMMA ConsumeKept ==
  ASSUME TypedInv, NEW k \in ChallengeIds, NEW user, Consumable(k, user), Consume(k)
  PROVE  ChallengesKept
<1>1. challenges[k] \in Challenge
  BY DEF TypedInv, TypeOK, Consumable, NoChallenge
<1>2. /\ challenges'[k].user = challenges[k].user
      /\ challenges'[k].expiresAt = challenges[k].expiresAt
  BY <1>1 DEF Consume, TypedInv, TypeOK, Challenge
<1>3. \A q \in ChallengeIds \ {k} : challenges'[q] = challenges[q]
  BY DEF Consume, TypedInv, TypeOK
<1> QED BY <1>2, <1>3 DEF ChallengesKept

LEMMA KeepKept ==
  ASSUME NEW kept, KeepChallenges(kept)
  PROVE  ChallengesKept
  BY DEF ChallengesKept, KeepChallenges, NoChallenge

LEMMA ChallengesFreshStep ==
  ASSUME TypedInv, FreshInv, [Next]_vars
  PROVE  ChallengesKept
<1>1. CASE UNCHANGED challenges
  BY <1>1 DEF ChallengesKept
<1>2. ASSUME NEW r \in Requests, SignInStep(r)
      PROVE  ChallengesKept
  <2>1. CASE CheckAssertion(r)
    <3>1. req[r].challenge \in ChallengeIds
      BY <2>1 DEF CheckAssertion, At, TypedInv, HandlersOK, HandlerOK
    <3> QED BY <1>1, <2>1, <3>1, ConsumeKept DEF CheckAssertion
  <2> QED BY <1>1, <1>2, <2>1 DEF SignInStep, VerifySignIn, RecordUse, Account,
          PasskeySession
<1>3. ASSUME NEW r \in Requests, RegisterStep(r)
      PROVE  ChallengesKept
  <2>1. CASE RegisterConsume(r)
    <3>1. req[r].challenge \in ChallengeIds
      BY <2>1 DEF RegisterConsume, At, TypedInv, HandlersOK, HandlerOK
    <3> QED BY <1>1, <2>1, <3>1, ConsumeKept DEF RegisterConsume
  <2>2. CASE OptionsStore(r)
    <3>1. req[r].user \in Users
      BY <2>2 DEF OptionsStore, At, TypedInv, HandlersOK, HandlerOK
    <3>2. Fresh(req[r].user, now)
      BY <2>2 DEF OptionsStore, At, FreshInv, RequestsFresh
    <3> QED BY <2>2, <3>1, <3>2, StoreKept DEF OptionsStore
  <2> QED BY <1>1, <1>3, <2>1, <2>2 DEF RegisterStep, RegistrationOptions, OptionsUser,
          OptionsList, Register, RegisterLimit, RegisterAlready, RegisterCreate
<1>4. CASE Environment
  <2>1. ASSUME NEW k \in ChallengeIds, SignInOptions(k)
        PROVE  ChallengesKept
    BY <2>1, StoreKept DEF SignInOptions
  <2>2. CASE PruneChallenges \/ \E u \in Users : PurgeChallenges(u)
    BY <2>2, KeepKept DEF PruneChallenges, PurgeChallenges
  <2> QED BY <1>1, <1>4, <2>1, <2>2 DEF Environment, Remove, DeleteAllPasskeysForUser,
          RevokeSessions, SignIn, SoftDelete, Tick
<1>5. ASSUME NEW r \in Requests, CutShort(r)
      PROVE  ChallengesKept
  BY <1>1, <1>5 DEF CutShort
<1> QED BY <1>1, <1>2, <1>3, <1>4, <1>5 DEF Next, vars

LEMMA FreshStep == TypedInv /\ FreshInv /\ [Next]_vars => FreshInv'
<1> SUFFICES ASSUME TypedInv, FreshInv, [Next]_vars PROVE FreshInv'
  OBVIOUS
<1>1. TypedInv'
  BY TypedStep
<1>2. Forward /\ \A s \in sessions' : signedIn'[s[1]] # Null /\ s[2] <= signedIn'[s[1]]
  BY ForwardStep
<1>3. RequestsFresh'
  BY <1>1, <1>2, RequestsFreshStep
<1>4. ChallengesFresh'
  BY <1>1, <1>2, ChallengesFreshStep, ChallengesKeptFresh
<1> QED BY <1>2, <1>3, <1>4 DEF FreshInv, Forward

LEMMA AlwaysFresh == Spec => []FreshInv
<1>1. Init => FreshInv
  BY DEF Init, FreshInv, RequestsFresh, ChallengesFresh, OfFresh, Idle, Handler,
     NoChallenge
<1> QED BY <1>1, FreshStep, AlwaysTyped, PTL DEF Spec

(* A request that gets past the challenge of a registration just did so.   *)
LEMMA OnlyConsumePasses ==
  ASSUME TypedInv, NEW r \in Requests, [Next]_vars,
         At(r, "consume"), req'[r].pc = "limit"
  PROVE  RegisterConsume(r) /\ Consumable(req[r].challenge, req[r].user)
<1>1. req \in [Requests -> Request] /\ req[r].pc = "consume" /\ Idle.pc = "idle"
  BY DEF TypedInv, TypeOK, At, Idle, Handler
<1>2. ASSUME NEW q \in Requests, q # r
      PROVE  ~(SignInStep(q) \/ RegisterStep(q) \/ CutShort(q))
  BY <1>1, <1>2 DEF SignInStep, VerifySignIn, CheckAssertion, RecordUse, Account,
     PasskeySession, RegisterStep, RegistrationOptions, OptionsUser, OptionsList,
     OptionsStore, Register, RegisterConsume, RegisterLimit, RegisterAlready,
     RegisterCreate, CutShort, Finish, Await, AwaitOpened
<1>3. ~SignInStep(r)
  BY <1>1 DEF SignInStep, VerifySignIn, CheckAssertion, RecordUse, Account,
     PasskeySession, At
<1>4. ~CutShort(r)
  BY <1>1 DEF CutShort, Finish
<1>5. ~Environment /\ ~UNCHANGED vars
  BY <1>1 DEF Environment, SignInOptions, Remove, DeleteAllPasskeysForUser,
     RevokeSessions, PurgeChallenges, PruneChallenges, SignIn, SoftDelete, Tick, vars
<1>6. RegisterStep(r)
  BY <1>2, <1>3, <1>4, <1>5 DEF Next
<1>7. RegisterConsume(r)
  BY <1>1, <1>6 DEF RegisterStep, RegistrationOptions, OptionsUser, OptionsList,
     OptionsStore, Register, RegisterLimit, RegisterAlready, RegisterCreate, At
<1> QED BY <1>1, <1>7 DEF RegisterConsume, Finish

(***************************************************************************)
(* A registration passes its challenge only so long after a sign-in of the *)
(* same user as freshness and a challenge last.                            *)
(***************************************************************************)
THEOREM FreshlyRegistered == Spec => RegisteredFresh
<1>1. ASSUME TypedInv, FreshInv, [Next]_vars, NEW r \in Requests,
             At(r, "consume"), req'[r].pc = "limit"
      PROVE  /\ signedIn[req[r].user] # Null
             /\ now < signedIn[req[r].user] + FreshLogin + ChallengeTTL
  <2> DEFINE k == req[r].challenge
             u == req[r].user
  <2>1. Consumable(k, u)
    BY <1>1, OnlyConsumePasses
  <2>2. k \in ChallengeIds /\ u \in Users
    BY <1>1 DEF At, TypedInv, HandlersOK, HandlerOK
  <2>3. challenges[k].user = u /\ challenges[k].expiresAt > now /\ u # Null
    BY <2>1, <2>2, PasskeysAssumption DEF Consumable
  <2>4. PICK t \in Nat : Fresh(u, t) /\ challenges[k].expiresAt <= t + ChallengeTTL
    BY <1>1, <2>2, <2>3 DEF FreshInv, ChallengesFresh, OfFresh
  <2>5. challenges[k].expiresAt \in Nat /\ now \in Nat
    BY <1>1, <2>2 DEF TypedInv, TypeOK, Challenge, NoChallenge
  <2>6. signedIn[u] \in Nat /\ t <= signedIn[u] + FreshLogin
    BY <1>1, <2>2, <2>4 DEF TypedInv, TypeOK, Fresh
  <2> QED BY <2>3, <2>4, <2>5, <2>6, PasskeysAssumption DEF Fresh
<1>2. TypedInv /\ FreshInv /\ [Next]_vars =>
        [\A r \in Requests : At(r, "consume") /\ req'[r].pc = "limit" =>
           /\ signedIn[req[r].user] # Null
           /\ now < signedIn[req[r].user] + FreshLogin + ChallengeTTL]_vars
  BY <1>1
<1> QED BY <1>2, AlwaysTyped, AlwaysFresh, PTL DEF Spec, RegisteredFresh

-----------------------------------------------------------------------------
(***************************************************************************)
(* A sign-in stores a lower counter only over one that it did not read.    *)
(***************************************************************************)
THEOREM CounterFalls == Spec => CounterFallsOnlyInRace
<1> DEFINE Falls(p) ==
      p \in Rows /\ p \in Rows' /\ passkeys'[p].counter < passkeys[p].counter
    Raced(p) ==
      \E r \in Requests : /\ At(r, "record") /\ req[r].passkey = p
                          /\ req[r].counter # passkeys[p].counter
<1>1. ASSUME TypedInv, [Next]_vars, NEW p \in PasskeyIds, Falls(p)
      PROVE  Raced(p)
  <2>1. /\ TablesOK /\ req \in [Requests -> Request] /\ HandlersOK
        /\ TablesOK'
    BY <1>1, TypeOKParts, TypedStep DEF TypedInv, TypeOK, TablesOK
  <2>2. /\ passkeys[p] \in Passkey /\ passkeys'[p] \in Passkey
        /\ passkeys[p].counter \in Nat /\ passkeys'[p].counter \in Nat
    BY <1>1, <2>1, PasskeysAssumption DEF Rows, TablesOK, Passkey, Counters
  <2>3. passkeys'[p] # passkeys[p]
    BY <1>1, <2>2
  <2>4. ASSUME NEW r \in Requests, RecordUse(r)
        PROVE  Raced(p)
    <3>1. req[r].passkey = p /\ passkeys'[p].counter = req[r].signed
      <4>1. req[r].passkey \in Rows
        BY <2>3, <2>4 DEF RecordUse
      <4>2. passkeys' = [passkeys EXCEPT ![req[r].passkey].counter = req[r].signed]
        BY <2>4, <4>1 DEF RecordUse
      <4>3. req[r].passkey = p
        BY <2>1, <2>3, <4>1, <4>2 DEF TablesOK
      <4> QED BY <2>1, <2>2, <4>2, <4>3 DEF TablesOK, Passkey
    <3>2. CounterRises(req[r].counter, req[r].signed) /\ At(r, "record")
      BY <2>1, <2>4 DEF RecordUse, At, HandlersOK, HandlerOK
    <3>3. req[r].counter \in Nat /\ req[r].signed \in Nat
      BY <2>1, PasskeysAssumption DEF Request, Counters
    <3>4. req[r].counter # passkeys[p].counter
      BY <1>1, <2>2, <3>1, <3>2, <3>3 DEF CounterRises
    <3> QED BY <3>1, <3>2, <3>4
  <2>5. ASSUME NEW r \in Requests, RegisterCreate(r)
        PROVE  FALSE
    <3>1. PICK q \in FreePasskeys : \E new : passkeys' = [passkeys EXCEPT ![q] = new]
      BY <2>3, <2>5 DEF RegisterCreate
    <3> QED BY <1>1, <2>1, <2>3, <3>1 DEF FreePasskeys, TablesOK
  <2>6. ASSUME NEW kept, KeepPasskeys(kept)
        PROVE  FALSE
    BY <1>1, <2>3, <2>6 DEF KeepPasskeys, Rows
  <2>7. ~UNCHANGED passkeys
    BY <2>3
  <2>8. ASSUME NEW r \in Requests, SignInStep(r)
        PROVE  Raced(p)
    BY <2>4, <2>7, <2>8 DEF SignInStep, VerifySignIn, CheckAssertion, Account,
       PasskeySession
  <2>9. ASSUME NEW r \in Requests, RegisterStep(r) \/ CutShort(r)
        PROVE  FALSE
    BY <2>5, <2>7, <2>9 DEF RegisterStep, RegistrationOptions, OptionsUser, OptionsList,
       OptionsStore, Register, RegisterConsume, RegisterLimit, RegisterAlready, CutShort
  <2>10. ~Environment
    BY <2>6, <2>7 DEF Environment, SignInOptions, Remove, DeleteAllPasskeysForUser,
       RevokeSessions, PurgeChallenges, PruneChallenges, SignIn, SoftDelete, Tick
  <2> QED BY <1>1, <2>7, <2>8, <2>9, <2>10 DEF Next, vars
<1>2. TypedInv /\ [Next]_vars => [\A p \in PasskeyIds : Falls(p) => Raced(p)]_vars
  BY <1>1
<1> QED BY <1>2, AlwaysTyped, PTL DEF Spec, CounterFallsOnlyInRace
===============================================================================
