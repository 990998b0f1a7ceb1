-------------------------- MODULE Credentials_proofs --------------------------
(***************************************************************************)
(* What a change of the password ends, for any number of credentials,      *)
(* handlers and changes.                                                   *)
(***************************************************************************)
EXTENDS Credentials, TLAPS

(***************************************************************************)
(* No handler is ahead of the stored password, and a change under way has  *)
(* ended every kind of credential whose statement it has executed: what    *)
(* such a kind holds now was stored later than the hash.                   *)
(***************************************************************************)
NotAhead == \A r \in Requests : req[r].to <= password

EndedSoFar ==
  \A r \in Requests, c \in Ids : At(r, "change") =>
    /\ req[r].step > 2 /\ Usable(c, "token") => cred[c].under >= req[r].to
    /\ req[r].step > 3 /\ Usable(c, "session") => cred[c].under >= req[r].to

IInv == TypeOK /\ NotAhead /\ EndedSoFar /\ NothingOlderSurvives

(***************************************************************************)
(* The statements of a change, one by one.                                 *)
(***************************************************************************)
LEMMA OrderValues ==
  /\ Order[1] = "write" /\ Order[2] = "token"
  /\ Order[3] = "session" /\ Order[4] = "passkey"
BY DEF Order

LEMMA InitIInv == Init => IInv
BY CredentialsAssumption
   DEF Init, IInv, TypeOK, NotAhead, EndedSoFar, NothingOlderSurvives, Idle,
       None, Passwords, Request, Pcs, Kinds, Credential, At

(***************************************************************************)
(* The steps of every handler but those that change the password: none     *)
(* gets further with a change, and what is stored is stored now.           *)
(***************************************************************************)
Ordinary ==
  /\ password' = password /\ answered' = answered
  /\ \A r \in Requests : \/ req'[r].to = 0 /\ req'[r].step = 1
                         \/ /\ req'[r].to = req[r].to
                            /\ req'[r].step = req[r].step
                            /\ req'[r].pc = "change" => req[r].pc = "change"
  /\ \A c \in Ids : \/ cred'[c] = cred[c]
                    \/ cred'[c] = None
                    \/ cred'[c].under = password

LEMMA OrdinaryStep ==
  ASSUME IInv, TypeOK', Ordinary
  PROVE  IInv'
<1>. USE DEF Ordinary
<1>1. NotAhead'
  BY DEF IInv, NotAhead, TypeOK, Passwords
<1>2. EndedSoFar'
  <2> SUFFICES ASSUME NEW r \in Requests, NEW c \in Ids, At(r, "change")'
               PROVE  /\ req'[r].step > 2 /\ Usable(c, "token")'
                           => cred'[c].under >= req'[r].to
                      /\ req'[r].step > 3 /\ Usable(c, "session")'
                           => cred'[c].under >= req'[r].to
    BY DEF EndedSoFar
  <2>1. CASE req'[r].to = 0 /\ req'[r].step = 1
    BY <2>1
  <2>2. CASE /\ req'[r].to = req[r].to
             /\ req'[r].step = req[r].step
             /\ req'[r].pc = "change" => req[r].pc = "change"
    <3>1. At(r, "change") /\ req[r].to <= password
      BY <2>2 DEF At, IInv, NotAhead
    <3>2. CASE cred'[c] = cred[c]
      BY <2>2, <3>1, <3>2 DEF IInv, EndedSoFar, Usable
    <3>3. CASE cred'[c] = None
      BY <3>3 DEF None, Usable
    <3>4. CASE cred'[c].under = password
      BY <2>2, <3>1, <3>4
    <3> QED
      BY <3>2, <3>3, <3>4
  <2> QED
    BY <2>1, <2>2
<1>3. NothingOlderSurvives'
  <2> SUFFICES ASSUME NEW c \in Ids,
                      cred'[c].kind \in {"session", "token", "passkey"}
               PROVE  cred'[c].under >= answered
    BY DEF NothingOlderSurvives
  <2>1. CASE cred'[c] = cred[c]
    BY <2>1 DEF IInv, NothingOlderSurvives
  <2>2. CASE cred'[c] = None
    BY <2>2 DEF None
  <2>3. CASE cred'[c].under = password
    BY <2>3 DEF IInv, TypeOK, Passwords
  <2> QED
    BY <2>1, <2>2, <2>3
<1> QED
  BY <1>1, <1>2, <1>3 DEF IInv

-----------------------------------------------------------------------------
(* What may be stored, and where.                                          *)
LEMMA StoredType ==
  ASSUME TypeOK, NEW kind \in Kinds, NEW root \in Passwords
  PROVE  /\ Stored(kind, root) \in Credential
         /\ Stored(kind, root).under = password
BY DEF Stored, Credential, TypeOK

LEMMA FreeIds == Free \subseteq Ids
BY DEF Free

(* A handler that begins is well typed and changes no password.            *)
Starts(q) == q \in Request /\ q.to = 0 /\ q.step = 1

LEMMA BegunStarts ==
  ASSUME NEW pc \in Pcs, NEW i \in Ids \cup {Null}, NEW kind \in Kinds,
         NEW from \in Passwords, NEW bare \in BOOLEAN
  PROVE  Starts(Begun(pc, i, kind, from, bare))
<1>1. 0 \in Passwords
  BY CredentialsAssumption DEF Passwords
<1>2. (bare /\ ~enrolled) \in BOOLEAN
  OBVIOUS
<1> QED
  BY <1>1, <1>2 DEF Begun, Request, Starts

LEMMA PresentedRoot ==
  ASSUME TypeOK, NEW c \in Ids, NEW kind \in Kinds, Usable(c, kind)
  PROVE  cred[c].root \in Passwords
BY DEF TypeOK, Usable, None, Kinds, Credential

(* A handler that was idle begins.                                         *)
LEMMA BeginOrdinary ==
  ASSUME IInv, NEW r \in Requests, Begin(r)
  PROVE  TypeOK' /\ Ordinary
<1>a. ASSUME NEW q, Starts(q), req' = [req EXCEPT ![r] = q],
             UNCHANGED <<password, enrolled, cred, answered>>
      PROVE  TypeOK' /\ Ordinary
  BY <1>a DEF Starts, IInv, TypeOK, Ordinary
<1>b. TypeOK /\ 0 \in Passwords /\ password \in Passwords
  BY CredentialsAssumption DEF IInv, TypeOK, Passwords
<1>. USE <1>b DEF Kinds, Pcs
<1>1. ASSUME NEW kind \in {"session", "token"}, PasswordRead(r, kind)
      PROVE  TypeOK' /\ Ordinary
  <2>1. Starts(Begun("enrolled", Null, kind, password, TRUE))
    BY BegunStarts
  <2> QED
    BY <1>1, <2>1, <1>a DEF PasswordRead
<1>2. ASSUME NEW c \in Ids, MfaStart(r, c)
      PROVE  TypeOK' /\ Ordinary
  <2>1. cred[c].root \in Passwords
    BY <1>2, PresentedRoot DEF MfaStart
  <2>2. Starts(Begun("verify", Null, "session", cred[c].root, FALSE))
    BY <2>1, BegunStarts
  <2> QED
    BY <1>2, <2>2, <1>a DEF MfaStart
<1>3. ASSUME NEW c \in Ids, PasskeyStart(r, c)
      PROVE  TypeOK' /\ Ordinary
  <2>1. cred[c].root \in Passwords
    BY <1>3, PresentedRoot DEF PasskeyStart
  <2>2. Starts(Begun("store", Null, "session", cred[c].root, FALSE))
    BY <2>1, BegunStarts
  <2> QED
    BY <1>3, <2>2, <1>a DEF PasskeyStart
<1>4. ASSUME NEW c \in Ids, NEW kind \in {"code", "passkey"},
             SessionStart(r, c, kind)
      PROVE  TypeOK' /\ Ordinary
  <2>1. cred[c].root \in Passwords
    BY <1>4, PresentedRoot DEF SessionStart
  <2>2. Starts(Begun("store", Null, kind, cred[c].root, FALSE))
    BY <2>1, BegunStarts
  <2> QED
    BY <1>4, <2>2, <1>a DEF SessionStart
<1>5. ASSUME NEW c \in Ids, NEW kind \in Kinds, NEW pc \in Pcs,
             Present(r, c, kind, pc)
      PROVE  TypeOK' /\ Ordinary
  <2>1. cred[c].root \in Passwords
    BY <1>5, PresentedRoot DEF Present
  <2>2. Starts(Begun(pc, c, kind, cred[c].root, FALSE))
    BY <2>1, BegunStarts
  <2> QED
    BY <1>5, <2>2, <1>a DEF Present
<1>6. ASSUME NEW c \in Ids,
             \/ Authorize(r, c) \/ RegisterPasskey(r, c)
             \/ ExchangeStart(r, c) \/ RefreshStart(r, c)
             \/ Logout(r, c) \/ RevokeToken(r, c) \/ RemovePasskey(r, c)
      PROVE  TypeOK' /\ Ordinary
  BY <1>4, <1>5, <1>6 DEF Authorize, RegisterPasskey, ExchangeStart,
                          RefreshStart, Logout, RevokeToken, RemovePasskey
<1>7. ASSUME ChangeStart(r)
      PROVE  TypeOK' /\ Ordinary
  <2>1. Starts(Begun("change", Null, "session", 0, FALSE))
    BY BegunStarts
  <2> QED
    BY <1>7, <2>1, <1>a DEF ChangeStart
<1> QED
  BY <1>1, <1>2, <1>3, <1>6, <1>7 DEF Begin

(* A handler goes on, stores, or ends.                                     *)
LEMMA ResumeOrdinary ==
  ASSUME IInv, NEW r \in Requests,
         \/ FinishLogin(r) \/ MfaVerified(r) \/ Store(r)
         \/ ExchangeConsume(r) \/ RefreshRotate(r) \/ LoseRace(r)
         \/ EndOne(r) \/ CutShort(r)
  PROVE  TypeOK' /\ Ordinary
<1>. USE CredentialsAssumption DEF IInv, TypeOK, Ordinary
<1>a. req[r] \in Request /\ req[r].root \in Passwords /\ req[r].kind \in Kinds
  BY DEF Request
<1>b. Idle \in Request /\ Idle.to = 0 /\ Idle.step = 1
  BY DEF Request, Idle, Pcs, Kinds, Passwords
<1>c. "challenge" \in Kinds /\ "token" \in Kinds
  BY DEF Kinds
<1>1. CASE FinishLogin(r)
  <2>1. CASE /\ req' = [req EXCEPT ![r].pc = "store"]
             /\ UNCHANGED <<password, enrolled, cred, answered>>
    BY <2>1 DEF Request, Pcs
  <2>2. CASE Finish(r) /\ UNCHANGED <<password, enrolled, cred, answered>>
    BY <2>2, <1>b DEF Finish
  <2>3. CASE /\ Finish(r) /\ UNCHANGED <<password, enrolled, answered>>
             /\ \E c \in Free :
                  cred' = [cred EXCEPT ![c] = Stored("challenge", req[r].root)]
    BY <2>3, <1>a, <1>b, <1>c, StoredType, FreeIds DEF Finish
  <2> QED
    BY <1>1, <2>1, <2>2, <2>3 DEF FinishLogin
<1>2. CASE MfaVerified(r)
  <2>1. CASE /\ req' = [req EXCEPT ![r].pc = "store"]
             /\ UNCHANGED <<password, enrolled, cred, answered>>
    BY <2>1 DEF Request, Pcs
  <2>2. CASE Finish(r) /\ UNCHANGED <<password, enrolled, cred, answered>>
    BY <2>2, <1>b DEF Finish
  <2> QED
    BY <1>2, <2>1, <2>2 DEF MfaVerified
<1>3. CASE Store(r)
  <2>1. PICK c \in Free :
          cred' = [cred EXCEPT ![c] = Stored(req[r].kind, req[r].root)]
    BY <1>3 DEF Store
  <2>2. /\ cred' \in [Ids -> Credential \cup {None}]
        /\ \A d \in Ids : cred'[d] = cred[d] \/ cred'[d].under = password
    BY <2>1, <1>a, StoredType, FreeIds
  <2>3. CASE Finish(r)
    BY <1>3, <2>2, <2>3, <1>b DEF Store, Finish
  <2>4. CASE req' = [req EXCEPT ![r].kind = "code", ![r].bare = FALSE]
    BY <1>3, <2>2, <2>4, <1>a DEF Store, Request, Kinds
  <2> QED
    BY <1>3, <2>3, <2>4 DEF Store
<1>4. CASE ExchangeConsume(r)
  <2>1. Starts(Begun("store", Null, "token", req[r].root, FALSE))
    BY <1>a, <1>c, BegunStarts DEF Pcs
  <2> QED
    BY <1>4, <2>1 DEF ExchangeConsume, Starts
<1>5. CASE RefreshRotate(r)
  <2>1. PICK c \in Free :
          cred' = [cred EXCEPT ![req[r].id] = None,
                               ![c] = Stored("token", req[r].root)]
    BY <1>5 DEF RefreshRotate
  <2>2. /\ cred' \in [Ids -> Credential \cup {None}]
        /\ \A d \in Ids : \/ cred'[d] = cred[d] \/ cred'[d] = None
                          \/ cred'[d].under = password
    BY <2>1, <1>a, <1>c, StoredType, FreeIds
  <2> QED
    BY <1>5, <2>2, <1>b DEF RefreshRotate, Finish
<1>6. CASE LoseRace(r)
  <2>1. /\ cred' \in [Ids -> Credential \cup {None}]
        /\ \A d \in Ids : cred'[d] = cred[d] \/ cred'[d] = None
    BY <1>6 DEF LoseRace, EndAll
  <2> QED
    BY <1>6, <2>1, <1>b DEF LoseRace, Finish
<1>7. CASE EndOne(r)
  BY <1>7, <1>b DEF EndOne, Finish
<1>8. CASE CutShort(r)
  BY <1>8, <1>b DEF CutShort, Finish
<1> QED
  BY <1>1, <1>2, <1>3, <1>4, <1>5, <1>6, <1>7, <1>8

(* The rest of the world.                                                  *)
LEMMA OutsideOrdinary ==
  ASSUME IInv, (\E c \in Ids : Expire(c)) \/ SwitchTotp
  PROVE  TypeOK' /\ Ordinary
<1>. USE DEF IInv, TypeOK, Ordinary
<1>1. ASSUME NEW c \in Ids, Expire(c)
      PROVE  TypeOK' /\ Ordinary
  BY <1>1 DEF Expire
<1>2. CASE SwitchTotp
  <2>1. ASSUME NEW r \in Requests
        PROVE  /\ req'[r] \in Request
               /\ req'[r].to = req[r].to
               /\ req'[r].step = req[r].step
               /\ req'[r].pc = req[r].pc
    <3>1. CASE req'[r] = req[r]
      BY <3>1
    <3>2. CASE req'[r] = [req[r] EXCEPT !.sawOff = @ \/ enrolled]
      BY <3>2, Zenon DEF Request
    <3> QED
      BY <1>2, <3>1, <3>2 DEF SwitchTotp
  <2>2. req' \in [Requests -> Request]
    BY <1>2, <2>1 DEF SwitchTotp
  <2> QED
    BY <1>2, <2>1, <2>2 DEF SwitchTotp
<1> QED
  BY <1>1, <1>2

-----------------------------------------------------------------------------
(***************************************************************************)
(* The next statement of a change. The hash is written first, so what a    *)
(* kind holds after its own statement was stored under the new password.   *)
(***************************************************************************)
LEMMA ChangeStepType ==
  ASSUME IInv, NEW r \in Requests, ChangeStep(r)
  PROVE  /\ TypeOK'
         /\ password' \in {password, password + 1}
         /\ To(r) \in 0..password'
         /\ req[r].step = 1 => To(r) = password' /\ password' > password
         /\ req[r].step # 1 => To(r) = req[r].to /\ password' = password
<1>. USE DEF IInv, TypeOK, Passwords
<1>1. /\ req[r] \in Request /\ req[r].step \in 1..4
      /\ password \in Nat /\ MaxChanges \in Nat
  BY CredentialsAssumption DEF Request
<1>2. /\ password' \in {password, password + 1} /\ password' <= MaxChanges
      /\ req[r].step = 1 => To(r) = password' /\ password' > password
      /\ req[r].step # 1 => To(r) = req[r].to /\ password' = password
  BY <1>1, OrderValues DEF ChangeStep, ChangeWrite, ChangeRevoke, To
<1>3. To(r) \in 0..password'
  <2>1. req[r].to \in Nat /\ req[r].to <= password
    BY <1>1 DEF Request, NotAhead
  <2> QED
    BY <1>1, <1>2, <2>1
<1>4. cred' \in [Ids -> Credential \cup {None}]
  BY DEF ChangeStep, ChangeWrite, ChangeRevoke, EndAll
<1>5. Idle \in Request
  BY CredentialsAssumption DEF Idle, Request, Pcs, Kinds
<1>6. req' \in [Requests -> Request]
  <2>1. CASE req[r].step < 4
    <3>1. req' = [req EXCEPT ![r].step = @ + 1, ![r].to = To(r)]
      BY <2>1 DEF ChangeStep
    <3>2. req[r].step + 1 \in 1..4 /\ To(r) \in 0..MaxChanges
      BY <1>1, <1>2, <1>3, <2>1
    <3> QED
      BY <1>1, <3>1, <3>2 DEF Request
  <2>2. CASE ~(req[r].step < 4)
    BY <2>2, <1>5 DEF ChangeStep, Finish
  <2> QED
    BY <2>1, <2>2
<1>7. answered' \in 0..password'
  BY <1>1, <1>2, <1>3 DEF ChangeStep
<1> QED
  BY <1>1, <1>2, <1>3, <1>4, <1>6, <1>7 DEF ChangeStep

LEMMA ChangeStepIInv ==
  ASSUME IInv, NEW r \in Requests, ChangeStep(r)
  PROVE  IInv'
<1>1. /\ TypeOK'
      /\ password' \in {password, password + 1}
      /\ To(r) \in 0..password'
      /\ req[r].step = 1 => To(r) = password' /\ password' > password
      /\ req[r].step # 1 => To(r) = req[r].to /\ password' = password
  BY ChangeStepType
<1>2. /\ req[r] \in Request /\ req[r].step \in 1..4
      /\ password \in Nat /\ answered \in Nat /\ answered <= password
      /\ \A q \in Requests : req[q].to \in Nat
  BY CredentialsAssumption DEF IInv, TypeOK, Request, Passwords
<1>3. \A q \in Requests \ {r} : req'[q] = req[q]
  BY DEF ChangeStep, Finish, IInv, TypeOK
<1>4. \/ /\ req[r].step < 4 /\ req'[r].step = req[r].step + 1
         /\ req'[r].to = To(r) /\ answered' = answered
      \/ /\ req[r].step = 4 /\ req'[r] = Idle
         /\ answered' \in {To(r), answered}
  BY <1>2 DEF ChangeStep, Finish, IInv, TypeOK, Request
(* What is left of every kind.                                             *)
<1>5. ASSUME NEW c \in Ids, cred'[c] # None
      PROVE  /\ cred'[c] = cred[c]
             /\ req[r].step = 2 => ~Usable(c, "token")
             /\ req[r].step = 3 => ~Usable(c, "session")
             /\ req[r].step = 4 => ~Usable(c, "passkey")
  BY <1>5, <1>2, OrderValues
     DEF ChangeStep, ChangeWrite, ChangeRevoke, EndAll, IInv, TypeOK
<1>6. NotAhead'
  BY <1>1, <1>2, <1>3, <1>4 DEF IInv, NotAhead, Idle
<1>7. EndedSoFar'
  <2> SUFFICES ASSUME NEW q \in Requests, NEW c \in Ids, At(q, "change")'
               PROVE  /\ req'[q].step > 2 /\ Usable(c, "token")'
                           => cred'[c].under >= req'[q].to
                      /\ req'[q].step > 3 /\ Usable(c, "session")'
                           => cred'[c].under >= req'[q].to
    BY DEF EndedSoFar
  <2>1. CASE cred'[c] = None
    BY <2>1 DEF None, Usable
  <2>2. CASE cred'[c] # None /\ q # r
    BY <2>2, <1>3, <1>5 DEF IInv, EndedSoFar, Usable, At
  <2>3. CASE cred'[c] # None /\ q = r
    <3>1. At(r, "change")
      BY DEF ChangeStep
    <3>2. req[r].step < 4 /\ req'[r].step = req[r].step + 1 /\ req'[r].to = To(r)
      BY <2>3, <1>4 DEF At, Idle
    <3> QED
      BY <2>3, <3>1, <3>2, <1>1, <1>2, <1>5 DEF IInv, EndedSoFar, Usable
  <2> QED
    BY <2>1, <2>2, <2>3
<1>8. NothingOlderSurvives'
  <2> SUFFICES ASSUME NEW c \in Ids,
                      cred'[c].kind \in {"session", "token", "passkey"}
               PROVE  cred'[c].under >= answered'
    BY DEF NothingOlderSurvives
  <2>1. cred'[c] = cred[c]
    BY <1>5 DEF None
  <2>2. cred[c].under >= answered
    BY <2>1 DEF IInv, NothingOlderSurvives
  <2>3. CASE answered' = answered
    BY <2>1, <2>2, <2>3
  <2>4. CASE req[r].step = 4 /\ answered' = To(r)
    <3>1. At(r, "change") /\ To(r) = req[r].to /\ cred'[c] # None
      BY <1>1, <2>4 DEF ChangeStep, None
    <3>2. Usable(c, "token") \/ Usable(c, "session")
      BY <1>5, <2>1, <2>4, <3>1 DEF Usable
    <3> QED
      BY <2>1, <2>4, <3>1, <3>2 DEF IInv, EndedSoFar
  <2> QED
    BY <1>4, <2>3, <2>4
<1> QED
  BY <1>1, <1>6, <1>7, <1>8 DEF IInv

-----------------------------------------------------------------------------
LEMMA Stutter ==
  ASSUME IInv, UNCHANGED vars
  PROVE  IInv'
BY DEF vars, IInv, TypeOK, NotAhead, EndedSoFar, NothingOlderSurvives, At,
       Usable

LEMMA NextIInv == IInv /\ [Next]_vars => IInv'
<1> SUFFICES ASSUME IInv, [Next]_vars PROVE IInv'
  OBVIOUS
<1>1. ASSUME NEW r \in Requests, Begin(r)
      PROVE  IInv'
  BY <1>1, BeginOrdinary, OrdinaryStep
<1>2. ASSUME NEW r \in Requests, ChangeStep(r)
      PROVE  IInv'
  BY <1>2, ChangeStepIInv
<1>3. ASSUME NEW r \in Requests, Resume(r) \/ CutShort(r), ~ChangeStep(r)
      PROVE  IInv'
  BY <1>3, ResumeOrdinary, OrdinaryStep DEF Resume
<1>4. CASE (\E c \in Ids : Expire(c)) \/ SwitchTotp
  BY <1>4, OutsideOrdinary, OrdinaryStep
<1>5. CASE UNCHANGED vars
  BY <1>5, Stutter
<1> QED
  BY <1>1, <1>2, <1>3, <1>4, <1>5 DEF Next

LEMMA Invariance == Spec => []IInv
<1>1. Init => IInv
  BY InitIInv
<1>2. IInv /\ [Next]_vars => IInv'
  BY NextIInv
<1> QED
  BY <1>1, <1>2, PTL DEF Spec

(***************************************************************************)
(* Every reachable state is well typed.                                    *)
(***************************************************************************)
THEOREM CredentialsTyped == Spec => []TypeOK
<1>1. IInv => TypeOK
  BY DEF IInv
<1> QED
  BY <1>1, Invariance, PTL

(***************************************************************************)
(* However many sign-ins, refreshes, registrations and changes of the      *)
(* password interleave, and wherever they fail: once a change is answered, *)
(* no session, refresh token or passkey stored under an older password is  *)
(* accepted.                                                               *)
(***************************************************************************)
THEOREM ChangeEndsOlder == Spec => []NothingOlderSurvives
<1>1. IInv => NothingOlderSurvives
  BY DEF IInv
<1> QED
  BY <1>1, Invariance, PTL

-----------------------------------------------------------------------------
(***************************************************************************)
(* A sign-in with a password alone has seen TOTP off whenever it is off    *)
(* now, so the answer "not enabled" is one it has seen.                    *)
(***************************************************************************)
BareOf(q) ==
  q.bare => /\ ~enrolled => q.sawOff
            /\ q.pc = "store" => q.sawOff
            /\ q.pc # "verify"

BareInv == \A r \in Requests : BareOf(req[r])

LEMMA BareOrdinary ==
  ASSUME TypeOK, BareInv, UNCHANGED enrolled, NEW r \in Requests, NEW q,
         req' = [req EXCEPT ![r] = q], ~q.bare
  PROVE  BareInv'
BY DEF TypeOK, BareInv, BareOf

LEMMA BareBegin ==
  ASSUME TypeOK, BareInv, NEW r \in Requests, Begin(r)
  PROVE  BareInv'
<1>1. ASSUME NEW kind \in {"session", "token"}, PasswordRead(r, kind)
      PROVE  BareInv'
  BY <1>1 DEF PasswordRead, Begun, TypeOK, BareInv, BareOf
<1>2. CASE \A kind \in {"session", "token"} : ~PasswordRead(r, kind)
  <2>1. UNCHANGED enrolled
    BY <1>2 DEF Begin, MfaStart, PasskeyStart, Authorize, RegisterPasskey,
                SessionStart, ExchangeStart, RefreshStart, Logout,
                RevokeToken, RemovePasskey, Present, ChangeStart
  <2>2. PICK pc, c, kind, from :
               req' = [req EXCEPT ![r] = Begun(pc, c, kind, from, FALSE)]
    BY <1>2 DEF Begin, MfaStart, PasskeyStart, Authorize, RegisterPasskey,
                SessionStart, ExchangeStart, RefreshStart, Logout,
                RevokeToken, RemovePasskey, Present, ChangeStart
  <2>3. ~Begun(pc, c, kind, from, FALSE).bare
    BY DEF Begun
  <2> QED
    BY <2>1, <2>2, <2>3, BareOrdinary
<1> QED
  BY <1>1, <1>2

LEMMA BareResume ==
  ASSUME TypeOK, BareInv, NEW r \in Requests, Resume(r) \/ CutShort(r)
  PROVE  BareInv'
<1>. USE DEF TypeOK, BareInv
<1>a. ~Idle.bare
  BY DEF Idle
<1>b. CASE Finish(r) /\ UNCHANGED enrolled
  BY <1>a, <1>b, BareOrdinary DEF Finish
<1>c. CASE req' = [req EXCEPT ![r].pc = "store"] /\ UNCHANGED enrolled
           /\ (req[r].bare => ~enrolled)
  BY <1>c DEF BareOf, Request
<1>d. req[r] \in Request
  OBVIOUS
<1>1. CASE FinishLogin(r)
  BY <1>1, <1>b, <1>c DEF FinishLogin, IsEnabled
<1>2. CASE MfaVerified(r) \/ Store(r)
  <2>1. CASE req' = [req EXCEPT ![r].kind = "code", ![r].bare = FALSE]
             /\ UNCHANGED enrolled
    BY <2>1 DEF BareOf, Request
  <2>2. CASE req' = [req EXCEPT ![r].pc = "store"] /\ UNCHANGED enrolled
             /\ enrolled /\ At(r, "verify")
    <3>1. ~req[r].bare
      BY <2>2 DEF BareOf, At
    <3> QED
      BY <2>2, <3>1, <1>c
  <2> QED
    BY <1>2, <1>b, <2>1, <2>2 DEF MfaVerified, Store
<1>3. CASE ExchangeConsume(r)
  <2>1. ~Begun("store", Null, "token", req[r].root, FALSE).bare
    BY DEF Begun
  <2> QED
    BY <1>3, <2>1, BareOrdinary DEF ExchangeConsume
<1>4. CASE RefreshRotate(r) \/ LoseRace(r) \/ EndOne(r) \/ CutShort(r)
  BY <1>4, <1>b DEF RefreshRotate, LoseRace, EndOne, CutShort
<1>5. CASE ChangeStep(r)
  <2>1. CASE req' = [req EXCEPT ![r].step = @ + 1, ![r].to = To(r)]
             /\ UNCHANGED enrolled
    BY <2>1 DEF BareOf, Request
  <2> QED
    BY <1>5, <1>b, <2>1 DEF ChangeStep
<1> QED
  BY <1>1, <1>2, <1>3, <1>4, <1>5 DEF Resume

LEMMA BareOutside ==
  ASSUME TypeOK, BareInv, (\E c \in Ids : Expire(c)) \/ SwitchTotp
  PROVE  BareInv'
<1>1. CASE \E c \in Ids : Expire(c)
  BY <1>1 DEF Expire, BareInv, BareOf
<1>2. CASE SwitchTotp
  <2> SUFFICES ASSUME NEW r \in Requests PROVE BareOf(req[r])'
    BY DEF BareInv
  <2>1. req[r] \in Request /\ BareOf(req[r])
    BY DEF TypeOK, BareInv
  <2>2. CASE ~req[r].bare
    BY <1>2, <2>2 DEF SwitchTotp, BareOf
  <2>3. CASE req[r].bare
    <3>1. /\ req'[r] = [req[r] EXCEPT !.sawOff = @ \/ enrolled]
          /\ enrolled' = ~enrolled
      BY <1>2, <2>3 DEF SwitchTotp
    <3>2. req'[r].pc = req[r].pc /\ (req'[r].sawOff <=> req[r].sawOff \/ enrolled)
      BY <2>1, <3>1 DEF Request
    <3> QED
      BY <2>1, <2>3, <3>1, <3>2 DEF BareOf
  <2> QED
    BY <2>2, <2>3
<1> QED
  BY <1>1, <1>2

(***************************************************************************)
(* No password alone signs in to an account that had TOTP on throughout,   *)
(* whenever it is switched.                                                *)
(***************************************************************************)
THEOREM SecondFactorHolds == Spec => []PasswordAloneOnlyWithoutTotp
<1>1. Init => BareInv
  BY DEF Init, BareInv, BareOf, Idle
<1>2. TypeOK /\ BareInv /\ [Next]_vars => BareInv'
  <2>1. ASSUME BareInv, UNCHANGED vars PROVE BareInv'
    BY <2>1 DEF vars, BareInv, BareOf
  <2> QED
    BY <2>1, BareBegin, BareResume, BareOutside DEF Next
<1>3. BareInv => PasswordAloneOnlyWithoutTotp
  BY DEF BareInv, BareOf, PasswordAloneOnlyWithoutTotp, At
<1> QED
  BY <1>1, <1>2, <1>3, CredentialsTyped, PTL DEF Spec
=============================================================================
