--------------------------- MODULE TwoFactor_proofs ---------------------------
(***************************************************************************)
(* Proofs about TwoFactor: the type invariant, that a code is accepted     *)
(* once, and that only a deletion turns TOTP off.                          *)
(***************************************************************************)
EXTENDS TwoFactor, TLAPS

(***************************************************************************)
(* The row is of a secret that was given; a code that was spent is of a    *)
(* given secret too, and if the row is still of that secret, then it is    *)
(* enabled and remembers a step no earlier than the code's.                *)
(***************************************************************************)
SpentRecorded ==
  /\ totp.secret \in given \cup {Null}
  /\ \A c \in spent : /\ c[1] \in given
                      /\ totp.secret = c[1] => totp.enabled /\ c[2] <= totp.lastStep

(***************************************************************************)
(* A handler holds a code of a given secret; one that verifies found that  *)
(* secret enabled, so as long as the row is of that secret it is enabled.  *)
(***************************************************************************)
HolderSound(r) ==
  req[r].pc \in {"enable", "advance"} =>
    /\ req[r].secret \in given
    /\ req[r].step \in Steps
    /\ At(r, "advance") /\ totp.secret = req[r].secret => totp.enabled

IInv ==
  /\ TypeOK
  /\ SpentRecorded
  /\ \A r \in Requests : HolderSound(r)
  /\ CodeAcceptedOnce

(* What TypeOK and the assumption say of the row that is there.            *)
LEMMA RowFacts ==
  ASSUME TypeOK
  PROVE  /\ NoRow.secret = Null /\ NoRow.enabled = FALSE
         /\ Exists => totp \in Row /\ totp.secret # Null
         /\ totp.enabled => Exists
         /\ ~Exists => totp = NoRow
  BY TwoFactorAssumption DEF TypeOK, Exists, Row, NoRow

LEMMA IdleTyped == Idle \in Request
  BY DEF Idle, Request

LEMMA InitIInv == Init => IInv
<1> SUFFICES ASSUME Init PROVE IInv
  OBVIOUS
<1>1. TypeOK
  BY TwoFactorAssumption, IdleTyped DEF Init, TypeOK, NoRow
<1>2. SpentRecorded /\ CodeAcceptedOnce
  BY DEF Init, SpentRecorded, CodeAcceptedOnce, NoRow
<1>3. \A r \in Requests : HolderSound(r)
  BY DEF Init, HolderSound, Idle
<1> QED
  BY <1>1, <1>2, <1>3 DEF IInv

-----------------------------------------------------------------------------
(***************************************************************************)
(* A handler that goes on keeps what it holds, and starts neither to       *)
(* confirm nor to verify.                                                  *)
(***************************************************************************)
LEMMA GoesOn ==
  ASSUME IInv, NEW r \in Requests,
         NEW pc \in {"createPending", "clearCodes", "insertCodes",
                     "deleteCodes", "deleteTotp"},
         \/ Finish(r)
         \/ Await(r, pc)
  PROVE  /\ req' \in [Requests -> Request]
         /\ \A q \in Requests :
              req'[q].pc \in {"enable", "advance"} => req'[q] = req[q]
  BY IdleTyped DEF IInv, TypeOK, Finish, Await, Request, Idle

(***************************************************************************)
(* What accepting the code of handler r does to the histories, when the    *)
(* row, if it is of that secret, did not know the code.                    *)
(***************************************************************************)
LEMMA AcceptNew ==
  ASSUME IInv, NEW r \in Requests, Accept(r),
         req[r].pc \in {"enable", "advance"},
         totp.secret = req[r].secret => <<req[r].secret, req[r].step>> \notin spent
  PROVE  /\ given' = given /\ replayed' = {}
         /\ spent' \subseteq Secrets \X Steps
         /\ \A c \in spent' :
              \/ c \in spent
              \/ c = <<req[r].secret, req[r].step>> /\ totp.secret = req[r].secret
<1>1. req[r].secret \in Secrets /\ req[r].step \in Steps
  BY DEF IInv, HolderSound, TypeOK
<1>2. replayed' = {} /\ given' = given
  BY DEF Accept, IInv, CodeAcceptedOnce
<1> QED
  BY <1>1, <1>2 DEF Accept, IInv, TypeOK

(***************************************************************************)
(* The steps that give away no secret and accept no code: the row stays,   *)
(* or goes, and the handlers that confirm or verify are as they were.      *)
(***************************************************************************)
LEMMA QuietStep ==
  ASSUME IInv,
         now' \in 2..MaxStep,
         totp' = totp \/ totp' = NoRow,
         recovery' \in [Recovery -> {"fresh", "unused", "used", "deleted"}],
         req' \in [Requests -> Request],
         UNCHANGED hist,
         \A q \in Requests : req'[q].pc \in {"enable", "advance"} => req'[q] = req[q]
  PROVE  IInv'
<1>1. TypeOK'
  BY DEF IInv, TypeOK, hist, NoRow
<1>2. SpentRecorded'
  BY TwoFactorAssumption DEF IInv, TypeOK, SpentRecorded, hist, NoRow
<1>3. ASSUME NEW q \in Requests PROVE HolderSound(q)'
  BY TwoFactorAssumption DEF IInv, TypeOK, HolderSound, At, hist, NoRow
<1>4. CodeAcceptedOnce'
  BY DEF IInv, CodeAcceptedOnce, hist
<1> QED
  BY <1>1, <1>2, <1>3, <1>4 DEF IInv

-----------------------------------------------------------------------------
LEMMA StartIInv ==
  ASSUME IInv, NEW r \in Requests, Start(r)
  PROVE  IInv'
<1> USE DEF Begin
<1>1. ASSUME NEW state \in Request, Begin(r, state),
             state.pc \in {"enable", "advance"} =>
               /\ state.secret \in given
               /\ state.step \in Steps
               /\ state.pc = "advance" /\ totp.secret = state.secret => totp.enabled
      PROVE  IInv'
  <2>1. TypeOK' /\ SpentRecorded' /\ CodeAcceptedOnce'
    BY <1>1 DEF IInv, TypeOK, SpentRecorded, CodeAcceptedOnce, hist
  <2>2. ASSUME NEW q \in Requests PROVE HolderSound(q)'
    BY <1>1, <2>2 DEF IInv, TypeOK, HolderSound, At, hist
  <2> QED
    BY <2>1, <2>2 DEF IInv
<1>2. CASE SetupStart(r)
  BY <1>1, <1>2 DEF SetupStart, Idle, Request
<1>3. CASE ResetStart(r)
  BY <1>1, <1>3 DEF ResetStart, Idle, Request
<1>4. ASSUME NEW secret \in Secrets, NEW step \in Steps, ConfirmStart(r, secret, step)
      PROVE  IInv'
  <2>1. secret \in given
    BY <1>4, TwoFactorAssumption DEF ConfirmStart, Matches, IInv, SpentRecorded
  <2> QED
    BY <1>1, <1>4, <2>1 DEF ConfirmStart, Idle, Request
<1>5. ASSUME NEW secret \in Secrets, NEW step \in Steps,
             NEW purpose \in {"login", "disable"},
             VerifyStart(r, secret, step, purpose)
      PROVE  IInv'
  <2>1. secret \in given
    BY <1>5, TwoFactorAssumption DEF VerifyStart, Matches, IInv, SpentRecorded
  <2> QED
    BY <1>1, <1>5, <2>1 DEF VerifyStart, Idle, Request
<1>6. ASSUME NEW k \in Recovery, NEW purpose \in {"login", "disable"},
             VerifyRecovery(r, k, purpose)
      PROVE  IInv'
  BY <1>1, <1>6 DEF VerifyRecovery, Idle, Request
<1> QED
  BY <1>2, <1>3, <1>4, <1>5, <1>6 DEF Start

-----------------------------------------------------------------------------
LEMMA CreateIInv ==
  ASSUME IInv, NEW r \in Requests, SetupCreate(r)
  PROVE  IInv'
<1>1. /\ req' \in [Requests -> Request]
      /\ \A q \in Requests : req'[q].pc \in {"enable", "advance"} => req'[q] = req[q]
  BY GoesOn DEF SetupCreate
<1>2. CASE ~Exists
  <2>1. PICK s \in Secrets \ given :
          /\ totp' = [secret |-> s, enabled |-> FALSE, lastStep |-> 0]
          /\ given' = given \cup {s}
    BY <1>2 DEF SetupCreate
  <2>2. TypeOK'
    BY <1>1, <2>1 DEF SetupCreate, IInv, TypeOK, Row
  <2>3. SpentRecorded'
    BY <2>1 DEF SetupCreate, IInv, SpentRecorded
  <2>4. ASSUME NEW q \in Requests PROVE HolderSound(q)'
    BY <1>1, <2>1, <2>4 DEF IInv, HolderSound, At
  <2>5. CodeAcceptedOnce'
    BY DEF SetupCreate, IInv, CodeAcceptedOnce
  <2> QED
    BY <2>2, <2>3, <2>4, <2>5 DEF IInv
<1>3. CASE Exists
  BY <1>1, <1>3, QuietStep DEF SetupCreate, IInv, TypeOK, hist
<1> QED
  BY <1>2, <1>3

LEMMA EnableIInv ==
  ASSUME IInv, NEW r \in Requests, ConfirmEnable(r)
  PROVE  IInv'
<1>1. /\ req' \in [Requests -> Request]
      /\ \A q \in Requests : req'[q].pc \in {"enable", "advance"} => req'[q] = req[q]
  BY GoesOn DEF ConfirmEnable
<1>2. CASE Pending
  <2>1. /\ totp \in Row /\ totp.enabled = FALSE
        /\ totp' = [totp EXCEPT !.enabled = TRUE, !.lastStep = req[r].step]
        /\ Accept(r) /\ recovery' = recovery /\ now' = now
    BY <1>2, RowFacts DEF ConfirmEnable, Enabled, Pending, IInv, Row
  <2>2. req[r].step \in Steps /\ req[r].secret \in given
    BY DEF ConfirmEnable, At, IInv, HolderSound
  <2>3. \A c \in spent : c[1] # totp.secret
    BY <2>1 DEF IInv, SpentRecorded
  <2>4. /\ given' = given /\ replayed' = {}
        /\ spent' \subseteq Secrets \X Steps
        /\ \A c \in spent' :
             \/ c \in spent
             \/ c = <<req[r].secret, req[r].step>> /\ totp.secret = req[r].secret
    BY <2>1, <2>3, AcceptNew DEF ConfirmEnable, At
  <2>5. /\ totp' \in Row /\ totp'.secret = totp.secret
        /\ totp'.enabled = TRUE /\ totp'.lastStep = req[r].step
    BY <2>1, <2>2 DEF Row
  <2>6. TypeOK'
    BY <1>1, <2>1, <2>2, <2>4, <2>5 DEF IInv, TypeOK, Steps
  <2>7. SpentRecorded'
    BY <2>2, <2>3, <2>4, <2>5 DEF IInv, SpentRecorded, Steps
  <2>8. ASSUME NEW q \in Requests PROVE HolderSound(q)'
    BY <1>1, <2>4, <2>5, <2>8 DEF IInv, HolderSound, At
  <2> QED
    BY <2>4, <2>6, <2>7, <2>8 DEF IInv, CodeAcceptedOnce
<1>3. CASE ~Pending
  BY <1>1, <1>3, QuietStep DEF ConfirmEnable, IInv, TypeOK
<1> QED
  BY <1>2, <1>3

LEMMA AdvanceIInv ==
  ASSUME IInv, NEW r \in Requests, VerifyAdvance(r)
  PROVE  IInv'
<1>1. /\ req' \in [Requests -> Request]
      /\ \A q \in Requests : req'[q].pc \in {"enable", "advance"} => req'[q] = req[q]
  BY GoesOn DEF VerifyAdvance, Accepted
<1>2. CASE Later(r)
  <2>1. /\ totp \in Row /\ totp.lastStep < req[r].step
        /\ totp' = [totp EXCEPT !.lastStep = req[r].step]
        /\ Accept(r) /\ recovery' = recovery /\ now' = now
    BY <1>2, RowFacts DEF VerifyAdvance, Later, IInv
  <2>2. req[r].step \in Steps /\ req[r].secret \in given
    BY DEF VerifyAdvance, At, IInv, HolderSound
  <2>3. /\ totp' \in Row /\ totp'.secret = totp.secret
        /\ totp'.enabled = totp.enabled /\ totp'.lastStep = req[r].step
    BY <2>1, <2>2 DEF Row
  <2>4. \A c \in spent : c[1] = totp.secret => c[2] < req[r].step
    BY <2>1, <2>2, TwoFactorAssumption DEF IInv, SpentRecorded, TypeOK, Steps, Row
  <2>5. /\ given' = given /\ replayed' = {}
        /\ spent' \subseteq Secrets \X Steps
        /\ \A c \in spent' :
             \/ c \in spent
             \/ c = <<req[r].secret, req[r].step>> /\ totp.secret = req[r].secret
    <3>1. totp.secret = req[r].secret => <<req[r].secret, req[r].step>> \notin spent
      BY <2>2, <2>4, TwoFactorAssumption DEF Steps
    <3> QED
      BY <2>1, <3>1, AcceptNew DEF VerifyAdvance, At
  <2>6. TypeOK'
    BY <1>1, <2>1, <2>2, <2>3, <2>5, TwoFactorAssumption DEF IInv, TypeOK, Steps
  <2>7. SpentRecorded'
    <3>1. totp'.secret \in given' \cup {Null}
      BY <2>3, <2>5 DEF IInv, SpentRecorded
    <3>2. ASSUME NEW c \in spent'
          PROVE  /\ c[1] \in given'
                 /\ totp'.secret = c[1] => totp'.enabled /\ c[2] <= totp'.lastStep
      <4>1. CASE c \in spent
        <5>1. c[2] \in Steps
          BY <4>1 DEF IInv, TypeOK
        <5> QED
          BY <2>2, <2>3, <2>4, <2>5, <4>1, <5>1, TwoFactorAssumption
             DEF IInv, SpentRecorded, Steps
      <4>2. CASE c = <<req[r].secret, req[r].step>> /\ totp.secret = req[r].secret
        <5>1. totp.enabled
          BY <4>2 DEF IInv, HolderSound, VerifyAdvance, At
        <5> QED
          BY <2>2, <2>3, <2>5, <4>2, <5>1, TwoFactorAssumption DEF Steps
      <4> QED
        BY <2>5, <4>1, <4>2
    <3> QED
      BY <3>1, <3>2 DEF SpentRecorded
  <2>8. ASSUME NEW q \in Requests PROVE HolderSound(q)'
    BY <1>1, <2>3, <2>5, <2>8 DEF IInv, HolderSound, At
  <2> QED
    BY <2>5, <2>6, <2>7, <2>8 DEF IInv, CodeAcceptedOnce
<1>3. CASE ~Later(r)
  BY <1>1, <1>3, QuietStep DEF VerifyAdvance, IInv, TypeOK
<1> QED
  BY <1>2, <1>3

(***************************************************************************)
(* The other statements, a failure and the clock are quiet.                *)
(***************************************************************************)
LEMMA OtherIInv ==
  ASSUME IInv, NEW r \in Requests,
         \/ SetupDelete(r) \/ ConfirmClear(r) \/ ConfirmInsert(r)
         \/ VerifyConsume(r) \/ DeleteCodes(r) \/ DeleteTotp(r) \/ CutShort(r)
  PROVE  IInv'
<1> DEFINE RecoveryTyped ==
      recovery' \in [Recovery -> {"fresh", "unused", "used", "deleted"}]
<1>1. /\ req' \in [Requests -> Request]
      /\ \A q \in Requests : req'[q].pc \in {"enable", "advance"} => req'[q] = req[q]
  BY GoesOn DEF SetupDelete, ConfirmClear, ConfirmInsert, VerifyConsume,
                Accepted, DeleteCodes, DeleteTotp, CutShort
<1>2. now' = now /\ UNCHANGED hist /\ (totp' = totp \/ totp' = NoRow)
  BY DEF SetupDelete, DeletePending, ConfirmClear, ConfirmInsert,
         VerifyConsume, DeleteCodes, DeleteTotp, CutShort
<1>3. RecoveryTyped
  <2>1. CASE DeleteRecovery
    BY <2>1 DEF DeleteRecovery, IInv, TypeOK
  <2>2. CASE UNCHANGED recovery
    BY <2>2 DEF IInv, TypeOK
  <2>3. CASE ConfirmInsert(r) \/ VerifyConsume(r)
    BY <2>3 DEF ConfirmInsert, VerifyConsume, IInv, TypeOK
  <2> QED
    BY <2>1, <2>2, <2>3 DEF SetupDelete, ConfirmClear, DeleteCodes, DeleteTotp, CutShort
<1> QED
  BY <1>1, <1>2, <1>3, QuietStep DEF IInv, TypeOK

LEMMA StepIInv == IInv /\ [Next]_vars => IInv'
<1> SUFFICES ASSUME IInv, [Next]_vars PROVE IInv'
  OBVIOUS
<1>1. ASSUME NEW r \in Requests, Start(r) \/ Continue(r) \/ CutShort(r)
      PROVE  IInv'
  BY <1>1, StartIInv, CreateIInv, EnableIInv, AdvanceIInv, OtherIInv DEF Continue
<1>2. CASE Tick
  <2>1. now' \in 2..MaxStep
    BY <1>2, TwoFactorAssumption DEF Tick, IInv, TypeOK
  <2> QED
    BY <1>2, <2>1, QuietStep DEF Tick, IInv, TypeOK
<1>3. CASE UNCHANGED vars
  BY <1>3, QuietStep DEF vars, hist, IInv, TypeOK
<1> QED
  BY <1>1, <1>2, <1>3 DEF Next

LEMMA Invariance == Spec => []IInv
  BY InitIInv, StepIInv, PTL DEF Spec

(* Every reachable state is well typed: an enabled row has a step, and     *)
(* what was spent or replayed are codes.                                   *)
THEOREM TwoFactorTyped == Spec => []TypeOK
<1>1. IInv => TypeOK
  BY DEF IInv
<1> QED
  BY <1>1, Invariance, PTL

(***************************************************************************)
(* A code is accepted at most once for its enrolment, whatever requests,   *)
(* setups and resets of totp.service.ts are in flight together.            *)
(***************************************************************************)
THEOREM AcceptedOnce == Spec => []CodeAcceptedOnce
<1>1. IInv => CodeAcceptedOnce
  BY DEF IInv
<1> QED
  BY <1>1, Invariance, PTL

-----------------------------------------------------------------------------
(* The step of OnlyDeletionTurnsOff.                                       *)
StaysOn ==
  totp.enabled =>
    \/ /\ totp'.enabled
       /\ totp'.secret = totp.secret
       /\ totp'.lastStep >= totp.lastStep
    \/ \E r \in Requests : At(r, "deleteTotp") /\ totp' = NoRow

LEMMA StepStaysOn == IInv /\ [Next]_vars => [StaysOn]_vars
<1> SUFFICES ASSUME IInv, [Next]_vars, totp.enabled PROVE StaysOn
  BY DEF StaysOn
<1>1. Exists /\ ~Pending /\ totp \in Row
  BY RowFacts DEF IInv, Pending
<1>2. totp.lastStep \in Int
  BY <1>1, TwoFactorAssumption DEF Row, Steps
<1>3. CASE totp' = totp
  BY <1>2, <1>3 DEF StaysOn
<1>4. ASSUME NEW r \in Requests, VerifyAdvance(r) PROVE StaysOn
  <2>1. req[r].step \in Int
    BY <1>4, TwoFactorAssumption DEF IInv, TypeOK, Request, Steps
  <2>2. CASE Later(r)
    BY <1>1, <1>2, <1>4, <2>1, <2>2 DEF VerifyAdvance, Later, Row, StaysOn
  <2> QED
    BY <1>3, <1>4, <2>2 DEF VerifyAdvance
<1>5. ASSUME NEW r \in Requests, DeleteTotp(r) PROVE StaysOn
  BY <1>5 DEF DeleteTotp, StaysOn
<1>6. ASSUME NEW r \in Requests,
             Start(r) \/ Continue(r) \/ CutShort(r),
             ~VerifyAdvance(r), ~DeleteTotp(r)
      PROVE  totp' = totp
  BY <1>1, <1>6 DEF Start, SetupStart, ResetStart, ConfirmStart, VerifyStart,
       VerifyRecovery, Begin, Continue, SetupDelete, DeletePending,
       SetupCreate, ConfirmEnable, ConfirmClear, ConfirmInsert,
       VerifyConsume, DeleteCodes, CutShort
<1> QED
  BY <1>3, <1>4, <1>5, <1>6 DEF Next, Tick, vars

(***************************************************************************)
(* No setup or confirm that is in flight turns TOTP off, replaces the      *)
(* secret or forgets a step: only deleteAllForUser does.                   *)
(***************************************************************************)
THEOREM StaysOnUntilDeleted == Spec => OnlyDeletionTurnsOff
<1>1. OnlyDeletionTurnsOff <=> [][StaysOn]_vars
  BY PTL DEF OnlyDeletionTurnsOff, StaysOn
<1> QED
  BY <1>1, Invariance, StepStaysOn, PTL DEF Spec
=============================================================================
