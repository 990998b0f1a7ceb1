------------------------ MODULE LoginThrottle_proofs ------------------------
(***************************************************************************)
(* A lockout takes a full run of failures, and codes are guessed no faster *)
(* than it allows, for any number of accounts and sign-ins, any limit and  *)
(* any lockout.                                                            *)
(***************************************************************************)
EXTENDS LoginThrottle, TLAPS

Entry == [count : Nat, lockedUntil : Nat]

(***************************************************************************)
(* What the proof needs of the types: the histories of what was guessed    *)
(* play no part, and an account is in a request only while it runs.        *)
(***************************************************************************)
Typed ==
  /\ now \in Nat
  /\ failures \in [Accounts -> Entry]
  /\ failed \in [Accounts -> Nat] /\ locks \in [Accounts -> Nat]
  /\ DOMAIN req = Requests
  /\ \A r \in Requests : ~At(r, "idle") => req[r].account \in Accounts

(***************************************************************************)
(* An entry that locks nothing has not reached the limit, and its failures *)
(* came after those that earlier lockouts took.                            *)
(***************************************************************************)
Paid(count, counted, begun) == counted >= MaxFailures * begun + count

EntryPaid(a) ==
  /\ Paid(0, failed[a], locks[a])
  /\ failures[a].lockedUntil = 0 =>
       /\ failures[a].count < MaxFailures
       /\ Paid(failures[a].count, failed[a], locks[a])

IInv == Typed /\ \A a \in Accounts : EntryPaid(a)

(***************************************************************************)
(* The arithmetic of a run that reaches the limit.                         *)
(***************************************************************************)
LEMMA OneMore ==
  ASSUME NEW m \in Nat, NEW n \in Nat
  PROVE  /\ m * n \in Nat
         /\ m * (n + 1) = m * n + m
         /\ m * 0 = 0
OBVIOUS

LEMMA InitIInv == Init => IInv
BY ThrottleAssumption, OneMore
   DEF Init, IInv, Typed, EntryPaid, Paid, NoEntry, Entry, At, Idle

(***************************************************************************)
(* An account whose entry, as it is read now, replaces the stored one.     *)
(***************************************************************************)
LEMMA LivePaid ==
  ASSUME IInv, NEW a \in Accounts
  PROVE  /\ LiveEntry(a) \in Entry
         /\ LiveEntry(a).lockedUntil = 0 =>
              /\ LiveEntry(a).count < MaxFailures
              /\ Paid(LiveEntry(a).count, failed[a], locks[a])
         /\ LiveEntry(a).lockedUntil # 0 => Locked(a)
BY ThrottleAssumption
   DEF IInv, Typed, EntryPaid, Paid, LiveEntry, Locked, NoEntry, Entry

LEMMA ReadKeeps ==
  ASSUME IInv, NEW a \in Accounts, ReadEntry(a), UNCHANGED <<failed, locks>>
  PROVE  failures' \in [Accounts -> Entry] /\ \A b \in Accounts : EntryPaid(b)'
<1>1. failures' \in [Accounts -> Entry]
  BY LivePaid DEF ReadEntry, IInv, Typed
<1>2. ASSUME NEW b \in Accounts PROVE EntryPaid(b)'
  BY LivePaid DEF ReadEntry, IInv, Typed, EntryPaid
<1>. QED
  BY <1>1, <1>2

(***************************************************************************)
(* A failure is counted: it begins a lockout only as the last of a run.    *)
(***************************************************************************)
LEMMA FailureKeeps ==
  ASSUME IInv, NEW a \in Accounts, RecordFailure(a)
  PROVE  /\ failures' \in [Accounts -> Entry]
         /\ failed' \in [Accounts -> Nat] /\ locks' \in [Accounts -> Nat]
         /\ \A b \in Accounts : EntryPaid(b)'
<1>. DEFINE live == LiveEntry(a)
            c == live.count
            m == MaxFailures * locks[a]
<1>. live \in Entry
  BY LivePaid
<1>. /\ failures \in [Accounts -> Entry] /\ now \in Nat
     /\ failed \in [Accounts -> Nat] /\ locks \in [Accounts -> Nat]
     /\ Lockout \in Nat \ {0} /\ MaxFailures \in Nat \ {0}
  BY ThrottleAssumption DEF IInv, Typed
<1>1. Counted(live) \in Entry
  BY DEF Counted, Entry
<1>2. failures'[a] = Counted(live) /\ failed'[a] = failed[a] + 1
  BY DEF RecordFailure
<1>3. locks'[a] = IF ~Locked(a) /\ Counted(live).lockedUntil > now
                    THEN locks[a] + 1 ELSE locks[a]
  BY <1>2 DEF RecordFailure
<1>4. /\ failures' \in [Accounts -> Entry]
      /\ failed' \in [Accounts -> Nat] /\ locks' \in [Accounts -> Nat]
  BY <1>1, <1>2, <1>3 DEF RecordFailure
<1>5. m \in Nat /\ MaxFailures * (locks[a] + 1) = m + MaxFailures
  BY OneMore
<1>6. failed[a] >= m
  BY <1>5 DEF IInv, EntryPaid, Paid
<1>7. EntryPaid(a)'
  <2>1. CASE live.lockedUntil # 0
    <3>1. locks'[a] = locks[a]
      BY <1>3, <2>1, LivePaid
    <3>2. Counted(live).lockedUntil # 0
      BY <2>1 DEF Counted, Entry
    <3>. QED
      BY <1>2, <1>5, <1>6, <3>1, <3>2 DEF EntryPaid, Paid
  <2>2. CASE live.lockedUntil = 0
    <3>1. c \in Nat /\ c < MaxFailures /\ failed[a] >= m + c
      BY <2>2, LivePaid DEF Paid, Entry
    <3>2. ~Locked(a)
      BY <2>2 DEF Locked
    <3>3. CASE c + 1 >= MaxFailures
      <4>1. Counted(live).lockedUntil = now + Lockout
        BY <3>3 DEF Counted
      <4>2. locks'[a] = locks[a] + 1
        BY <1>3, <3>2, <4>1
      <4>. QED
        BY <1>2, <1>5, <3>1, <3>3, <4>1, <4>2 DEF EntryPaid, Paid
    <3>4. CASE c + 1 < MaxFailures
      <4>1. Counted(live).lockedUntil = 0 /\ Counted(live).count = c + 1
        BY <2>2, <3>1, <3>4 DEF Counted
      <4>2. locks'[a] = locks[a]
        BY <1>3, <4>1
      <4>. QED
        BY <1>2, <1>5, <1>6, <3>1, <3>4, <4>1, <4>2 DEF EntryPaid, Paid
    <3>. QED
      BY <3>1, <3>3, <3>4
  <2>. QED
    BY <2>1, <2>2
<1>8. ASSUME NEW b \in Accounts, b # a PROVE EntryPaid(b)'
  <2>1. /\ failures'[b] = failures[b] /\ failed'[b] = failed[b]
        /\ locks'[b] = locks[b]
    BY <1>8 DEF RecordFailure
  <2>. QED
    BY <2>1 DEF IInv, EntryPaid
<1>. QED
  BY <1>4, <1>7, <1>8

LEMMA SignedInKeeps ==
  ASSUME IInv, NEW a \in Accounts, SignedIn(a)
  PROVE  /\ failures' \in [Accounts -> Entry]
         /\ failed' \in [Accounts -> Nat] /\ locks' \in [Accounts -> Nat]
         /\ \A b \in Accounts : EntryPaid(b)'
<1>1. /\ failures' \in [Accounts -> Entry]
      /\ failed' \in [Accounts -> Nat] /\ locks' \in [Accounts -> Nat]
  BY DEF SignedIn, IInv, Typed, NoEntry, Entry
<1>2. EntryPaid(a)'
  BY OneMore, ThrottleAssumption
     DEF SignedIn, IInv, Typed, EntryPaid, Paid, NoEntry
<1>3. ASSUME NEW b \in Accounts, b # a PROVE EntryPaid(b)'
  BY <1>3 DEF SignedIn, IInv, Typed, EntryPaid
<1>. QED
  BY <1>1, <1>2, <1>3

(***************************************************************************)
(* Every step of a sign-in, in turn.                                       *)
(***************************************************************************)
LEMMA SignInKeeps ==
  ASSUME IInv, NEW r \in Requests, SignIn(r)
  PROVE  IInv'
<1>. DEFINE Requested == /\ DOMAIN req' = Requests
                         /\ \A q \in Requests : ~At(q, "idle")' =>
                              req'[q].account \in Accounts
            Entries == /\ failures' \in [Accounts -> Entry]
                       /\ failed' \in [Accounts -> Nat]
                       /\ locks' \in [Accounts -> Nat]
                       /\ \A b \in Accounts : EntryPaid(b)'
<1>1. now' = now
  BY DEF SignIn, PasswordStart, MfaStart, GoogleStart, PasswordWrong,
         PasswordRight, FinishLogin, MfaVerified, CutShort
<1>2. ASSUME UNCHANGED <<failures, failed, locks>> PROVE Entries
  BY <1>2 DEF IInv, Typed, EntryPaid
<1>3. ASSUME Finish(r) PROVE Requested
  BY <1>3 DEF Finish, IInv, Typed, At, Idle
<1>4. ASSUME ~At(r, "idle") PROVE req[r].account \in Accounts
  BY <1>4 DEF IInv, Typed
<1>5. Requested /\ Entries
  <2>1. ASSUME NEW a \in Accounts, NEW right \in BOOLEAN,
               PasswordStart(r, a, right)
        PROVE  Requested /\ Entries
    <3>1. Entries
      BY <2>1, ReadKeeps DEF PasswordStart, IInv, Typed
    <3>2. Requested
      BY <2>1 DEF PasswordStart, IInv, Typed, At
    <3>. QED
      BY <3>1, <3>2
  <2>2. ASSUME NEW a \in Accounts, NEW right \in BOOLEAN, MfaStart(r, a, right)
        PROVE  Requested /\ Entries
    <3>1. Entries
      BY <2>2, FailureKeeps DEF MfaStart
    <3>2. Requested
      BY <2>2 DEF MfaStart, IInv, Typed, At
    <3>. QED
      BY <3>1, <3>2
  <2>3. ASSUME NEW a \in Accounts, GoogleStart(r, a)
        PROVE  Requested /\ Entries
    <3>1. Entries
      BY <2>3, <1>2 DEF GoogleStart
    <3>2. Requested
      BY <2>3 DEF GoogleStart, IInv, Typed, At, Idle
    <3>. QED
      BY <3>1, <3>2
  <2>4. CASE PasswordWrong(r)
    <3>1. ~At(r, "idle")
      BY <2>4 DEF PasswordWrong, At
    <3>2. Entries
      BY <2>4, <3>1, <1>2, <1>4, FailureKeeps DEF PasswordWrong
    <3>. QED
      BY <2>4, <3>2, <1>3 DEF PasswordWrong
  <2>5. CASE PasswordRight(r)
    <3>1. Entries
      BY <2>5, <1>2 DEF PasswordRight
    <3>2. Requested
      BY <2>5 DEF PasswordRight, IInv, Typed, At
    <3>. QED
      BY <3>1, <3>2
  <2>6. CASE FinishLogin(r)
    <3>1. ~At(r, "idle")
      BY <2>6 DEF FinishLogin, At
    <3>2. Entries
      BY <2>6, <3>1, <1>2, <1>4, SignedInKeeps DEF FinishLogin
    <3>. QED
      BY <2>6, <3>2, <1>3 DEF FinishLogin
  <2>7. CASE MfaVerified(r)
    <3>1. ~At(r, "idle")
      BY <2>7 DEF MfaVerified, At
    <3>2. Entries
      BY <2>7, <3>1, <1>2, <1>4, SignedInKeeps DEF MfaVerified
    <3>. QED
      BY <2>7, <3>2, <1>3 DEF MfaVerified
  <2>8. CASE CutShort(r)
    BY <2>8, <1>2, <1>3 DEF CutShort
  <2>. QED
    BY <2>1, <2>2, <2>3, <2>4, <2>5, <2>6, <2>7, <2>8 DEF SignIn
<1>. QED
  BY <1>1, <1>5 DEF IInv, Typed

LEMMA NextIInv == IInv /\ [Next]_vars => IInv'
<1>. SUFFICES ASSUME IInv, [Next]_vars PROVE IInv'
  OBVIOUS
<1>1. ASSUME NEW r \in Requests, SignIn(r) PROVE IInv'
  BY <1>1, SignInKeeps
<1>2. ASSUME NEW a \in Accounts, PasskeyLogin(a) PROVE IInv'
  BY <1>2, SignedInKeeps DEF PasskeyLogin, IInv, Typed, At
<1>3. ASSUME NEW a \in Accounts, SetTotp(a) PROVE IInv'
  BY <1>3 DEF SetTotp, IInv, Typed, At, EntryPaid
<1>4. CASE Tick
  BY <1>4, ThrottleAssumption DEF Tick, IInv, Typed, At, EntryPaid
<1>5. CASE UNCHANGED vars
  BY <1>5 DEF vars, IInv, Typed, At, EntryPaid
<1>. QED
  BY <1>1, <1>2, <1>3, <1>4, <1>5 DEF Next

(***************************************************************************)
(* An owner is locked out only after MaxFailures failures that no earlier  *)
(* lockout was begun by, whatever sign-ins race past the limit and however *)
(* many lockouts were waited out.                                          *)
(***************************************************************************)
THEOREM FullRunNeeded == Spec => []LockNeedsFullRun
<1>1. IInv => LockNeedsFullRun
  BY ThrottleAssumption, OneMore
     DEF IInv, Typed, EntryPaid, Paid, LockNeedsFullRun
<1>. QED
  BY <1>1, InitIInv, NextIInv, PTL DEF Spec

-----------------------------------------------------------------------------
(***************************************************************************)
(* The codes an account was tried with, in the order of their times.       *)
(***************************************************************************)
Times ==
  /\ guessed \in [Accounts -> Seq(Nat)]
  /\ \A a \in Accounts : \A i \in DOMAIN guessed[a] : guessed[a][i] <= now

(***************************************************************************)
(* An entry that locks nothing has counted every code but those tried a    *)
(* Lockout ago or earlier; one that locks does so until a Lockout after    *)
(* each of them.                                                           *)
(***************************************************************************)
Counts(entry, codes) ==
  \A i \in DOMAIN codes :
    IF entry.lockedUntil = 0
      THEN i + entry.count <= Len(codes) => codes[i] + Lockout <= now
      ELSE codes[i] + Lockout <= entry.lockedUntil

GuessInv ==
  /\ Times
  /\ GuessesBounded
  /\ \A a \in Accounts : Counts(failures[a], guessed[a])

LEMMA GuessInit == Init => GuessInv
BY DEF Init, GuessInv, Times, GuessesBounded, Counts, NoEntry

(***************************************************************************)
(* What the entry has counted, it has counted as it is read now: one that  *)
(* has expired did so a Lockout after every code.                          *)
(***************************************************************************)
LEMMA LiveCounts ==
  ASSUME IInv, GuessInv, NEW a \in Accounts
  PROVE  Counts(LiveEntry(a), guessed[a])
<1>. failures[a] \in Entry /\ now \in Nat /\ Lockout \in Nat
     /\ guessed[a] \in Seq(Nat)
  BY ThrottleAssumption DEF IInv, Typed, GuessInv, Times
<1>1. Counts(failures[a], guessed[a])
  BY DEF GuessInv
<1>2. CASE LiveEntry(a) = failures[a]
  BY <1>1, <1>2
<1>3. CASE /\ failures[a].lockedUntil # 0 /\ failures[a].lockedUntil <= now
           /\ LiveEntry(a) = NoEntry
  BY <1>1, <1>3 DEF Counts, NoEntry, Entry
<1>. QED
  BY <1>2, <1>3 DEF LiveEntry

(***************************************************************************)
(* A failure that is no code, or one that is: the code is the last of      *)
(* those that the new entry counts, and the MaxFailures-th before it is a  *)
(* Lockout old, for the account was not locked.                            *)
(***************************************************************************)
LEMMA FailureCounts ==
  ASSUME IInv, GuessInv, NEW a \in Accounts
  PROVE  Counts(Counted(LiveEntry(a)), guessed[a])
<1>. DEFINE live == LiveEntry(a)
<1>. live \in Entry /\ Counts(live, guessed[a])
  BY LivePaid, LiveCounts
<1>. /\ now \in Nat /\ Lockout \in Nat \ {0} /\ MaxFailures \in Nat
     /\ guessed[a] \in Seq(Nat)
     /\ \A i \in DOMAIN guessed[a] : guessed[a][i] <= now
  BY ThrottleAssumption DEF IInv, Typed, GuessInv, Times
<1>. HIDE DEF live
<1>1. ASSUME live.count + 1 >= MaxFailures
      PROVE  Counts(Counted(live), guessed[a])
  <2>1. Counted(live).lockedUntil = now + Lockout
    BY <1>1 DEF Counted
  <2>. QED
    BY <2>1 DEF Counts
<1>2. ASSUME live.count + 1 < MaxFailures
      PROVE  Counts(Counted(live), guessed[a])
  <2>1. /\ Counted(live).lockedUntil = live.lockedUntil
        /\ Counted(live).count = live.count + 1
    BY <1>2 DEF Counted, Entry
  <2>. QED
    BY <2>1 DEF Counts, Entry
<1>. QED
  BY <1>1, <1>2 DEF Entry, live

LEMMA GuessCounts ==
  ASSUME IInv, GuessInv, NEW a \in Accounts, ~Locked(a)
  PROVE  /\ Counts(Counted(LiveEntry(a)), Append(guessed[a], now))
         /\ \A i \in DOMAIN guessed[a] :
              i + MaxFailures <= Len(guessed[a]) + 1 =>
                guessed[a][i] + Lockout <= now
<1>. DEFINE live == LiveEntry(a)
            codes == guessed[a]
<1>. /\ live \in Entry /\ Counts(live, codes)
     /\ live.lockedUntil = 0 /\ live.count < MaxFailures
  BY LivePaid, LiveCounts
<1>. /\ now \in Nat /\ Lockout \in Nat \ {0} /\ MaxFailures \in Nat
     /\ codes \in Seq(Nat)
     /\ \A i \in DOMAIN codes : codes[i] <= now
  BY ThrottleAssumption DEF IInv, Typed, GuessInv, Times
<1>. HIDE DEF live, codes
<1>1. /\ DOMAIN Append(codes, now) = DOMAIN codes \cup {Len(codes) + 1}
      /\ Len(Append(codes, now)) = Len(codes) + 1
      /\ Append(codes, now)[Len(codes) + 1] = now
      /\ \A i \in DOMAIN codes : Append(codes, now)[i] = codes[i]
  OBVIOUS
<1>2. \A i \in DOMAIN codes : i \in Nat /\ codes[i] \in Nat
  OBVIOUS
<1>3. Counts(Counted(live), Append(codes, now))
  <2>1. CASE live.count + 1 >= MaxFailures
    <3>1. Counted(live).lockedUntil = now + Lockout
      BY <2>1 DEF Counted
    <3>. QED
      BY <1>1, <1>2, <3>1 DEF Counts
  <2>2. CASE live.count + 1 < MaxFailures
    <3>1. /\ Counted(live).lockedUntil = 0
          /\ Counted(live).count = live.count + 1
      BY <2>2 DEF Counted, Entry
    <3>. QED
      BY <1>1, <1>2, <3>1 DEF Counts, Entry
  <2>. QED
    BY <2>1, <2>2 DEF Entry
<1>4. \A i \in DOMAIN codes :
        i + MaxFailures <= Len(codes) + 1 => codes[i] + Lockout <= now
  BY <1>2 DEF Counts, Entry
<1>. QED
  BY <1>3, <1>4 DEF live, codes

(***************************************************************************)
(* The three things that can happen to one account.                        *)
(***************************************************************************)
Stays(a) ==
  guessed'[a] = guessed[a] /\ failures'[a] \in {failures[a], LiveEntry(a)}

Fails(a) ==
  guessed'[a] = guessed[a] /\ failures'[a] = Counted(LiveEntry(a))

Guesses(a) ==
  /\ ~Locked(a)
  /\ guessed'[a] = Append(guessed[a], now)
  /\ failures'[a] = Counted(LiveEntry(a))

Restarts(a) == guessed'[a] = <<>> /\ failures'[a] = NoEntry

GuessesKept == guessed' = [b \in Accounts |-> guessed'[b]]

LEMMA AccountMoves ==
  ASSUME IInv, GuessInv, [Next]_vars, NEW a \in Accounts
  PROVE  /\ GuessesKept
         /\ \/ now' = now
            \/ now' = now + 1 /\ UNCHANGED <<guessed, failures>>
         /\ Stays(a) \/ Fails(a) \/ Guesses(a) \/ Restarts(a)
<1>. USE DEF IInv, Typed, GuessInv, Times, GuessesKept
<1>1. CASE UNCHANGED <<failures, guessed>> /\ (now' = now \/ now' = now + 1)
  BY <1>1 DEF Stays
<1>2. ASSUME NEW b \in Accounts, SignedIn(b), now' = now
      PROVE  GuessesKept /\ (Stays(a) \/ Restarts(a))
  BY <1>2 DEF SignedIn, Stays, Restarts
<1>3. ASSUME NEW b \in Accounts, RecordFailure(b), UNCHANGED guessed
      PROVE  Stays(a) \/ Fails(a)
  BY <1>3 DEF RecordFailure, Stays, Fails
<1>4. ASSUME NEW r \in Requests, SignIn(r)
      PROVE  /\ GuessesKept
             /\ now' = now
             /\ Stays(a) \/ Fails(a) \/ Guesses(a) \/ Restarts(a)
  <2>0. ASSUME ~At(r, "idle") PROVE req[r].account \in Accounts
    BY <2>0
  <2>1. ASSUME NEW b \in Accounts, NEW right \in BOOLEAN,
               PasswordStart(r, b, right)
        PROVE  GuessesKept /\ now' = now /\ Stays(a)
    BY <2>1 DEF PasswordStart, ReadEntry, Stays
  <2>2. ASSUME NEW b \in Accounts, NEW right \in BOOLEAN, MfaStart(r, b, right)
        PROVE  GuessesKept /\ now' = now /\ (Stays(a) \/ Guesses(a))
    BY <2>2 DEF MfaStart, RecordFailure, Stays, Guesses
  <2>3. CASE PasswordWrong(r)
    <3>1. ~At(r, "idle")
      BY <2>3 DEF PasswordWrong, At
    <3>. QED
      BY <2>0, <2>3, <3>1, <1>1, <1>3 DEF PasswordWrong
  <2>4. CASE FinishLogin(r)
    <3>1. ~At(r, "idle")
      BY <2>4 DEF FinishLogin, At
    <3>. QED
      BY <2>0, <2>4, <3>1, <1>1, <1>2 DEF FinishLogin
  <2>5. CASE MfaVerified(r)
    <3>1. ~At(r, "idle")
      BY <2>5 DEF MfaVerified, At
    <3>. QED
      BY <2>0, <2>5, <3>1, <1>1, <1>2 DEF MfaVerified
  <2>6. CASE \/ \E b \in Accounts : GoogleStart(r, b)
             \/ PasswordRight(r) \/ CutShort(r)
    BY <2>6, <1>1 DEF GoogleStart, PasswordRight, CutShort
  <2>. QED
    BY <1>4, <2>1, <2>2, <2>3, <2>4, <2>5, <2>6 DEF SignIn
<1>5. ASSUME NEW b \in Accounts, PasskeyLogin(b)
      PROVE  GuessesKept /\ now' = now /\ (Stays(a) \/ Restarts(a))
  BY <1>2, <1>5 DEF PasskeyLogin
<1>6. CASE Tick \/ (\E b \in Accounts : SetTotp(b)) \/ UNCHANGED vars
  BY <1>1, <1>6 DEF Tick, SetTotp, vars
<1>7. CASE \E r \in Requests : SignIn(r)
  BY <1>4, <1>7
<1>8. CASE \E b \in Accounts : PasskeyLogin(b)
  BY <1>5, <1>8
<1>. QED
  BY <1>6, <1>7, <1>8 DEF Next

LEMMA GuessStep == ASSUME IInv, GuessInv, [Next]_vars PROVE GuessInv'
<1>. DEFINE Fine(a) ==
       /\ guessed'[a] \in Seq(Nat)
       /\ \A i \in DOMAIN guessed'[a] : guessed'[a][i] <= now'
       /\ \A i, j \in DOMAIN guessed'[a] :
            i + MaxFailures <= j => guessed'[a][i] + Lockout <= guessed'[a][j]
       /\ Counts(failures[a], guessed[a])'
<1>1. ASSUME NEW a \in Accounts PROVE Fine(a)
  <2>. /\ now \in Nat /\ Lockout \in Nat \ {0} /\ MaxFailures \in Nat \ {0}
       /\ guessed[a] \in Seq(Nat) /\ failures[a] \in Entry
       /\ \A i \in DOMAIN guessed[a] : guessed[a][i] <= now
       /\ \A i, j \in DOMAIN guessed[a] :
            i + MaxFailures <= j => guessed[a][i] + Lockout <= guessed[a][j]
    BY ThrottleAssumption DEF IInv, Typed, GuessInv, Times, GuessesBounded
  <2>1. Counts(failures[a], guessed[a])
    BY DEF GuessInv
  <2>2. CASE now' = now + 1 /\ UNCHANGED <<guessed, failures>>
    BY <2>1, <2>2 DEF Counts
  <2>3. CASE now' = now /\ (Stays(a) \/ Fails(a))
    <3>1. Counts(failures'[a], guessed[a])
      BY <2>1, <2>3, LiveCounts, FailureCounts DEF Stays, Fails
    <3>2. guessed'[a] = guessed[a]
      BY <2>3 DEF Stays, Fails
    <3>. QED
      BY <2>3, <3>1, <3>2 DEF Counts
  <2>4. CASE now' = now /\ Guesses(a)
    <3>. DEFINE codes == guessed[a]
    <3>1. /\ guessed'[a] = Append(codes, now)
          /\ Counts(failures'[a], guessed'[a])
          /\ \A i \in DOMAIN codes :
               i + MaxFailures <= Len(codes) + 1 => codes[i] + Lockout <= now
      BY <2>4, GuessCounts DEF Guesses
    <3>2. /\ DOMAIN Append(codes, now) = DOMAIN codes \cup {Len(codes) + 1}
          /\ Append(codes, now)[Len(codes) + 1] = now
          /\ Len(codes) \in Nat
          /\ \A i \in DOMAIN codes :
               /\ Append(codes, now)[i] = codes[i]
               /\ i \in Nat /\ i <= Len(codes) /\ codes[i] \in Nat
      OBVIOUS
    <3>3. Append(codes, now) \in Seq(Nat)
      OBVIOUS
    <3>4. \A i \in DOMAIN codes : codes[i] <= now
      OBVIOUS
    <3>5. \A i, j \in DOMAIN codes :
            i + MaxFailures <= j => codes[i] + Lockout <= codes[j]
      OBVIOUS
    <3>. HIDE DEF codes
    <3>6. \A i \in DOMAIN guessed'[a] : guessed'[a][i] <= now'
      BY <2>4, <3>1, <3>2, <3>4
    <3>7. ASSUME NEW i \in DOMAIN guessed'[a], NEW j \in DOMAIN guessed'[a],
                 i + MaxFailures <= j
          PROVE  guessed'[a][i] + Lockout <= guessed'[a][j]
      <4>1. CASE j \in DOMAIN codes
        BY <3>1, <3>2, <3>5, <3>7, <4>1
      <4>2. CASE j = Len(codes) + 1
        BY <3>1, <3>2, <3>7, <4>2
      <4>. QED
        BY <3>1, <3>2, <4>1, <4>2
    <3>8. Counts(failures[a], guessed[a])'
      BY <2>4, <3>1 DEF Counts
    <3>. QED
      BY <3>1, <3>3, <3>6, <3>7, <3>8
  <2>5. CASE now' = now /\ Restarts(a)
    <3>1. /\ guessed'[a] = <<>> /\ <<>> \in Seq(Nat)
          /\ \A i \in DOMAIN guessed'[a] : FALSE
      BY <2>5 DEF Restarts
    <3>. QED
      BY <3>1 DEF Counts
  <2>. QED
    BY <2>2, <2>3, <2>4, <2>5, AccountMoves
<1>2. ASSUME Accounts # {} PROVE GuessesKept
  BY <1>2, AccountMoves
<1>3. guessed' \in [Accounts -> Seq(Nat)]
  <2>1. CASE Accounts # {}
    BY <1>1, <1>2, <2>1 DEF GuessesKept
  <2>2. CASE Accounts = {}
    <3>1. \A r \in Requests : At(r, "idle")
      BY <2>2 DEF IInv, Typed
    <3>2. UNCHANGED guessed
      BY <2>2, <3>1
         DEF Next, SignIn, PasswordWrong, PasswordRight, FinishLogin,
             MfaVerified, CutShort, Tick, vars, At
    <3>. QED
      BY <3>2 DEF GuessInv, Times
  <2>. QED
    BY <2>1, <2>2
<1>. QED
  BY <1>1, <1>3 DEF GuessInv, Times, GuessesBounded

(***************************************************************************)
(* Second-factor codes are guessed no faster than the lockout allows: any  *)
(* two that are MaxFailures apart are a Lockout apart, whatever burst they *)
(* come in and whatever passwords are tried in between.                    *)
(***************************************************************************)
THEOREM GuessingBounded == Spec => []GuessesBounded
<1>1. GuessInv => GuessesBounded
  BY DEF GuessInv
<1>2. IInv /\ GuessInv /\ [Next]_vars => GuessInv'
  BY GuessStep
<1>. QED
  BY <1>1, <1>2, GuessInit, InitIInv, NextIInv, PTL DEF Spec
=============================================================================
