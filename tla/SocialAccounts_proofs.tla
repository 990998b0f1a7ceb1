------------------------- MODULE SocialAccounts_proofs -------------------------
(***************************************************************************)
(* Proofs about SocialAccounts: types and unique addresses, no stranded    *)
(* account, no link without address, no orphaned link, and that a Google   *)
(* account stays with its owner.                                           *)
(***************************************************************************)
EXTENDS SocialAccounts, TLAPS

Binding == {"bindFind", "bindAny", "bindLink", "patch", "patched", "unlink"}

(***************************************************************************)
(* What a handler in state q relies on: the Google account and the user    *)
(* that it carries; that the user's row cannot be purged under it; that a  *)
(* user who was found by address, or had one when the bind began, has one  *)
(* still; and that a user without an address was not created by Google.    *)
(***************************************************************************)
SoundWith(q, us, bn) ==
  /\ q.pc # "idle" => q.google \in Googles
  /\ q.pc \in Binding \cup {"link"} => q.user \in Users
  /\ q.user # Null => us[q.user].st \in {"live", "deleted"}
  /\ q.pc \in {"link", "patched"} => us[q.user].email # Null
  /\ q.pc \in Binding /\ ~q.takesEmail => us[q.user].email # Null
  /\ q.pc \in Binding /\ q.takesEmail => bn[q.user] = Null
  /\ q.pc \in {"bindAny", "patch", "patched", "unlink"} => q.takesEmail
  /\ q.pc \in {"bindFind", "bindLink"} => ~q.ours

HandlerSound(q) == SoundWith(q, users, born)

HandlersSound == \A r \in Requests : HandlerSound(req[r])

(***************************************************************************)
(* Links name rows that are not being purged.                              *)
(***************************************************************************)
LinksHeld == \A g \in Googles : links[g] # Null => users[links[g]].st \in {"live", "deleted"}

(***************************************************************************)
(* The address of an account that Google created stays proven.             *)
(***************************************************************************)
BornProven ==
  \A u \in Users :
    /\ users[u].st = "none" => born[u] = Null
    /\ Row(u) /\ born[u] # Null => users[u].email = EmailOf[born[u]] /\ users[u].verified

(***************************************************************************)
(* A handler that will give user u an address, or take the link away.      *)
(***************************************************************************)
Settles(q, u) == q.user = u /\ q.pc \in {"patch", "unlink"} /\ ~q.ours

LinkSettled ==
  \A g \in Googles :
    links[g] # Null /\ users[links[g]].st = "live" /\ users[links[g]].email = Null =>
      \/ links[g] \in faulted
      \/ \E r \in Requests : Settles(req[r], links[g])

IInv == TypeOK /\ HandlersSound /\ LinksHeld /\ BornProven /\ LinkSettled

LEMMA IdleSound == Idle \in Request /\ HandlerSound(Idle)
  BY SocialAssumption DEF Idle, Request, HandlerSound, SoundWith, Binding

LEMMA InitIInv == Init => IInv
<1> SUFFICES ASSUME Init PROVE IInv
  OBVIOUS
<1>1. TypeOK
  BY IdleSound DEF Init, TypeOK, NoUser, User, Row
<1>2. HandlersSound
  BY SocialAssumption DEF Init, HandlersSound, HandlerSound, SoundWith, Idle, Binding
<1>3. LinksHeld /\ LinkSettled /\ BornProven
  BY DEF Init, LinksHeld, LinkSettled, BornProven, NoUser, Row
<1> QED
  BY <1>1, <1>2, <1>3 DEF IInv

-----------------------------------------------------------------------------
(***************************************************************************)
(* A step of one handler that writes no row.                               *)
(***************************************************************************)
LEMMA LocalStep ==
  ASSUME IInv, NEW r \in Requests, NEW q \in Request,
         req' = [req EXCEPT ![r] = q], HandlerSound(q),
         UNCHANGED <<users, links, born>>,
         faulted \subseteq faulted', faulted' \subseteq Users,
         \A u \in Users :
           Settles(req[r], u) => \/ Settles(q, u)
                                 \/ u \in faulted'
                                 \/ users[u].email # Null
  PROVE  IInv'
<1>1. TypeOK'
  BY DEF IInv, TypeOK, Row
<1>2. HandlersSound'
  BY DEF IInv, TypeOK, HandlersSound, HandlerSound, SoundWith
<1>3. LinksHeld' /\ BornProven'
  BY DEF IInv, LinksHeld, BornProven, Row
<1>4. ASSUME NEW g \in Googles,
             links[g] # Null, users[links[g]].st = "live",
             users[links[g]].email = Null
      PROVE  \/ links[g] \in faulted'
             \/ \E p \in Requests : Settles(req'[p], links[g])
  <2>1. links[g] \in Users
    BY <1>4 DEF IInv, TypeOK
  <2>2. CASE links[g] \in faulted
    BY <2>2
  <2>3. ASSUME NEW p \in Requests, Settles(req[p], links[g])
        PROVE  links[g] \in faulted' \/ Settles(req'[p], links[g])
    BY <1>4, <2>1, <2>3 DEF IInv, TypeOK
  <2> QED
    BY <1>4, <2>2, <2>3 DEF IInv, LinkSettled
<1>5. LinkSettled'
  BY <1>4 DEF LinkSettled, Settles
<1> QED
  BY <1>1, <1>2, <1>3, <1>5 DEF IInv

LEMMA LoginLocal ==
  ASSUME IInv, NEW r \in Requests,
         \/ \E g \in Googles, emailVerified \in BOOLEAN :
              LoginStart(r, g, emailVerified)
         \/ LoginSubject(r)
         \/ LoginByEmail(r)
         \/ LoginAnyByEmail(r)
  PROVE  IInv'
<1> USE SocialAssumption
<1>1. req[r] \in Request /\ HandlerSound(req[r]) /\ req \in [Requests -> Request]
  BY DEF IInv, TypeOK, HandlersSound
<1>2. ASSUME NEW g \in Googles, NEW emailVerified \in BOOLEAN,
             LoginStart(r, g, emailVerified)
      PROVE  IInv'
  <2> DEFINE q == [Idle EXCEPT !.pc = IF links[g] # Null THEN "subject" ELSE "byEmail",
                               !.google = g, !.user = links[g]]
  <2>1. q \in Request /\ HandlerSound(q)
    BY DEF Idle, Request, HandlerSound, SoundWith, IInv, TypeOK, LinksHeld, Binding
  <2>2. /\ req' = [req EXCEPT ![r] = q] /\ UNCHANGED <<users, links, born, faulted>>
        /\ \A u \in Users : ~Settles(req[r], u)
    BY <1>2 DEF LoginStart, At, Settles
  <2> HIDE DEF q
  <2> QED
    BY <2>1, <2>2, LocalStep DEF IInv, TypeOK
<1>3. ASSUME LoginSubject(r) \/ LoginByEmail(r) \/ LoginAnyByEmail(r), Finish(r)
      PROVE  IInv'
  <2>1. /\ UNCHANGED <<users, links, born, faulted>>
        /\ \A u \in Users : ~Settles(req[r], u)
    BY <1>3 DEF LoginSubject, LoginByEmail, LoginAnyByEmail, At, Settles
  <2>2. req' = [req EXCEPT ![r] = Idle]
    BY <1>3 DEF Finish
  <2> QED
    BY <2>1, <2>2, IdleSound, LocalStep DEF IInv, TypeOK
<1>4. ASSUME NEW pc \in {"anyByEmail", "create"},
             LoginByEmail(r) \/ LoginAnyByEmail(r), Await(r, pc)
      PROVE  IInv'
  <2> DEFINE q == [req[r] EXCEPT !.pc = pc]
  <2>1. q \in Request /\ HandlerSound(q)
    BY <1>1, <1>4 DEF Request, HandlerSound, SoundWith, LoginByEmail, LoginAnyByEmail, At, Binding
  <2>2. /\ req' = [req EXCEPT ![r] = q] /\ UNCHANGED <<users, links, born, faulted>>
        /\ \A u \in Users : ~Settles(req[r], u)
    BY <1>1, <1>4 DEF Await, LoginByEmail, LoginAnyByEmail, At, Settles
  <2> HIDE DEF q
  <2> QED
    BY <2>1, <2>2, LocalStep DEF IInv, TypeOK
<1>5. ASSUME NEW u \in Users, LoginByEmail(r), Live(u), u \in Holders(Email(r)),
             req' = [req EXCEPT ![r].pc = "link", ![r].user = u]
      PROVE  IInv'
  <2> DEFINE q == [req[r] EXCEPT !.pc = "link", !.user = u]
  <2>1. q \in Request /\ q.pc = "link" /\ q.user = u /\ q.google = req[r].google
    BY <1>1 DEF Request
  <2>2. users[u].email # Null /\ users[u].st = "live" /\ req[r].google \in Googles
    BY <1>1, <1>5 DEF LoginByEmail, At, HandlerSound, SoundWith, Holders, Email, Live
  <2>3. HandlerSound(q)
    BY <2>1, <2>2 DEF HandlerSound, SoundWith, Binding
  <2>4. /\ req' = [req EXCEPT ![r] = q] /\ UNCHANGED <<users, links, born, faulted>>
        /\ \A v \in Users : ~Settles(req[r], v)
    BY <1>1, <1>5 DEF LoginByEmail, At, Settles
  <2> HIDE DEF q
  <2> QED
    BY <2>1, <2>3, <2>4, LocalStep DEF IInv, TypeOK
<1>6. ASSUME LoginByEmail(r) PROVE IInv'
  <2>1. CASE Await(r, "anyByEmail") \/ Finish(r)
    BY <1>3, <1>4, <1>6, <2>1
  <2>2. CASE \E u \in {v \in Holders(Email(r)) : Live(v)} :
               req' = [req EXCEPT ![r].pc = "link", ![r].user = u]
    BY <1>5, <1>6, <2>2 DEF Holders
  <2> QED
    BY <1>6, <2>1, <2>2 DEF LoginByEmail
<1>7. ASSUME LoginAnyByEmail(r) PROVE IInv'
  BY <1>3, <1>4, <1>7 DEF LoginAnyByEmail
<1>8. ASSUME LoginSubject(r) PROVE IInv'
  BY <1>3, <1>8 DEF LoginSubject
<1> QED
  BY <1>2, <1>6, <1>7, <1>8

(***************************************************************************)
(* Ends of a handler without a write: the user, if it was being settled,   *)
(* has met a failing statement.                                            *)
(***************************************************************************)
LEMMA FinishStep ==
  ASSUME IInv, NEW r \in Requests, Finish(r),
         UNCHANGED <<users, links, born>>,
         faulted \subseteq faulted', faulted' \subseteq Users,
         \A u \in Users : Settles(req[r], u) => u \in faulted'
  PROVE  IInv'
<1>1. req' = [req EXCEPT ![r] = Idle]
  BY DEF Finish
<1> QED
  BY <1>1, IdleSound, LocalStep

LEMMA BindLocal ==
  ASSUME IInv, NEW r \in Requests,
         \/ \E u \in Users, g \in Googles : BindStart(r, u, g)
         \/ BindFind(r)
         \/ BindAny(r)
         \/ CutShort(r)
  PROVE  IInv'
<1> USE SocialAssumption
<1>1. /\ req[r] \in Request /\ HandlerSound(req[r]) /\ req \in [Requests -> Request]
      /\ faulted \subseteq Users
  BY DEF IInv, TypeOK, HandlersSound
<1>2. ASSUME NEW u \in Users, NEW g \in Googles, BindStart(r, u, g)
      PROVE  IInv'
  <2> DEFINE q == [Idle EXCEPT !.pc = "bindFind", !.google = g, !.user = u,
                               !.takesEmail = users[u].email = Null]
  <2>1. users[u].st = "live" /\ (users[u].email = Null => born[u] = Null)
    <3>1. users[u].st = "live" /\ Row(u)
      BY <1>2 DEF BindStart, Live, Row
    <3>2. born[u] # Null => users[u].email = EmailOf[born[u]]
      BY <3>1 DEF IInv, BornProven
    <3>3. born[u] # Null => EmailOf[born[u]] \in Addresses
      BY DEF IInv, TypeOK
    <3> QED
      BY <3>1, <3>2, <3>3
  <2>2. q \in Request /\ HandlerSound(q)
    BY <2>1 DEF Idle, Request, HandlerSound, SoundWith, Binding
  <2>3. /\ req' = [req EXCEPT ![r] = q] /\ UNCHANGED <<users, links, born, faulted>>
        /\ \A v \in Users : ~Settles(req[r], v)
    BY <1>2 DEF BindStart, At, Settles
  <2> HIDE DEF q
  <2> QED
    BY <1>1, <2>2, <2>3, LocalStep
<1>3. ASSUME BindFind(r) \/ BindAny(r)
      PROVE  /\ UNCHANGED <<users, links, born, faulted>>
             /\ req[r].pc \in {"bindFind", "bindAny"}
             /\ \A u \in Users : ~Settles(req[r], u)
  BY <1>3 DEF BindFind, BindAny, At, Settles
<1>4. ASSUME BindFind(r) \/ BindAny(r), Finish(r)
      PROVE  IInv'
  BY <1>1, <1>3, <1>4, FinishStep
<1>5. ASSUME BindFind(r) PROVE IInv'
  <2>1. CASE Finish(r)
    BY <1>4, <1>5, <2>1
  <2>2. ASSUME ~req[r].takesEmail, Await(r, "bindLink") PROVE IInv'
    <3> DEFINE q == [req[r] EXCEPT !.pc = "bindLink"]
    <3>1. q \in Request /\ HandlerSound(q) /\ req' = [req EXCEPT ![r] = q]
      BY <1>1, <1>5, <2>2 DEF Request, HandlerSound, SoundWith, BindFind, At, Binding, Await
    <3> HIDE DEF q
    <3> QED
      BY <1>1, <1>3, <1>5, <3>1, LocalStep
  <2>3. ASSUME NEW ours \in BOOLEAN, req[r].takesEmail,
               req' = [req EXCEPT ![r].pc = "bindAny", ![r].ours = ours]
        PROVE  IInv'
    <3> DEFINE q == [req[r] EXCEPT !.pc = "bindAny", !.ours = ours]
    <3>1. q \in Request /\ HandlerSound(q) /\ req' = [req EXCEPT ![r] = q]
      BY <1>1, <1>5, <2>3 DEF Request, HandlerSound, SoundWith, BindFind, At, Binding
    <3> HIDE DEF q
    <3> QED
      BY <1>1, <1>3, <1>5, <3>1, LocalStep
  <2> QED
    BY <1>5, <2>1, <2>2, <2>3 DEF BindFind
<1>6. ASSUME BindAny(r) PROVE IInv'
  <2>1. CASE Finish(r)
    BY <1>4, <1>6, <2>1
  <2>2. ASSUME NEW pc, pc = IF req[r].ours THEN "patch" ELSE "bindLink", Await(r, pc)
        PROVE  IInv'
    <3> DEFINE q == [req[r] EXCEPT !.pc = pc]
    <3>1. q \in Request /\ HandlerSound(q) /\ req' = [req EXCEPT ![r] = q]
      BY <1>1, <1>6, <2>2 DEF Request, HandlerSound, SoundWith, BindAny, At, Binding, Await
    <3> HIDE DEF q
    <3> QED
      BY <1>1, <1>3, <1>6, <3>1, LocalStep
  <2> QED
    BY <1>6, <2>1, <2>2 DEF BindAny
<1>7. ASSUME CutShort(r) PROVE IInv'
  BY <1>1, <1>7, FinishStep DEF CutShort, Settles
<1> QED
  BY <1>2, <1>5, <1>6, <1>7

(***************************************************************************)
(* A bind that gives the address up, on a failing statement or not.        *)
(***************************************************************************)
LEMMA CompensateStep ==
  ASSUME IInv, NEW r \in Requests, req[r].pc \in {"patch", "patched"}, Compensate(r),
         UNCHANGED <<users, links, born>>,
         faulted \subseteq faulted', faulted' \subseteq Users
  PROVE  IInv'
<1>1. req[r] \in Request /\ HandlerSound(req[r]) /\ req \in [Requests -> Request]
  BY DEF IInv, TypeOK, HandlersSound
<1>2. CASE req[r].ours
  BY <1>2, FinishStep DEF Compensate, Settles
<1>3. CASE ~req[r].ours
  <2> DEFINE q == [req[r] EXCEPT !.pc = "unlink"]
  <2>1. q \in Request /\ HandlerSound(q) /\ req' = [req EXCEPT ![r] = q]
    BY <1>1, <1>3 DEF Request, HandlerSound, SoundWith, Binding, Compensate, Await
  <2>2. \A u \in Users : Settles(req[r], u) => Settles(q, u)
    BY <1>1 DEF Settles, Request
  <2> HIDE DEF q
  <2> QED
    BY <2>1, <2>2, LocalStep
<1> QED
  BY <1>2, <1>3

-----------------------------------------------------------------------------
(***************************************************************************)
(* A step that inserts the row of u, or rewrites it: what stays true of    *)
(* the rows, of every handler and of every link.                           *)
(***************************************************************************)
Rewrites(u, row, b) ==
  /\ row \in User /\ b \in Googles \cup {Null}
  /\ users' = [users EXCEPT ![u] = row]
  /\ born' = [born EXCEPT ![u] = b]
  /\ \/ users[u].st = "none" /\ row.st = "live"
     \/ /\ users[u].st \in {"live", "deleted"} /\ row.st \in {"live", "deleted"}
        /\ row.st = "live" => users[u].st = "live"
        /\ users[u].email # Null => row.email # Null
        /\ b \in {born[u], Null}
  /\ row.email # Null => Holders(row.email) \subseteq {u}
  /\ b # Null => row.email = EmailOf[b] /\ row.verified

LEMMA RowsKept ==
  ASSUME IInv, NEW u \in Users, NEW row, NEW b, Rewrites(u, row, b),
         UNCHANGED links
  PROVE  /\ users' \in [Users -> User] /\ born' \in [Users -> Googles \cup {Null}]
         /\ \A v, w \in Users :
              users'[v].st \in {"live", "deleted", "purging"}
              /\ users'[w].st \in {"live", "deleted", "purging"}
              /\ users'[v].email # Null /\ users'[v].email = users'[w].email => v = w
         /\ \A q \in Request : HandlerSound(q) => HandlerSound(q)'
         /\ LinksHeld' /\ BornProven'
         /\ \A v \in Users :
              users[v].st \in {"live", "deleted"}
              /\ users'[v].st = "live" /\ users'[v].email = Null
              => users[v].st = "live" /\ users[v].email = Null
<1> USE SocialAssumption
<1>1. /\ users \in [Users -> User] /\ born \in [Users -> Googles \cup {Null}]
      /\ users' \in [Users -> User] /\ born' \in [Users -> Googles \cup {Null}]
      /\ links \in [Googles -> Users \cup {Null}]
  BY DEF IInv, TypeOK, Rewrites
<1>2. /\ users'[u] = row /\ born'[u] = b
      /\ \A v \in Users : v # u => users'[v] = users[v] /\ born'[v] = born[v]
  BY <1>1 DEF Rewrites
<1>3. \A v, w \in Users :
        users'[v].st \in {"live", "deleted", "purging"}
        /\ users'[w].st \in {"live", "deleted", "purging"}
        /\ users'[v].email # Null /\ users'[v].email = users'[w].email => v = w
  <2> TAKE v, w \in Users
  <2>1. CASE v # u /\ w # u
    BY <1>2, <2>1 DEF IInv, TypeOK, Row
  <2>2. CASE v = u /\ w # u
    BY <1>2, <2>2 DEF Rewrites, Holders, Row
  <2>3. CASE v # u /\ w = u
    BY <1>2, <2>3 DEF Rewrites, Holders, Row
  <2> QED
    BY <2>1, <2>2, <2>3
<1>4. ASSUME NEW q \in Request, HandlerSound(q) PROVE HandlerSound(q)'
  <2>1. CASE q.user = u
    BY <1>2, <1>4, <2>1 DEF HandlerSound, SoundWith, Rewrites
  <2>2. CASE q.user \in Users /\ q.user # u
    BY <1>2, <1>4, <2>2 DEF HandlerSound, SoundWith
  <2>3. CASE q.user = Null
    BY <1>4, <2>3 DEF HandlerSound, SoundWith, Binding
  <2> QED
    BY <2>1, <2>2, <2>3 DEF Request
<1>5. LinksHeld'
  BY <1>1, <1>2 DEF IInv, LinksHeld, Rewrites
<1>6. BornProven'
  <2> SUFFICES ASSUME NEW v \in Users
               PROVE  /\ users'[v].st = "none" => born'[v] = Null
                      /\ users'[v].st \in {"live", "deleted", "purging"} /\ born'[v] # Null
                         => users'[v].email = EmailOf[born'[v]] /\ users'[v].verified
    BY DEF BornProven, Row
  <2>1. CASE v = u
    BY <1>2, <2>1 DEF Rewrites
  <2>2. CASE v # u
    BY <1>2, <2>2 DEF IInv, BornProven, Row
  <2> QED
    BY <2>1, <2>2
<1>7. ASSUME NEW v \in Users, users[v].st \in {"live", "deleted"},
             users'[v].st = "live", users'[v].email = Null
      PROVE  users[v].st = "live" /\ users[v].email = Null
  BY <1>2, <1>7 DEF Rewrites
<1> QED
  BY <1>1, <1>3, <1>4, <1>5, <1>6, <1>7

(***************************************************************************)
(* The same when at most one handler moves on.                             *)
(***************************************************************************)
LEMMA RowStep ==
  ASSUME IInv, NEW u \in Users, NEW row, NEW b, Rewrites(u, row, b),
         UNCHANGED <<links, faulted>>,
         NEW r \in Requests, NEW q \in Request,
         req' = [req EXCEPT ![r] = q], SoundWith(q, users', born'),
         \A v \in Users : Settles(req[r], v) =>
           Settles(q, v) \/ users'[v].email # Null
  PROVE  IInv'
<1>1. /\ users' \in [Users -> User] /\ born' \in [Users -> Googles \cup {Null}]
      /\ \A v, w \in Users :
           users'[v].st \in {"live", "deleted", "purging"}
           /\ users'[w].st \in {"live", "deleted", "purging"}
           /\ users'[v].email # Null /\ users'[v].email = users'[w].email => v = w
      /\ \A p \in Request : HandlerSound(p) => HandlerSound(p)'
      /\ LinksHeld' /\ BornProven'
      /\ \A v \in Users :
           users[v].st \in {"live", "deleted"}
           /\ users'[v].st = "live" /\ users'[v].email = Null
           => users[v].st = "live" /\ users[v].email = Null
  BY RowsKept
<1>2. req \in [Requests -> Request] /\ links \in [Googles -> Users \cup {Null}]
  BY DEF IInv, TypeOK
<1>3. req' \in [Requests -> Request]
  BY <1>2
<1>4. TypeOK'
  BY <1>1, <1>3 DEF IInv, TypeOK, Row
<1>5. ASSUME NEW p \in Requests PROVE HandlerSound(req[p])'
  <2>1. CASE p = r
    BY <1>2, <2>1 DEF HandlerSound, SoundWith
  <2>2. CASE p # r
    <3>1. req'[p] = req[p] /\ req[p] \in Request /\ HandlerSound(req[p])
      BY <1>2, <2>2 DEF IInv, HandlersSound
    <3> QED
      BY <1>1, <3>1 DEF HandlerSound, SoundWith
  <2> QED
    BY <2>1, <2>2
<1>6. HandlersSound'
  BY <1>5 DEF HandlersSound
<1>7. ASSUME NEW g \in Googles, links[g] # Null,
             users'[links[g]].st = "live", users'[links[g]].email = Null
      PROVE  \/ links[g] \in faulted
             \/ \E p \in Requests : Settles(req'[p], links[g])
  <2>1. links[g] \in Users /\ users[links[g]].st \in {"live", "deleted"}
    BY <1>2, <1>7 DEF IInv, LinksHeld
  <2>2. users[links[g]].st = "live" /\ users[links[g]].email = Null
    BY <1>1, <1>7, <2>1
  <2>3. ASSUME NEW p \in Requests, Settles(req[p], links[g])
        PROVE  Settles(req'[p], links[g])
    BY <1>2, <1>7, <2>1, <2>3
  <2> QED
    BY <1>7, <2>2, <2>3 DEF IInv, LinkSettled
<1>8. LinkSettled'
  BY <1>7 DEF LinkSettled, Settles
<1> QED
  BY <1>1, <1>4, <1>6, <1>8 DEF IInv

(***************************************************************************)
(* The requests of the rest of the system move no handler at all.          *)
(***************************************************************************)
LEMMA RowOnlyStep ==
  ASSUME IInv, NEW u \in Users, NEW row, NEW b, Rewrites(u, row, b),
         UNCHANGED <<links, req, faulted>>
  PROVE  IInv'
<1>1. /\ users' \in [Users -> User] /\ born' \in [Users -> Googles \cup {Null}]
      /\ \A v, w \in Users :
           users'[v].st \in {"live", "deleted", "purging"}
           /\ users'[w].st \in {"live", "deleted", "purging"}
           /\ users'[v].email # Null /\ users'[v].email = users'[w].email => v = w
      /\ \A p \in Request : HandlerSound(p) => HandlerSound(p)'
      /\ LinksHeld' /\ BornProven'
      /\ \A v \in Users :
           users[v].st \in {"live", "deleted"}
           /\ users'[v].st = "live" /\ users'[v].email = Null
           => users[v].st = "live" /\ users[v].email = Null
  BY RowsKept
<1>2. req \in [Requests -> Request] /\ links \in [Googles -> Users \cup {Null}]
  BY DEF IInv, TypeOK
<1>3. TypeOK'
  BY <1>1 DEF IInv, TypeOK, Row
<1>4. ASSUME NEW p \in Requests PROVE HandlerSound(req[p])'
  <2>1. req'[p] = req[p] /\ req[p] \in Request /\ HandlerSound(req[p])
    BY <1>2 DEF IInv, HandlersSound
  <2> QED
    BY <1>1, <2>1 DEF HandlerSound, SoundWith
<1>5. HandlersSound'
  BY <1>4 DEF HandlersSound
<1>6. ASSUME NEW g \in Googles, links[g] # Null,
             users'[links[g]].st = "live", users'[links[g]].email = Null
      PROVE  \/ links[g] \in faulted
             \/ \E p \in Requests : Settles(req[p], links[g])
  <2>1. links[g] \in Users /\ users[links[g]].st \in {"live", "deleted"}
    BY <1>2, <1>6 DEF IInv, LinksHeld
  <2>2. users[links[g]].st = "live" /\ users[links[g]].email = Null
    BY <1>1, <1>6, <2>1
  <2> QED
    BY <1>6, <2>2 DEF IInv, LinkSettled
<1>7. LinkSettled'
  BY <1>6 DEF LinkSettled, Settles
<1> QED
  BY <1>1, <1>3, <1>5, <1>7 DEF IInv

LEMMA OthersStep ==
  ASSUME IInv, NEW u \in Users,
         \/ CreateGuest(u) \/ ResetPassword(u) \/ VerifyEmail(u) \/ SoftDelete(u)
         \/ \E a \in Addresses :
              Register(u, a) \/ \E proven \in BOOLEAN : ChangeAddress(u, a, proven)
  PROVE  IInv'
<1> USE SocialAssumption
<1>1. /\ users \in [Users -> User] /\ users[u] \in User
      /\ born \in [Users -> Googles \cup {Null}] /\ born[u] \in Googles \cup {Null}
      /\ (users[u].st = "none" => born[u] = Null)
      /\ (Row(u) /\ born[u] # Null
           => users[u].email = EmailOf[born[u]] /\ users[u].verified)
      /\ (Row(u) /\ users[u].email # Null => Holders(users[u].email) \subseteq {u})
  BY DEF IInv, TypeOK, BornProven, Holders, Row
<1>2. born = [born EXCEPT ![u] = born[u]]
  BY <1>1
<1>3. ASSUME CreateGuest(u) PROVE IInv'
  <2> DEFINE row == [st |-> "live", email |-> Null, verified |-> FALSE, password |-> TRUE]
  <2>1. Rewrites(u, row, Null)
    BY <1>1, <1>2, <1>3 DEF CreateGuest, Insert, Rewrites, User
  <2> QED
    BY <1>3, <2>1, RowOnlyStep DEF CreateGuest, Insert
<1>4. ASSUME NEW a \in Addresses, Register(u, a) PROVE IInv'
  <2> DEFINE row == [st |-> "live", email |-> a, verified |-> FALSE, password |-> TRUE]
  <2>1. Rewrites(u, row, Null)
    BY <1>1, <1>2, <1>4 DEF Register, Insert, Rewrites, User
  <2> QED
    BY <1>4, <2>1, RowOnlyStep DEF Register, Insert
<1>5. ASSUME ResetPassword(u) PROVE IInv'
  <2> DEFINE row == [users[u] EXCEPT !.verified = TRUE, !.password = TRUE]
  <2>1. /\ row \in User /\ row.st = users[u].st /\ row.email = users[u].email
        /\ row.verified /\ users' = [users EXCEPT ![u] = row]
    BY <1>1, <1>5 DEF ResetPassword, User
  <2>2. users[u].st = "live" /\ Row(u)
    BY <1>5 DEF ResetPassword, Live, Row
  <2> HIDE DEF row
  <2>3. Rewrites(u, row, born[u])
    BY <1>1, <1>2, <1>5, <2>1, <2>2 DEF Rewrites, ResetPassword
  <2> QED
    BY <1>5, <2>3, RowOnlyStep DEF ResetPassword
<1>6. ASSUME SoftDelete(u) PROVE IInv'
  <2> DEFINE row == [users[u] EXCEPT !.st = "deleted"]
  <2>1. /\ row \in User /\ row.st = "deleted" /\ row.email = users[u].email
        /\ row.verified = users[u].verified /\ users' = [users EXCEPT ![u] = row]
    BY <1>1, <1>6 DEF SoftDelete, User
  <2>2. users[u].st = "live" /\ Row(u)
    BY <1>6 DEF SoftDelete, Live, Row
  <2> HIDE DEF row
  <2>3. Rewrites(u, row, born[u])
    BY <1>1, <1>2, <1>6, <2>1, <2>2 DEF Rewrites, SoftDelete
  <2> QED
    BY <1>6, <2>3, RowOnlyStep DEF SoftDelete
<1>7. ASSUME NEW a \in Addresses, NEW proven \in BOOLEAN,
             ChangeAddress(u, a, proven)
      PROVE  IInv'
  <2> DEFINE row == [users[u] EXCEPT !.email = a, !.verified = proven]
  <2>1. /\ row \in User /\ row.st = users[u].st /\ row.email = a
        /\ users' = [users EXCEPT ![u] = row]
    BY <1>1, <1>7 DEF ChangeAddress, User
  <2>2. users[u].st = "live" /\ Holders(a) = {}
    BY <1>7 DEF ChangeAddress, Live
  <2> HIDE DEF row
  <2>3. Rewrites(u, row, Null)
    BY <1>1, <1>7, <2>1, <2>2 DEF Rewrites, ChangeAddress
  <2> QED
    BY <1>7, <2>3, RowOnlyStep DEF ChangeAddress
<1>8. ASSUME VerifyEmail(u) PROVE IInv'
  <2> DEFINE row == [users[u] EXCEPT !.verified = TRUE]
  <2>1. /\ row \in User /\ row.st = users[u].st /\ row.email = users[u].email
        /\ row.verified /\ users' = [users EXCEPT ![u] = row]
    BY <1>1, <1>8 DEF VerifyEmail, User
  <2>2. users[u].st = "live" /\ Row(u)
    BY <1>8 DEF VerifyEmail, Live, Row
  <2> HIDE DEF row
  <2>3. Rewrites(u, row, born[u])
    BY <1>1, <1>2, <1>8, <2>1, <2>2 DEF Rewrites, VerifyEmail
  <2> QED
    BY <1>8, <2>3, RowOnlyStep DEF VerifyEmail
<1> QED
  BY <1>3, <1>4, <1>5, <1>6, <1>7, <1>8

(***************************************************************************)
(* The sign-in's insert of a user, and the bind's UPDATE of one.           *)
(***************************************************************************)
LEMMA CreateStep ==
  ASSUME IInv, NEW r \in Requests, LoginCreate(r)
  PROVE  IInv'
<1> USE SocialAssumption
<1>1. /\ req[r] \in Request /\ HandlerSound(req[r])
      /\ req[r].pc = "create" /\ req[r].google \in Googles
      /\ Email(r) \in Addresses /\ EmailOf[req[r].google] = Email(r)
      /\ faulted \subseteq Users /\ users \in [Users -> User]
      /\ \A v : ~Settles(req[r], v)
  BY DEF IInv, TypeOK, HandlersSound, HandlerSound, SoundWith, LoginCreate, At, Email, Settles
<1>2. ASSUME Finish(r), UNCHANGED <<users, born>> PROVE IInv'
  BY <1>1, <1>2, FinishStep DEF LoginCreate
<1>3. ASSUME NEW u \in Users, Holders(Email(r)) = {}, users[u].st = "none",
             users' = [users EXCEPT ![u] = Created(Email(r))],
             born' = [born EXCEPT ![u] = req[r].google],
             req' = [req EXCEPT ![r].pc = "link", ![r].user = u]
      PROVE  IInv'
  <2> DEFINE row == Created(Email(r))
             q == [req[r] EXCEPT !.pc = "link", !.user = u]
  <2>1. row \in User /\ row.st = "live" /\ row.email = Email(r) /\ row.verified
    BY <1>1 DEF Created, User
  <2>2. q \in Request /\ q.pc = "link" /\ q.user = u /\ q.google \in Googles
    BY <1>1 DEF Request
  <2>3. users' = [users EXCEPT ![u] = row] /\ users'[u] = row
    BY <1>1, <1>3
  <2>4. Rewrites(u, row, req[r].google)
    <3> HIDE DEF row
    <3> QED
      BY <1>1, <1>3, <2>1, <2>3 DEF Rewrites
  <2>5. SoundWith(q, users', born')
    <3> HIDE DEF row, q
    <3> QED
      BY <1>1, <2>1, <2>2, <2>3 DEF HandlerSound, SoundWith, Binding
  <2>6. req' = [req EXCEPT ![r] = q] /\ UNCHANGED <<links, faulted>>
    BY <1>3 DEF LoginCreate
  <2> HIDE DEF row, q
  <2> QED
    BY <1>1, <2>2, <2>4, <2>5, <2>6, RowStep
<1> QED
  BY <1>2, <1>3 DEF LoginCreate

LEMMA PatchStep ==
  ASSUME IInv, NEW r \in Requests, BindPatch(r)
  PROVE  IInv'
<1> USE SocialAssumption
<1> DEFINE u == req[r].user
<1>1. /\ req[r] \in Request /\ HandlerSound(req[r])
      /\ req[r].pc = "patch" /\ req[r].google \in Googles /\ Email(r) \in Addresses
      /\ u \in Users /\ users[u] \in User /\ users[u].st \in {"live", "deleted"}
      /\ req[r].takesEmail /\ born[u] = Null
      /\ faulted \subseteq Users
      /\ users \in [Users -> User] /\ born \in [Users -> Googles \cup {Null}]
  BY DEF IInv, TypeOK, HandlersSound, HandlerSound, SoundWith, BindPatch, At, Email, Binding
<1>2. CASE ~(Holders(Email(r)) \subseteq {u})
  BY <1>1, <1>2, CompensateStep DEF BindPatch
<1>3. CASE Holders(Email(r)) \subseteq {u}
  <2> DEFINE row == [users[u] EXCEPT !.email = Email(r), !.verified = TRUE]
             q == [req[r] EXCEPT !.pc = "patched"]
  <2>1. /\ row \in User /\ row.st = users[u].st /\ row.email = Email(r)
        /\ users' = [users EXCEPT ![u] = row]
    BY <1>1, <1>3 DEF BindPatch, User
  <2>2. q \in Request /\ q.pc = "patched" /\ q.user = u /\ q.google \in Googles
        /\ q.takesEmail
    BY <1>1 DEF Request
  <2>3. users'[u] = row /\ born' = [born EXCEPT ![u] = Null] /\ born'[u] = Null
    BY <1>1, <2>1 DEF BindPatch
  <2> HIDE DEF row, q
  <2>4. Rewrites(u, row, Null)
    BY <1>1, <1>3, <2>1, <2>3 DEF Rewrites
  <2>5. SoundWith(q, users', born')
    BY <1>1, <2>1, <2>2, <2>3 DEF HandlerSound, SoundWith, Binding
  <2>6. req' = [req EXCEPT ![r] = q] /\ UNCHANGED <<links, faulted>>
    BY <1>3 DEF BindPatch, Await, q
  <2>7. \A v \in Users : Settles(req[r], v) => users'[v].email # Null
    BY <1>1, <2>1, <2>3 DEF Settles
  <2> HIDE DEF u
  <2> QED
    BY <1>1, <2>2, <2>4, <2>5, <2>6, <2>7, RowStep
<1> QED
  BY <1>2, <1>3

-----------------------------------------------------------------------------
(***************************************************************************)
(* A handler links a Google account that nobody holds, to a user who has   *)
(* an address or is about to be given one by the same handler.             *)
(***************************************************************************)
LEMMA ClaimStep ==
  ASSUME IInv, NEW r \in Requests, NEW g \in Googles, NEW u \in Users,
         NEW q \in Request,
         links[g] = Null, links' = [links EXCEPT ![g] = u],
         users[u].st \in {"live", "deleted"},
         users[u].email # Null \/ Settles(q, u),
         req' = [req EXCEPT ![r] = q], HandlerSound(q),
         UNCHANGED <<users, born, faulted>>,
         \A v \in Users : ~Settles(req[r], v)
  PROVE  IInv'
<1>1. /\ req \in [Requests -> Request]
      /\ links \in [Googles -> Users \cup {Null}]
  BY DEF IInv, TypeOK
<1>2. TypeOK'
  BY <1>1 DEF IInv, TypeOK, Row
<1>3. HandlersSound'
  BY <1>1 DEF IInv, HandlersSound, HandlerSound, SoundWith
<1>4. LinksHeld' /\ BornProven'
  BY <1>1 DEF IInv, LinksHeld, BornProven, Row
<1>5. ASSUME NEW h \in Googles, links'[h] # Null,
             users[links'[h]].st = "live", users[links'[h]].email = Null
      PROVE  \/ links'[h] \in faulted
             \/ \E p \in Requests : Settles(req'[p], links'[h])
  <2>1. CASE h = g
    <3>1. links'[h] = u /\ req'[r] = q
      BY <1>1, <2>1
    <3> QED
      BY <1>5, <3>1
  <2>2. CASE h # g
    <3>1. links'[h] = links[h] /\ links[h] \in Users
      BY <1>1, <1>5, <2>2
    <3>2. \A p \in Requests : Settles(req[p], links[h]) => Settles(req'[p], links[h])
      BY <1>1, <3>1
    <3> QED
      BY <1>5, <3>1, <3>2 DEF IInv, LinkSettled
  <2> QED
    BY <2>1, <2>2
<1>6. LinkSettled'
  BY <1>5 DEF LinkSettled, Settles
<1> QED
  BY <1>2, <1>3, <1>4, <1>6 DEF IInv

LEMMA LinkSteps ==
  ASSUME IInv, NEW r \in Requests, LoginLink(r) \/ BindLink(r)
  PROVE  IInv'
<1> USE SocialAssumption
<1>1. /\ req[r] \in Request /\ HandlerSound(req[r])
      /\ req[r].google \in Googles /\ req[r].user \in Users
      /\ users[req[r].user].st \in {"live", "deleted"}
      /\ faulted \subseteq Users
      /\ \A v : ~Settles(req[r], v)
      /\ UNCHANGED <<users, born, faulted>>
  BY DEF IInv, TypeOK, HandlersSound, HandlerSound, SoundWith, LoginLink, BindLink,
         At, Settles, Binding
<1>2. ASSUME Finish(r), UNCHANGED links PROVE IInv'
  BY <1>1, <1>2, FinishStep
<1>3. ASSUME Finish(r), Claims(req[r].google),
             links' = [links EXCEPT ![req[r].google] = req[r].user],
             users[req[r].user].email # Null
      PROVE  IInv'
  BY <1>1, <1>3, IdleSound, ClaimStep DEF Finish, Claims
<1>4. CASE LoginLink(r)
  <2>1. users[req[r].user].email # Null /\ Finish(r)
    BY <1>1, <1>4 DEF LoginLink, At, HandlerSound, SoundWith
  <2> QED
    BY <1>2, <1>3, <1>4, <2>1 DEF LoginLink
<1>5. CASE BindLink(r)
  <2>1. CASE ~Claims(req[r].google)
    BY <1>2, <1>5, <2>1 DEF BindLink
  <2>2. CASE Claims(req[r].google) /\ ~req[r].takesEmail
    <3>1. users[req[r].user].email # Null
      BY <1>1, <1>5, <2>2 DEF BindLink, At, HandlerSound, SoundWith, Binding
    <3> QED
      BY <1>3, <1>5, <2>2, <3>1 DEF BindLink
  <2>3. CASE Claims(req[r].google) /\ req[r].takesEmail
    <3> DEFINE q == [req[r] EXCEPT !.pc = "patch"]
    <3>1. /\ q \in Request /\ HandlerSound(q) /\ Settles(q, req[r].user)
          /\ req' = [req EXCEPT ![r] = q]
      BY <1>1, <1>5, <2>3
         DEF Request, HandlerSound, SoundWith, Settles, BindLink, At, Await, Binding
    <3>2. /\ links[req[r].google] = Null
          /\ links' = [links EXCEPT ![req[r].google] = req[r].user]
      BY <1>5, <2>3 DEF BindLink, Claims
    <3> HIDE DEF q
    <3> QED
      BY <1>1, <3>1, <3>2, ClaimStep
  <2> QED
    BY <2>1, <2>2, <2>3
<1> QED
  BY <1>4, <1>5

(***************************************************************************)
(* The compensation lets go of every link of its user.                     *)
(***************************************************************************)
LEMMA UnlinkStep ==
  ASSUME IInv, NEW r \in Requests, BindUnlink(r)
  PROVE  IInv'
<1> DEFINE u == req[r].user
<1>1. /\ req \in [Requests -> Request] /\ req[r].pc = "unlink"
      /\ links \in [Googles -> Users \cup {Null}]
      /\ u \in Users
      /\ req' = [req EXCEPT ![r] = Idle] /\ UNCHANGED <<users, born, faulted>>
      /\ links' = [g \in Googles |-> IF links[g] = u THEN Null ELSE links[g]]
  BY DEF IInv, TypeOK, HandlersSound, HandlerSound, SoundWith, BindUnlink, At, Finish,
         DeleteLinks, Binding
<1> HIDE DEF u
<1>2. links' \in [Googles -> Users \cup {Null}]
  BY <1>1
<1>3. TypeOK'
  BY <1>1, <1>2, IdleSound DEF IInv, TypeOK, Row
<1>4. HandlersSound'
  BY <1>1, IdleSound DEF IInv, HandlersSound, HandlerSound, SoundWith
<1>5. LinksHeld' /\ BornProven'
  BY <1>1 DEF IInv, LinksHeld, BornProven, Row
<1>6. ASSUME NEW g \in Googles, links'[g] # Null,
             users[links'[g]].st = "live", users[links'[g]].email = Null
      PROVE  \/ links'[g] \in faulted
             \/ \E p \in Requests : Settles(req'[p], links'[g])
  <2>1. links'[g] = links[g] /\ links[g] # u
    BY <1>1, <1>6
  <2>2. \A p \in Requests : Settles(req[p], links[g]) => Settles(req'[p], links[g])
    BY <1>1, <2>1 DEF Settles, u
  <2> QED
    BY <1>6, <2>1, <2>2 DEF IInv, LinkSettled
<1>7. LinkSettled'
  BY <1>1, <1>6 DEF LinkSettled, Settles
<1> QED
  BY <1>3, <1>4, <1>5, <1>7 DEF IInv

(***************************************************************************)
(* Whichever statement of the purge runs, nothing is linked to u after it. *)
(***************************************************************************)
LEMMA PurgeStep ==
  ASSUME IInv, NEW u \in Users, Purge(u)
  PROVE  IInv'
<1> USE SocialAssumption
<1>1. /\ users \in [Users -> User] /\ req \in [Requests -> Request]
      /\ links \in [Googles -> Users \cup {Null}]
      /\ \A r \in Requests : req[r].user # u
      /\ users[u].st \in {"deleted", "purging"}
      /\ UNCHANGED <<req, born, faulted>>
  BY DEF IInv, TypeOK, Purge
<1>2. PICK row \in User :
        /\ users' = [users EXCEPT ![u] = row]
        /\ row.st \in {"purging", "purged"}
        /\ row.st = "purging" => row.email = users[u].email /\ row.verified = users[u].verified
  <2>1. CASE users[u].st = "deleted"
    <3> DEFINE row == [users[u] EXCEPT !.st = "purging"]
    <3>1. row \in User /\ row.st = "purging" /\ row.email = users[u].email
          /\ row.verified = users[u].verified
      BY <1>1 DEF User
    <3>2. users' = [users EXCEPT ![u] = row]
      BY <1>1, <2>1 DEF Purge, PurgeFrom
    <3> HIDE DEF row
    <3> QED
      BY <3>1, <3>2
  <2>2. CASE users[u].st = "purging"
    <3> DEFINE row == [NoUser EXCEPT !.st = "purged"]
    <3>1. row \in User /\ row.st = "purged"
      BY DEF User, NoUser
    <3>2. users' = [users EXCEPT ![u] = row]
      BY <1>1, <2>2 DEF Purge, PurgeFrom
    <3> HIDE DEF row
    <3> QED
      BY <3>1, <3>2
  <2> QED
    BY <1>1, <2>1, <2>2
<1>3. /\ links' \in [Googles -> Users \cup {Null}]
      /\ \A g \in Googles : links'[g] # u /\ links'[g] \in {links[g], Null}
  <2>1. CASE users[u].st = "deleted"
    BY <1>1, <2>1 DEF Purge, PurgeFrom, DeleteLinks
  <2>2. CASE users[u].st = "purging"
    <3>1. UNCHANGED links
      BY <2>2 DEF Purge, PurgeFrom
    <3> QED
      BY <1>1, <2>2, <3>1 DEF IInv, LinksHeld
  <2> QED
    BY <1>1, <2>1, <2>2
<1>4. /\ users' \in [Users -> User] /\ users'[u] = row
      /\ \A v \in Users : v # u => users'[v] = users[v]
  BY <1>1, <1>2
<1>5. TypeOK'
  <2>1. ASSUME NEW v \in Users, NEW w \in Users, Row(v)', Row(w)',
               users'[v].email # Null, users'[v].email = users'[w].email
        PROVE  Row(v) /\ Row(w) /\ users[v].email # Null /\ users[v].email = users[w].email
    BY <1>1, <1>2, <1>4, <2>1 DEF Row
  <2> QED
    BY <1>1, <1>3, <1>4, <2>1 DEF IInv, TypeOK
<1>6. HandlersSound'
  <2> SUFFICES ASSUME NEW r \in Requests PROVE SoundWith(req[r], users', born')
    BY <1>1 DEF HandlersSound, HandlerSound, SoundWith
  <2>1. HandlerSound(req[r]) /\ req[r] \in Request /\ req[r].user # u
    BY <1>1 DEF IInv, HandlersSound
  <2>2. CASE req[r].user \in Users
    BY <1>1, <1>4, <2>1, <2>2 DEF HandlerSound, SoundWith
  <2>3. CASE req[r].user = Null
    BY <2>1, <2>3 DEF HandlerSound, SoundWith, Binding
  <2> QED
    BY <2>1, <2>2, <2>3 DEF Request
<1>7. LinksHeld'
  BY <1>1, <1>3, <1>4 DEF IInv, LinksHeld
<1>8. BornProven'
  <2> SUFFICES ASSUME NEW v \in Users
               PROVE  /\ users'[v].st = "none" => born[v] = Null
                      /\ users'[v].st \in {"live", "deleted", "purging"} /\ born[v] # Null
                         => users'[v].email = EmailOf[born[v]] /\ users'[v].verified
    BY <1>1 DEF BornProven, Row
  <2>1. CASE v = u
    BY <1>1, <1>2, <1>4, <2>1 DEF IInv, BornProven, Row
  <2>2. CASE v # u
    BY <1>4, <2>2 DEF IInv, BornProven, Row
  <2> QED
    BY <2>1, <2>2
<1>9. ASSUME NEW g \in Googles, links'[g] # Null,
             users'[links'[g]].st = "live", users'[links'[g]].email = Null
      PROVE  \/ links'[g] \in faulted
             \/ \E p \in Requests : Settles(req[p], links'[g])
  <2>1. links'[g] = links[g] /\ links[g] \in Users /\ links[g] # u
    BY <1>1, <1>3, <1>9
  <2>2. users'[links[g]] = users[links[g]]
    BY <1>4, <2>1
  <2> QED
    BY <1>9, <2>1, <2>2 DEF IInv, LinkSettled
<1>10. LinkSettled'
  BY <1>1, <1>9 DEF LinkSettled, Settles
<1> QED
  BY <1>5, <1>6, <1>7, <1>8, <1>10 DEF IInv

-----------------------------------------------------------------------------
LEMMA HandlerStep ==
  ASSUME IInv, NEW r \in Requests, Handler(r)
  PROVE  IInv'
<1>1. faulted \subseteq Users /\ HandlerSound(req[r])
  BY DEF IInv, TypeOK, HandlersSound
<1>2. ASSUME BindPatched(r) PROVE IInv'
  <2>1. CASE Finish(r)
    BY <1>1, <1>2, <2>1, FinishStep DEF BindPatched, At, Settles
  <2>2. CASE Compensate(r)
    BY <1>1, <1>2, <2>2, CompensateStep DEF BindPatched, At
  <2> QED
    BY <1>2, <2>1, <2>2 DEF BindPatched
<1>3. ASSUME BindPatchFails(r) PROVE IInv'
  <2>1. req[r].user \in Users
    BY <1>1, <1>3 DEF BindPatchFails, HandlerSound, SoundWith, Binding
  <2> QED
    BY <1>1, <1>3, <2>1, CompensateStep DEF BindPatchFails
<1> QED
  BY <1>2, <1>3, LoginLocal, BindLocal, CreateStep, PatchStep, LinkSteps, UnlinkStep
     DEF Handler

LEMMA Stutter == IInv /\ UNCHANGED vars => IInv'
<1> SUFFICES ASSUME IInv, UNCHANGED vars PROVE IInv'
  OBVIOUS
<1>1. TypeOK' /\ HandlersSound'
  BY DEF IInv, vars, TypeOK, Row, HandlersSound, HandlerSound, SoundWith
<1>2. LinksHeld' /\ BornProven' /\ LinkSettled'
  BY DEF IInv, vars, LinksHeld, BornProven, Row, LinkSettled, Settles
<1> QED
  BY <1>1, <1>2 DEF IInv

LEMMA NextIInv == IInv /\ [Next]_vars => IInv'
  BY HandlerStep, OthersStep, PurgeStep, Stutter DEF Next

LEMMA Invariance == Spec => []IInv
  BY InitIInv, NextIInv, PTL DEF Spec

(***************************************************************************)
(* The state is well typed, and an address is one row's at most, deleted   *)
(* rows included (findAnyByEmail before every insert, UNIQUE under it).    *)
(***************************************************************************)
THEOREM SocialTyped == Spec => []TypeOK
<1>1. IInv => TypeOK
  BY DEF IInv
<1> QED
  BY <1>1, Invariance, PTL

(***************************************************************************)
(* An account that a Google sign-in created can be signed in to again.     *)
(***************************************************************************)
THEOREM NobodyStranded == Spec => []NoStrandedAccount
<1>1. IInv => NoStrandedAccount
  BY DEF IInv, BornProven, NoStrandedAccount, Live, Row
<1> QED
  BY <1>1, Invariance, PTL

(***************************************************************************)
(* A bind that does not get the address does not keep the link.            *)
(***************************************************************************)
THEOREM LinkFollowsAddress == Spec => []LinkedUserHasAddress
<1>1. IInv => LinkedUserHasAddress
  BY DEF IInv, LinkSettled, Settles, LinkedUserHasAddress
<1> QED
  BY <1>1, Invariance, PTL

(***************************************************************************)
(* No link names a row that is gone.                                       *)
(***************************************************************************)
THEOREM LinksNameRows == Spec => []NoOrphanLinks
<1>1. IInv => NoOrphanLinks
  BY DEF IInv, LinksHeld, NoOrphanLinks, Row
<1> QED
  BY <1>1, Invariance, PTL

(***************************************************************************)
(* A Google account is let go of before somebody else can have it.         *)
(***************************************************************************)
THEOREM OwnerKept == Spec => GoogleStaysWithOwner
<1> DEFINE Kept == \A g \in Googles : links[g] # Null => links'[g] \in {links[g], Null}
<1>1. IInv /\ [Next]_vars => [Kept]_vars
  <2> SUFFICES ASSUME IInv, Next PROVE Kept
    OBVIOUS
  <2>1. links \in [Googles -> Users \cup {Null}]
    BY DEF IInv, TypeOK
  <2>2. CASE UNCHANGED links
    BY <2>2
  <2>3. ASSUME NEW u, DeleteLinks(u) PROVE Kept
    BY <2>3 DEF DeleteLinks
  <2>4. ASSUME NEW r \in Requests, LoginLink(r) \/ BindLink(r) PROVE Kept
    BY <2>1, <2>4 DEF LoginLink, BindLink, Claims
  <2>5. ASSUME NEW r \in Requests, Handler(r) PROVE Kept
    <3>1. UNCHANGED links \/ LoginLink(r) \/ BindLink(r) \/ BindUnlink(r)
      BY <2>5 DEF Handler, LoginStart, LoginSubject, LoginByEmail, LoginAnyByEmail,
           LoginCreate, BindStart, BindFind, BindAny, BindPatch, BindPatched,
           BindPatchFails, CutShort
    <3> QED
      BY <2>2, <2>3, <2>4, <3>1 DEF BindUnlink
  <2>6. ASSUME NEW u \in Users,
               \/ CreateGuest(u) \/ ResetPassword(u) \/ VerifyEmail(u) \/ SoftDelete(u)
               \/ \E a \in Addresses :
                    Register(u, a) \/ \E proven \in BOOLEAN : ChangeAddress(u, a, proven)
        PROVE  Kept
    BY <2>2, <2>6 DEF CreateGuest, ResetPassword, VerifyEmail, SoftDelete, Register,
         ChangeAddress, Insert
  <2>7. ASSUME NEW u \in Users, Purge(u) PROVE Kept
    BY <2>2, <2>3, <2>7 DEF Purge
  <2> QED
    BY <2>5, <2>6, <2>7 DEF Next
<1> QED
  BY <1>1, Invariance, PTL DEF Spec, GoogleStaysWithOwner
=============================================================================
