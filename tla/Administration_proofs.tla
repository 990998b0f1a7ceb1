------------------------ MODULE Administration_proofs ------------------------
(***************************************************************************)
(* Theorems about Administration, for every value of its constants.        *)
(***************************************************************************)
EXTENDS Administration, TLAPS

(***************************************************************************)
(* What a handler remembers: a grant its subject and service, a request    *)
(* the token it presented, the permission it passed and the row it made, a *)
(* guest the organisation it joins.                                        *)
(***************************************************************************)
GrantOK(q) ==
  q.pc \in GrantPcs => /\ q.sub \in Subjects /\ q.aud \in Audiences
                       /\ (q.pc = "member" => IsUser(q.sub))
                       /\ q.held \subseteq {role \in Roles : role[1] = q.aud}

GuestOK(q) ==
  /\ q.pc \in {"guestUser", "guestMember"} => q.row \in Slugs
  /\ q.pc = "guestMember" => q.sub \in {"user"} \X Guests

RowOK(q) ==
  /\ (q.pc = "name" /\ q.op # "createOrg") => q.row \in Parents(q.op)
  /\ (q.pc = "name" /\ q.op \notin Creates) => FALSE
  /\ (q.pc = "write" /\ q.op = "addMember") => q.row \in Slugs
  /\ (q.pc = "write" /\ q.op \in Creates) => Name(q.op, q.row) \in Names
  /\ (q.pc = "write" /\ q.op = "registerService") => q.row \in Service

ManageOK(q) ==
  /\ q.pc \in ManagePcs => q.tok \in tokens /\ q.sub = q.tok.sub
  /\ q.pc \in ManagePcs \ {"subject"} =>
       q.op \in Routes /\ HasPermission(q.tok, Needs[q.op])
  /\ q.pc = "parent" => FirstAwait(q.op) = "parent"

Shape(q) == q = [pc |-> q.pc, sub |-> q.sub, aud |-> q.aud, held |-> q.held,
                 tok |-> q.tok, op |-> q.op, row |-> q.row]

HandlersOK ==
  /\ req = [r \in Requests |-> req[r]]
  /\ \A r \in Requests : /\ Shape(req[r]) /\ req[r].pc \in Pcs
                         /\ GrantOK(req[r]) /\ GuestOK(req[r])
                         /\ RowOK(req[r]) /\ ManageOK(req[r])

EverOK == assigned \subseteq ever.assigned /\ granted \subseteq ever.granted

(***************************************************************************)
(* A platform token's scope was given to its subject.                      *)
(***************************************************************************)
TokensGiven ==
  \A t \in tokens : t.aud = Platform => \A key \in t.scope : Given(t.sub, key)

(***************************************************************************)
(* The history of a grant: all of it held once, what holds is in it, and   *)
(* so are the roles that were read.                                        *)
(***************************************************************************)
SinceOf(q, s) ==
  /\ q.pc \in GrantPcs =>
       /\ s.roles \subseteq {role \in Roles : role[1] = q.aud
                                             /\ <<q.sub, role>> \in ever.assigned}
       /\ s.granted \subseteq ever.granted
       /\ {role \in roles : role[1] = q.aud /\ <<q.sub, role>> \in assigned}
            \subseteq s.roles
       /\ {g \in granted : g[1][1] = q.aud} \subseteq s.granted
       /\ q.held \subseteq s.roles
  /\ q.pc \in ManagePcs \ {"subject"} => s.admitted
  /\ q.pc \in GuestPcs => s.admitted

SinceOK == \A r \in Requests : SinceOf(req[r], since[r])

(***************************************************************************)
(* Tokens of previous keys expire TTL after the last rotation, and those   *)
(* of keys that were dropped have expired.                                 *)
(***************************************************************************)
RingOK ==
  \A t \in tokens :
    /\ t.exp <= now + TTL
    /\ t.kid # ring.active => t.exp <= ring.setAt + TTL
    /\ t.kid \notin {ring.active} \cup ring.previous => t.exp <= now

Exists(n) ==
  \/ n[1] = "createOrg"        /\ n[2] \in orgs
  \/ n[1] = "registerService"  /\ n[2] \in Registered
  \/ n[1] = "createRole"       /\ n[2] \in roles
  \/ n[1] = "createPermission" /\ n[2] \in perms

AnsweredOK ==
  \A n \in Names : answered[n] <= 1 /\ (answered[n] = 1 => Exists(n))

IInv == /\ TypeOK /\ HandlersOK /\ EverOK /\ TokensGiven /\ SinceOK /\ RingOK
        /\ AnsweredOK

-----------------------------------------------------------------------------
(***************************************************************************)
(* What the steps have in common.                                          *)
(***************************************************************************)
LEMMA InitIInv == Init => IInv
<1> SUFFICES ASSUME Init PROVE IInv
  OBVIOUS
<1> USE AccessAssumption, AdministrationAssumption DEF Init
<1>1. TypeOK
  <2>1. orgs \subseteq Slugs /\ members \subseteq Users \X Slugs
    OBVIOUS
  <2>6. services \subseteq Service
    <3>1. [aud |-> Platform, org |-> Platform, secret |-> FALSE,
          guests |-> FALSE] \in Service
      BY DEF Service
    <3>2. Tenants.services \subseteq Service
      BY DEF Service
    <3> QED
      BY <3>1, <3>2
  <2>7. roles \subseteq Roles
    BY DEF Roles, Admin
  <2>8. perms \subseteq Perms
    BY DEF Perms
  <2>2. assigned \subseteq Subjects \X Roles
    BY DEF Roles, Subjects, BootstrapUser, Admin, Platform
  <2>3. granted \subseteq Roles \X Perms
    BY DEF Roles, Perms, PlatformGrants, Admin, Platform, PlatformKeys
  <2>4. /\ live \subseteq Users /\ tokens \subseteq Token
        /\ begun \in Nat /\ events \in Nat /\ now \in Nat
        /\ answered \in [Names -> Nat]
    OBVIOUS
  <2>5. /\ ring.active \in SigningKeys /\ ring.previous \subseteq SigningKeys
        /\ ring.setAt \in Nat
    OBVIOUS
  <2> QED
    BY <2>1, <2>2, <2>3, <2>4, <2>5, <2>6, <2>7, <2>8 DEF TypeOK
<1>2. HandlersOK
  BY DEF HandlersOK, Shape, Idle, GrantOK, GuestOK, RowOK, ManageOK, Pcs, GrantPcs,
         ManagePcs
<1>3. EverOK /\ TokensGiven /\ RingOK
  BY DEF EverOK, TokensGiven, RingOK
<1>4. SinceOK
  BY DEF SinceOK, SinceOf, Idle, GrantPcs, ManagePcs, GuestPcs
<1>5. AnsweredOK
  BY DEF AnsweredOK
<1> QED
  BY <1>1, <1>2, <1>3, <1>4, <1>5 DEF IInv

LEMMA EverGrows ==
  ASSUME Observe
  PROVE  /\ EverOK'
         /\ ever.assigned \subseteq ever'.assigned
         /\ ever.granted \subseteq ever'.granted
BY DEF Observe, EverOK

(***************************************************************************)
(* Tokens that were there keep their invariant whatever the tables do.     *)
(***************************************************************************)
LEMMA GivenGrows ==
  ASSUME Observe, NEW sub, NEW key, Given(sub, key)
  PROVE  Given(sub, key)'
BY EverGrows DEF Given

LEMMA TokensKept ==
  ASSUME Observe, TokensGiven, tokens' = tokens
  PROVE  TokensGiven'
BY GivenGrows DEF TokensGiven

(***************************************************************************)
(* A step of one handler, or of none.                                      *)
(***************************************************************************)
TablesGrow == /\ tokens \subseteq tokens' /\ orgs \subseteq orgs'
              /\ Registered \subseteq Registered'

LEMMA OtherHandlers ==
  ASSUME TablesGrow, HandlersOK, NEW q \in Requests, req'[q] = req[q]
  PROVE  Shape(req'[q]) /\ req'[q].pc \in Pcs /\ GrantOK(req'[q]) /\ GuestOK(req'[q])
           /\ RowOK(req[q])' /\ ManageOK(req[q])'
<1>1. Parents(req[q].op) \subseteq Parents(req[q].op)'
  BY DEF TablesGrow, Registered, Parents, Registered
<1> QED
  BY <1>1
  DEF HandlersOK, GrantOK, GuestOK, RowOK, ManageOK, TablesGrow, HasPermission

LEMMA OneHandler ==
  ASSUME TablesGrow, HandlersOK, NEW r \in Requests, NEW s,
         req' = [req EXCEPT ![r] = s],
         Shape(s), s.pc \in Pcs, GrantOK(s), GuestOK(s), RowOK(req[r])',
         ManageOK(req[r])'
  PROVE  HandlersOK'
<1>1. /\ req' = [q \in Requests |-> req'[q]] /\ req'[r] = s
      /\ \A q \in Requests \ {r} : req'[q] = req[q]
  BY DEF HandlersOK
<1> QED
  BY <1>1, OtherHandlers DEF HandlersOK

LEMMA NoHandler ==
  ASSUME TablesGrow, HandlersOK, UNCHANGED req
  PROVE  HandlersOK'
BY OtherHandlers DEF HandlersOK

LEMMA HandlerFinishes ==
  ASSUME TablesGrow, HandlersOK, NEW r \in Requests, Finish(r)
  PROVE  HandlersOK'
<1>1. req' = [req EXCEPT ![r] = Idle] /\ req'[r] = Idle
  BY DEF Finish, HandlersOK
<1>2. Shape(Idle) /\ Idle.pc \in Pcs /\ GrantOK(Idle) /\ GuestOK(Idle)
  BY DEF Shape, Idle, Pcs, GrantOK, GuestOK, GrantPcs
<1>3. RowOK(req[r])' /\ ManageOK(req[r])'
  BY <1>1 DEF Idle, RowOK, ManageOK, ManagePcs
<1> QED
  BY <1>1, <1>2, <1>3, OneHandler

(***************************************************************************)
(* The history follows a handler that goes on with its grant or request.   *)
(***************************************************************************)
Follows(r) ==
  /\ req'[r].pc \in GrantPcs =>
       \/ At(r, "idle") /\ req'[r].held = {}
       \/ /\ req[r].pc \in GrantPcs
          /\ req'[r].sub = req[r].sub /\ req'[r].aud = req[r].aud
          /\ req'[r].held \subseteq since[r].roles
  /\ req'[r].pc \in ManagePcs \ {"subject"} =>
       \/ req[r].pc \in ManagePcs \ {"subject"}
       \/ ~At(r, "idle") /\ (IsUser(req'[r].sub) => req'[r].sub[2] \in live')
  /\ req'[r].pc \in GuestPcs =>
       \/ req[r].pc \in GuestPcs
       \/ \E s \in services' : s.guests /\ s.org = req'[r].row

LEMMA ObserveSince ==
  ASSUME SinceOK, Observe, TypeOK', NEW r \in Requests, Follows(r)
  PROVE  SinceOf(req[r], since[r])'
<1>1. since'[r] = Seen(IF At(r, "idle") THEN Nothing ELSE since[r], req'[r])
  BY DEF Observe
<1>2. SinceOf(req[r], since[r])
  BY DEF SinceOK
<1>3. CASE req'[r].pc \in GrantPcs
  <2>1. req'[r].pc \notin ManagePcs \cup GuestPcs
    BY <1>3 DEF GrantPcs, ManagePcs, GuestPcs
  <2> DEFINE old == IF At(r, "idle") THEN Nothing ELSE since[r]
  <2>2. since'[r] =
          [roles    |-> old.roles \cup {role \in roles' :
                         role[1] = req'[r].aud /\ <<req'[r].sub, role>> \in assigned'},
           granted  |-> old.granted \cup {g \in granted' : g[1][1] = req'[r].aud},
           admitted |-> FALSE]
    BY <1>1, <1>3 DEF Seen
  <2>3. /\ old.roles \subseteq {role \in Roles : role[1] = req'[r].aud
                                     /\ <<req'[r].sub, role>> \in ever.assigned}
        /\ old.granted \subseteq ever.granted
        /\ req'[r].held \subseteq old.roles
    <3>1. CASE At(r, "idle")
      BY <3>1, <1>3 DEF Follows, Nothing, At, GrantPcs
    <3>2. CASE ~At(r, "idle")
      BY <3>2, <1>2, <1>3 DEF Follows, SinceOf
    <3> QED
      BY <3>1, <3>2
  <2>4. roles' \subseteq Roles
    BY DEF TypeOK
  <2> QED
    BY <2>1, <2>2, <2>3, <2>4, EverGrows DEF SinceOf, EverOK
<1>4. CASE req'[r].pc \in ManagePcs
  <2>1. req'[r].pc \notin GrantPcs \cup GuestPcs
    BY <1>4 DEF GrantPcs, ManagePcs, GuestPcs
  <2> DEFINE old == IF At(r, "idle") THEN Nothing ELSE since[r]
             isLive == old.admitted \/ (IsUser(req'[r].sub) => req'[r].sub[2] \in live')
  <2>2. since'[r] = [Nothing EXCEPT !.admitted = isLive]
    BY <1>1, <1>4, <2>1 DEF Seen
  <2>3. since'[r].admitted = isLive
    <3> HIDE DEF isLive
    <3> QED
      BY <2>2 DEF Nothing
  <2> QED
    BY <1>2, <2>1, <2>3 DEF Follows, SinceOf, At, ManagePcs, GuestPcs
<1>5. CASE req'[r].pc \in GuestPcs
  <2>1. req'[r].pc \notin GrantPcs \cup ManagePcs
    BY <1>5 DEF GrantPcs, ManagePcs, GuestPcs
  <2> DEFINE old == IF At(r, "idle") THEN Nothing ELSE since[r]
             taken == old.admitted \/ \E s \in services' : s.guests /\ s.org = req'[r].row
  <2>2. since'[r] = [Nothing EXCEPT !.admitted = taken]
    BY <1>1, <1>5, <2>1 DEF Seen
  <2>3. since'[r].admitted = taken
    <3> HIDE DEF taken
    <3> QED
      BY <2>2 DEF Nothing
  <2> QED
    BY <1>2, <1>5, <2>1, <2>3 DEF Follows, SinceOf, At, GuestPcs
<1> QED
  BY <1>3, <1>4, <1>5 DEF SinceOf

LEMMA SinceKept ==
  ASSUME SinceOK, Observe, TypeOK', HandlersOK, NEW r,
         \A q \in Requests \ {r} : req'[q] = req[q],
         r \in Requests => Follows(r)
  PROVE  SinceOK'
<1>1. ASSUME NEW q \in Requests, req'[q] = req[q] PROVE Follows(q)
  <2>1. SinceOf(req[q], since[q])
    BY DEF SinceOK
  <2> QED
    BY <1>1, <2>1 DEF Follows, SinceOf, At, GrantPcs, ManagePcs, GuestPcs
<1>2. \A q \in Requests : Follows(q)
  BY <1>1
<1> QED
  BY <1>2, ObserveSince DEF SinceOK

LEMMA FinishFollows ==
  ASSUME HandlersOK, NEW r \in Requests, Finish(r)
  PROVE  Follows(r) /\ \A q \in Requests \ {r} : req'[q] = req[q]
BY DEF HandlersOK, Finish, Follows, Idle, GrantPcs, ManagePcs, GuestPcs

LEMMA AnsweredKept ==
  ASSUME AnsweredOK, answered' = answered, orgs \subseteq orgs',
         Registered \subseteq Registered', roles \subseteq roles',
         perms \subseteq perms'
  PROVE  AnsweredOK'
BY DEF AnsweredOK, Exists

(***************************************************************************)
(* A step of one handler that leaves the tables, the tokens and the keys.  *)
(***************************************************************************)
Quiet == /\ UNCHANGED <<tables, tokens, ring, now, answered>>
         /\ live' \subseteq Users /\ begun' \in Nat /\ events' \in Nat

LEMMA QuietStep ==
  ASSUME IInv, Observe, Quiet, HandlersOK', NEW r,
         \A q \in Requests \ {r} : req'[q] = req[q],
         r \in Requests => Follows(r)
  PROVE  IInv'
<1>1. TypeOK'
  BY DEF IInv, TypeOK, Quiet, tables, directory
<1>2. TokensGiven'
  BY TokensKept DEF IInv, Quiet
<1>3. RingOK'
  BY DEF IInv, RingOK, Quiet
<1>4. AnsweredOK'
  BY AnsweredKept DEF IInv, Quiet, Registered, tables, directory
<1>5. SinceOK'
  BY <1>1, SinceKept DEF IInv
<1> QED
  BY <1>1, <1>2, <1>3, <1>4, <1>5, EverGrows DEF IInv

(***************************************************************************)
(* A handler goes on to state s.                                           *)
(***************************************************************************)
LEMMA QuietGoesOn ==
  ASSUME IInv, Observe, Quiet, NEW r \in Requests, NEW s,
         req' = [req EXCEPT ![r] = s],
         Shape(s), s.pc \in Pcs, GrantOK(s), GuestOK(s), RowOK(req[r])',
         ManageOK(req[r])',
         Follows(r)
  PROVE  IInv'
<1>1. TablesGrow
  BY DEF TablesGrow, Registered, Quiet, tables, directory
<1>2. HandlersOK'
  BY <1>1, OneHandler DEF IInv
<1>3. \A q \in Requests \ {r} : req'[q] = req[q]
  BY DEF IInv, HandlersOK
<1> QED
  BY <1>2, <1>3, QuietStep

LEMMA QuietFinish ==
  ASSUME IInv, Observe, Quiet, NEW r \in Requests, Finish(r)
  PROVE  IInv'
<1>1. TablesGrow
  BY DEF TablesGrow, Registered, Quiet, tables, directory
<1>2. HandlersOK'
  BY <1>1, HandlerFinishes DEF IInv
<1> QED
  BY <1>2, FinishFollows, QuietStep DEF IInv

LEMMA ShapeOf ==
  ASSUME NEW pc, NEW sub, NEW aud, NEW held, NEW tok, NEW op, NEW row, NEW s,
         s = [pc |-> pc, sub |-> sub, aud |-> aud, held |-> held, tok |-> tok,
              op |-> op, row |-> row]
  PROVE  /\ Shape(s)
         /\ s.pc = pc /\ s.sub = sub /\ s.aud = aud /\ s.held = held
         /\ s.tok = tok /\ s.op = op /\ s.row = row
<1>1. /\ s.pc = pc /\ s.sub = sub /\ s.aud = aud /\ s.held = held
      /\ s.tok = tok /\ s.op = op /\ s.row = row
  OBVIOUS
<1> QED
  BY <1>1 DEF Shape

LEMMA ShapeExcept ==
  ASSUME NEW q, Shape(q), NEW pc, NEW held, NEW s,
         s = [q EXCEPT !.pc = pc, !.held = held]
  PROVE  s = [pc |-> pc, sub |-> q.sub, aud |-> q.aud, held |-> held,
              tok |-> q.tok, op |-> q.op, row |-> q.row]
BY DEF Shape

LEMMA BeginIs ==
  ASSUME HandlersOK, NEW r \in Requests, NEW s, Begin(r, s)
  PROVE  /\ At(r, "idle") /\ req' = [req EXCEPT ![r] = s] /\ req'[r] = s
         /\ \A q \in Requests \ {r} : req'[q] = req[q]
BY DEF HandlersOK, Begin

LEMMA AwaitIs ==
  ASSUME HandlersOK, NEW r \in Requests, NEW pc, Await(r, pc)
  PROVE  /\ req' = [req EXCEPT ![r] = req'[r]]
         /\ req'[r].pc = pc
         /\ Shape(req'[r])
         /\ req'[r].sub = req[r].sub /\ req'[r].aud = req[r].aud
         /\ req'[r].held = req[r].held /\ req'[r].tok = req[r].tok
         /\ req'[r].op = req[r].op /\ req'[r].row = req[r].row
         /\ \A q \in Requests \ {r} : req'[q] = req[q]
<1>1. req' = [req EXCEPT ![r] = [req[r] EXCEPT !.pc = pc]]
  BY DEF Await
<1>2. /\ req'[r] = [req[r] EXCEPT !.pc = pc]
      /\ \A q \in Requests \ {r} : req'[q] = req[q]
  BY <1>1 DEF HandlersOK
<1>3. Shape(req[r])
  BY DEF HandlersOK
<1>4. req'[r] = [pc |-> pc, sub |-> req[r].sub, aud |-> req[r].aud,
                 held |-> req[r].held, tok |-> req[r].tok, op |-> req[r].op,
                 row |-> req[r].row]
  BY <1>2, <1>3 DEF Shape
<1>5. req' = [req EXCEPT ![r] = req'[r]]
  BY <1>1, <1>2
<1>6. /\ req'[r].pc = pc /\ req'[r].sub = req[r].sub
      /\ req'[r].aud = req[r].aud /\ req'[r].held = req[r].held
      /\ req'[r].tok = req[r].tok /\ req'[r].op = req[r].op
      /\ req'[r].row = req[r].row
  BY <1>4
<1>7. Shape(req'[r])
  BY <1>4, ShapeOf
<1> QED
  BY <1>2, <1>5, <1>6, <1>7

-----------------------------------------------------------------------------
(***************************************************************************)
(* The grants.                                                             *)
(***************************************************************************)
LEMMA GrantUserStep ==
  ASSUME IInv, NEW r \in Requests, NEW u \in Users, NEW a \in Audiences,
         GrantUser(r, u, a), Beside
  PROVE  IInv'
<1>7. PICK s : s = [Idle EXCEPT !.pc = "member", !.sub = <<"user", u>>, !.aud = a]
  OBVIOUS
<1>10. s = [pc |-> "member", sub |-> <<"user", u>>, aud |-> a, held |-> {},
            tok |-> Null, op |-> Null, row |-> Null]
  BY <1>7 DEF Idle
<1>8. /\ Shape(s) /\ s.pc = "member" /\ s.sub = <<"user", u>> /\ s.aud = a
      /\ s.held = {}
  BY ONLY <1>10, ShapeOf
<1>9. Begin(r, s) /\ Observe
  BY <1>7 DEF GrantUser, Beside
<1>1. req' = [req EXCEPT ![r] = s] /\ At(r, "idle")
  BY <1>9, BeginIs DEF IInv
<1>2. Quiet
  BY DEF GrantUser, Beside, Quiet, IInv, TypeOK
<1>3. s.pc \in Pcs /\ GrantOK(s) /\ GuestOK(s)
  BY <1>8 DEF Pcs, GrantOK, GuestOK, Subjects, IsUser
<1>4. req'[r] = s
  BY <1>1 DEF IInv, HandlersOK
<1>5. RowOK(req[r])' /\ ManageOK(req[r])' /\ Follows(r)
  BY <1>1, <1>4, <1>8 DEF RowOK, ManageOK, ManagePcs, GuestPcs, Follows
<1> QED
  BY <1>1, <1>2, <1>3, <1>5, <1>8, <1>9, QuietGoesOn

LEMMA GrantClientStep ==
  ASSUME IInv, NEW r \in Requests, NEW c \in services, NEW a \in Audiences,
         GrantClient(r, c, a), Beside
  PROVE  IInv'
<1>7. PICK s : s = [Idle EXCEPT !.pc = "roles", !.sub = <<"service", c.aud>>,
                                !.aud = a]
  OBVIOUS
<1>10. s = [pc |-> "roles", sub |-> <<"service", c.aud>>, aud |-> a,
            held |-> {}, tok |-> Null, op |-> Null, row |-> Null]
  BY <1>7 DEF Idle
<1>8. /\ Shape(s) /\ s.pc = "roles" /\ s.sub = <<"service", c.aud>> /\ s.aud = a
      /\ s.held = {}
  BY ONLY <1>10, ShapeOf
<1>9. Begin(r, s) /\ Observe
  BY <1>7 DEF GrantClient, Beside
<1>1. req' = [req EXCEPT ![r] = s] /\ At(r, "idle")
  BY <1>9, BeginIs DEF IInv
<1>2. Quiet
  BY DEF GrantClient, Beside, Quiet, IInv, TypeOK
<1>3. c.aud \in Audiences
  BY DEF IInv, TypeOK, Service
<1>4. s.pc \in Pcs /\ GrantOK(s) /\ GuestOK(s)
  BY <1>3, <1>8 DEF Pcs, GrantOK, GuestOK, Subjects
<1>5. req'[r] = s
  BY <1>1 DEF IInv, HandlersOK
<1>6. RowOK(req[r])' /\ ManageOK(req[r])' /\ Follows(r)
  BY <1>1, <1>5, <1>8 DEF RowOK, ManageOK, ManagePcs, GuestPcs, Follows
<1> QED
  BY <1>1, <1>2, <1>4, <1>6, <1>8, <1>9, QuietGoesOn

LEMMA GrantMemberStep ==
  ASSUME IInv, NEW r \in Requests, GrantMember(r), Beside
  PROVE  IInv'
<1>1. Observe /\ At(r, "member") /\ (Await(r, "roles") \/ Finish(r))
  BY DEF GrantMember, Beside
<1>2. Quiet
  BY DEF GrantMember, Beside, Quiet, IInv, TypeOK
<1>3. CASE Await(r, "roles")
  <2>1. HandlersOK /\ SinceOf(req[r], since[r]) /\ GrantOK(req[r])
    BY DEF IInv, HandlersOK, SinceOK
  <2>5. /\ req'[r].pc = "roles" /\ req'[r].sub = req[r].sub
        /\ req'[r].aud = req[r].aud /\ req'[r].held = req[r].held
    BY <1>3, <2>1, AwaitIs
  <2>2. GrantOK(req'[r]) /\ GuestOK(req'[r]) /\ RowOK(req[r])' /\ ManageOK(req[r])'
    BY <1>1, <2>1, <2>5 DEF At, GrantOK, GuestOK, RowOK, ManageOK, ManagePcs, GrantPcs
  <2>3. Follows(r)
    BY <1>1, <2>1, <2>5 DEF At, Follows, SinceOf, ManagePcs, GrantPcs, GuestPcs
  <2>4. req'[r].pc \in Pcs
    BY <2>5 DEF Pcs
  <2> QED
    BY <1>1, <1>2, <1>3, <2>1, <2>2, <2>3, <2>4, AwaitIs, QuietGoesOn
<1> QED
  BY <1>1, <1>2, <1>3, QuietFinish

LEMMA CutShortStep ==
  ASSUME IInv, NEW r \in Requests, CutShort(r), Beside
  PROVE  IInv'
<1>1. Quiet /\ Observe /\ Finish(r)
  BY DEF CutShort, Beside, Quiet, IInv, TypeOK
<1> QED
  BY <1>1, QuietFinish

(***************************************************************************)
(* What a grant reads: the roles its subject has, the keys they have.      *)
(***************************************************************************)
LEMMA ReadRoles ==
  ASSUME IInv, NEW r \in Requests, At(r, "roles")
  PROVE  /\ RolesInService(req[r].sub, req[r].aud) \subseteq since[r].roles
         /\ RolesInService(req[r].sub, req[r].aud)
              \subseteq {role \in Roles : role[1] = req[r].aud}
<1>1. SinceOf(req[r], since[r])
  BY DEF IInv, SinceOK
<1> QED
  BY <1>1 DEF At, GrantPcs, SinceOf, RolesInService, IInv, TypeOK

LEMMA ReadKeys ==
  ASSUME IInv, NEW r \in Requests, At(r, "keys"),
         NEW key \in KeysOf(req[r].held)
  PROVE  \E role \in since[r].roles, p \in Perms :
           /\ role \in Roles /\ role[1] = req[r].aud /\ p[2] = key
           /\ <<req[r].sub, role>> \in ever.assigned
           /\ <<role, p>> \in since[r].granted /\ <<role, p>> \in ever.granted
<1>1. SinceOf(req[r], since[r]) /\ req[r].pc \in GrantPcs
  BY DEF IInv, SinceOK, At, GrantPcs
<1>2. PICK p \in perms, role \in req[r].held : p[2] = key /\ <<role, p>> \in granted
  BY DEF KeysOf
<1>3. p \in Perms /\ role \in since[r].roles
  BY <1>1 DEF SinceOf, IInv, TypeOK
<1>4. role \in Roles /\ role[1] = req[r].aud /\ <<req[r].sub, role>> \in ever.assigned
  BY <1>1, <1>3 DEF SinceOf
<1>5. <<role, p>> \in since[r].granted
  BY <1>1, <1>2, <1>4 DEF SinceOf
<1>6. <<role, p>> \in ever.granted
  BY <1>1, <1>5 DEF SinceOf
<1> QED
  BY <1>2, <1>3, <1>4, <1>5, <1>6

LEMMA MintStep ==
  ASSUME IInv, Observe, NEW r \in Requests, NEW scope \in SUBSET Keys,
         Mint(r, scope), req[r].pc \in GrantPcs,
         req[r].aud = Platform =>
           \A key \in scope : Given(req[r].sub, key),
         UNCHANGED <<tables, live, begun, events, ring, now, answered>>
  PROVE  IInv'
<1> DEFINE new == [sub |-> req[r].sub, aud |-> req[r].aud, scope |-> scope,
                   exp |-> now + TTL, kid |-> ring.active]
<1>1. tokens' = tokens \cup {new} /\ Finish(r)
  BY DEF Mint
<1>2. req[r].sub \in Subjects /\ req[r].aud \in Audiences
  BY DEF IInv, HandlersOK, GrantOK
<1>3. now \in Nat /\ TTL \in Nat /\ ring.active \in SigningKeys
  BY AccessAssumption DEF IInv, TypeOK
<1>4. new \in Token
  BY <1>2, <1>3 DEF Token
<1>5. TypeOK'
  <2> HIDE DEF new
  <2> QED
    BY <1>1, <1>4 DEF IInv, TypeOK, tables, directory
<1>6. TokensGiven'
  <2>1. ASSUME NEW t \in tokens', t.aud = Platform, NEW key \in t.scope
        PROVE  Given(t.sub, key)
    <3>1. CASE t \in tokens
      BY <2>1, <3>1 DEF IInv, TokensGiven
    <3>2. CASE t = new
      BY <2>1, <3>2
    <3> QED
      BY <1>1, <2>1, <3>1, <3>2
  <2> QED
    BY <2>1, GivenGrows DEF TokensGiven
<1>7. RingOK'
  <2>1. new.exp = now + TTL /\ new.kid = ring.active
    OBVIOUS
  <2> HIDE DEF new
  <2> QED
    BY <1>1, <1>3, <2>1 DEF IInv, RingOK
<1>8. HandlersOK'
  <2>1. TablesGrow
    BY <1>1 DEF TablesGrow, Registered, tables, directory
  <2> QED
    BY <1>1, <2>1, HandlerFinishes DEF IInv
<1>9. SinceOK'
  BY <1>1, <1>5, FinishFollows, SinceKept DEF IInv
<1>10. AnsweredOK'
  BY AnsweredKept DEF IInv, Registered, tables, directory
<1> QED
  BY <1>5, <1>6, <1>7, <1>8, <1>9, <1>10, EverGrows DEF IInv

LEMMA GrantKeysStep ==
  ASSUME IInv, NEW r \in Requests, GrantKeys(r), Beside
  PROVE  IInv'
<1>1. /\ Observe /\ At(r, "keys") /\ Mint(r, KeysOf(req[r].held))
      /\ UNCHANGED <<tables, live, begun, events, ring, now, answered>>
  BY DEF GrantKeys, Beside
<1>2. KeysOf(req[r].held) \subseteq Keys
  BY DEF KeysOf, IInv, TypeOK, Perms
<1>3. req[r].aud = Platform =>
        \A key \in KeysOf(req[r].held) : Given(req[r].sub, key)
  <2> SUFFICES ASSUME req[r].aud = Platform, NEW key \in KeysOf(req[r].held)
               PROVE  Given(req[r].sub, key)
    OBVIOUS
  <2>1. PICK role \in since[r].roles, p \in Perms :
           /\ role \in Roles /\ role[1] = req[r].aud /\ p[2] = key
           /\ <<req[r].sub, role>> \in ever.assigned
           /\ <<role, p>> \in ever.granted
    BY <1>1, ReadKeys
  <2> QED
    BY <2>1 DEF Given
<1> QED
  BY <1>1, <1>2, <1>3, MintStep DEF At, GrantPcs

LEMMA GrantRolesStep ==
  ASSUME IInv, NEW r \in Requests, GrantRoles(r), Beside
  PROVE  IInv'
<1> DEFINE held == RolesInService(req[r].sub, req[r].aud)
<1>1. /\ Observe /\ At(r, "roles")
      /\ UNCHANGED <<tables, live, begun, events, ring, now, answered>>
  BY DEF GrantRoles, Beside
<1>2. CASE Mint(r, {})
  BY <1>1, <1>2, MintStep DEF At, GrantPcs
<1>3. CASE /\ req' = [req EXCEPT ![r].pc = "keys", ![r].held = held]
           /\ UNCHANGED tokens
  <2> DEFINE s == [req[r] EXCEPT !.pc = "keys", !.held = held]
  <2>1. Shape(req[r]) /\ GrantOK(req[r])
    BY DEF IInv, HandlersOK
  <2>2. held \subseteq since[r].roles
        /\ held \subseteq {role \in Roles : role[1] = req[r].aud}
    BY <1>1, ReadRoles
  <2>4. req' = [req EXCEPT ![r] = s]
    BY <1>3
  <2> HIDE DEF held
  <2>3. s = [pc |-> "keys", sub |-> req[r].sub, aud |-> req[r].aud,
             held |-> held, tok |-> req[r].tok, op |-> req[r].op,
             row |-> req[r].row]
    BY <2>1, ShapeExcept
  <2> HIDE DEF s
  <2>5. req'[r] = s
    BY <2>4 DEF IInv, HandlersOK
  <2>6. Quiet
    BY <1>1, <1>3 DEF Quiet, IInv, TypeOK
  <2>10. /\ s.pc = "keys" /\ s.sub = req[r].sub /\ s.aud = req[r].aud
         /\ s.held = held
    BY <2>3
  <2>11. Shape(s)
    BY <2>3, ShapeOf
  <2>7. s.pc \in Pcs /\ GrantOK(s) /\ GuestOK(s)
    BY <1>1, <2>1, <2>2, <2>10 DEF Pcs, GrantOK, GuestOK, GrantPcs, At
  <2>8. RowOK(req[r])' /\ ManageOK(req[r])'
    BY <2>5, <2>10 DEF RowOK, ManageOK, ManagePcs
  <2>9. Follows(r)
    BY <1>1, <2>2, <2>5, <2>10 DEF Follows, ManagePcs, GrantPcs, GuestPcs, At
  <2> QED
    BY <1>1, <2>4, <2>6, <2>7, <2>11, <2>8, <2>9, QuietGoesOn
<1> QED
  BY <1>2, <1>3 DEF GrantRoles

-----------------------------------------------------------------------------
(***************************************************************************)
(* The requests of the management API.                                     *)
(***************************************************************************)
GoesOn(r, pc, row) == req' = [req EXCEPT ![r].pc = pc, ![r].row = row]

Chooses(r, pc, op) == req' = [req EXCEPT ![r].pc = pc, ![r].op = op]

LEMMA RowExcept ==
  ASSUME NEW q, Shape(q), NEW pc, NEW row, NEW s,
         s = [q EXCEPT !.pc = pc, !.row = row]
  PROVE  s = [pc |-> pc, sub |-> q.sub, aud |-> q.aud, held |-> q.held,
              tok |-> q.tok, op |-> q.op, row |-> row]
BY DEF Shape

LEMMA OpExcept ==
  ASSUME NEW q, Shape(q), NEW pc, NEW op, NEW s,
         s = [q EXCEPT !.pc = pc, !.op = op]
  PROVE  s = [pc |-> pc, sub |-> q.sub, aud |-> q.aud, held |-> q.held,
              tok |-> q.tok, op |-> op, row |-> q.row]
BY DEF Shape

LEMMA RowIs ==
  ASSUME HandlersOK, NEW r \in Requests, NEW pc, NEW row, GoesOn(r, pc, row)
  PROVE  /\ req' = [req EXCEPT ![r] = req'[r]]
         /\ Shape(req'[r])
         /\ req'[r].pc = pc /\ req'[r].sub = req[r].sub
         /\ req'[r].tok = req[r].tok /\ req'[r].op = req[r].op
         /\ req'[r].row = row
<1>1. req' = [req EXCEPT ![r] = [req[r] EXCEPT !.pc = pc, !.row = row]]
  BY DEF GoesOn
<1>2. req'[r] = [req[r] EXCEPT !.pc = pc, !.row = row]
  BY <1>1 DEF HandlersOK
<1>3. Shape(req[r])
  BY DEF HandlersOK
<1>4. req'[r] = [pc |-> pc, sub |-> req[r].sub, aud |-> req[r].aud,
                 held |-> req[r].held, tok |-> req[r].tok, op |-> req[r].op,
                 row |-> row]
  BY <1>2, <1>3, RowExcept
<1>5. req' = [req EXCEPT ![r] = req'[r]]
  BY <1>1, <1>2
<1> QED
  BY ONLY <1>4, <1>5, ShapeOf

LEMMA OpIs ==
  ASSUME HandlersOK, NEW r \in Requests, NEW pc, NEW op, Chooses(r, pc, op)
  PROVE  /\ req' = [req EXCEPT ![r] = req'[r]]
         /\ Shape(req'[r])
         /\ req'[r].pc = pc /\ req'[r].sub = req[r].sub
         /\ req'[r].tok = req[r].tok /\ req'[r].op = op
<1>1. req' = [req EXCEPT ![r] = [req[r] EXCEPT !.pc = pc, !.op = op]]
  BY DEF Chooses
<1>2. req'[r] = [req[r] EXCEPT !.pc = pc, !.op = op]
  BY <1>1 DEF HandlersOK
<1>3. Shape(req[r])
  BY DEF HandlersOK
<1>4. req'[r] = [pc |-> pc, sub |-> req[r].sub, aud |-> req[r].aud,
                 held |-> req[r].held, tok |-> req[r].tok, op |-> op,
                 row |-> req[r].row]
  BY <1>2, <1>3, OpExcept
<1>5. req' = [req EXCEPT ![r] = req'[r]]
  BY <1>1, <1>2
<1> QED
  BY ONLY <1>4, <1>5, ShapeOf

LEMMA FirstAwaitIs ==
  ASSUME NEW op \in Routes
  PROVE  /\ FirstAwait(op) \in {"parent", "name", "write"}
         /\ FirstAwait(op) = "name" => op = "createOrg"
         /\ FirstAwait(op) = "write" => op \notin Creates /\ op # "addMember"
         /\ FirstAwait(op) = "parent" =>
              op \in Creates \ {"createOrg"} \/ op = "addMember"
BY DEF FirstAwait, Routes, Needs, Creates

LEMMA AskStep ==
  ASSUME IInv, NEW r \in Requests, NEW t \in tokens, Ask(r, t)
  PROVE  IInv'
<1>1. PICK s : s = [Idle EXCEPT !.pc = "subject", !.sub = t.sub, !.tok = t]
  OBVIOUS
<1>2. s = [pc |-> "subject", sub |-> t.sub, aud |-> Null, held |-> {},
           tok |-> t, op |-> Null, row |-> Null]
  BY <1>1 DEF Idle
<1>3. /\ Shape(s) /\ s.pc = "subject" /\ s.sub = t.sub /\ s.tok = t
  BY ONLY <1>2, ShapeOf
<1>4. Begin(r, s) /\ Observe
  BY <1>1 DEF Ask, Present
<1>5. /\ At(r, "idle") /\ req' = [req EXCEPT ![r] = s] /\ req'[r] = s
  BY <1>4, BeginIs DEF IInv
<1>6. Quiet
  BY DEF Ask, Present, Event, Quiet, IInv, TypeOK
<1>7. s.pc \in Pcs /\ GrantOK(s) /\ GuestOK(s)
  BY <1>3 DEF Pcs, GrantOK, GuestOK, GrantPcs
<1>8. RowOK(req[r])' /\ ManageOK(req[r])' /\ Follows(r)
  BY <1>3, <1>5, <1>6 DEF RowOK, ManageOK, ManagePcs, GrantPcs, GuestPcs, Follows, Quiet
<1> QED
  BY <1>3, <1>4, <1>5, <1>6, <1>7, <1>8, QuietGoesOn

LEMMA RouteStep ==
  ASSUME IInv, NEW r \in Requests, Route(r)
  PROVE  IInv'
<1>1. Quiet /\ Observe /\ At(r, "subject") /\ HandlersOK
  BY DEF Route, Quiet, IInv, TypeOK
<1>2. PICK op \in Routes :
        IF Admitted(r, Needs[op]) THEN Chooses(r, FirstAwait(op), op)
                                  ELSE Finish(r)
  BY DEF Route, Chooses
<1>3. CASE Admitted(r, Needs[op]) /\ Chooses(r, FirstAwait(op), op)
  <2>1. /\ req' = [req EXCEPT ![r] = req'[r]] /\ Shape(req'[r])
        /\ req'[r].pc = FirstAwait(op) /\ req'[r].sub = req[r].sub
        /\ req'[r].tok = req[r].tok /\ req'[r].op = op
    BY <1>1, <1>3, OpIs
  <2>2. req'[r].pc \in {"parent", "name", "write"}
    BY <2>1, FirstAwaitIs
  <2>3. LiveSubject(req[r].sub) /\ HasPermission(req[r].tok, Needs[op])
    BY <1>3 DEF Admitted
  <2>4. req[r].tok \in tokens /\ req[r].sub = req[r].tok.sub
    BY <1>1 DEF HandlersOK, ManageOK, At, ManagePcs
  <2>5. req'[r].pc \in Pcs /\ GrantOK(req'[r]) /\ GuestOK(req'[r])
    BY <2>2 DEF Pcs, GrantOK, GuestOK, GrantPcs
  <2>6. RowOK(req[r])'
    BY <2>1, FirstAwaitIs DEF RowOK, Creates
  <2>7. ManageOK(req[r])'
    BY <1>1, <2>1, <2>3, <2>4 DEF ManageOK, Quiet, HasPermission
  <2>8. Follows(r)
    BY <1>1, <2>1, <2>2, <2>3
    DEF Follows, At, GrantPcs, ManagePcs, GuestPcs, LiveSubject, Route
  <2> QED
    BY <1>1, <2>1, <2>5, <2>6, <2>7, <2>8, QuietGoesOn
<1> QED
  BY <1>1, <1>2, <1>3, QuietFinish

LEMMA ReadParentStep ==
  ASSUME IInv, NEW r \in Requests, ReadParent(r)
  PROVE  IInv'
<1>1. Quiet /\ Observe /\ At(r, "parent") /\ HandlersOK
  BY DEF ReadParent, Quiet, IInv, TypeOK
<1>2. PICK parent \in Parents(req[r].op) \cup {Null} :
        IF parent = Null THEN Finish(r)
                         ELSE GoesOn(r, AfterParent(req[r].op), parent)
  BY DEF ReadParent, GoesOn
<1>3. CASE /\ parent \in Parents(req[r].op)
           /\ GoesOn(r, AfterParent(req[r].op), parent)
  <2>1. /\ req' = [req EXCEPT ![r] = req'[r]] /\ Shape(req'[r])
        /\ req'[r].pc = AfterParent(req[r].op) /\ req'[r].sub = req[r].sub
        /\ req'[r].tok = req[r].tok /\ req'[r].op = req[r].op
        /\ req'[r].row = parent
    BY <1>1, <1>3, RowIs
  <2>2. /\ ManageOK(req[r]) /\ req[r].op \in Routes
        /\ req[r].op \in Creates \ {"createOrg"} \/ req[r].op = "addMember"
    BY <1>1, FirstAwaitIs DEF HandlersOK, ManageOK, At, ManagePcs
  <2>3. /\ AfterParent(req[r].op) \in {"name", "write"}
        /\ AfterParent(req[r].op) = "write" <=> req[r].op = "addMember"
    BY DEF AfterParent
  <2>4. req'[r].pc \in Pcs /\ GrantOK(req'[r]) /\ GuestOK(req'[r])
    BY <2>1, <2>3 DEF Pcs, GrantOK, GuestOK, GrantPcs
  <2>5. Parents(req[r].op)' = Parents(req'[r].op)
    BY <1>1, <2>1 DEF Quiet, Parents, Registered, tables, directory
  <2>6. req[r].op = "addMember" => parent \in Slugs
    BY <1>3 DEF Parents, IInv, TypeOK
  <2>7. RowOK(req[r])'
    <3>1. Parents(req[r].op)' = Parents(req[r].op)
      BY <1>1, <2>1 DEF Quiet, Parents, Registered, tables, directory
    <3>2. "addMember" \notin Creates
      BY DEF Creates
    <3> QED
      BY <1>3, <2>1, <2>2, <2>3, <2>6, <3>1, <3>2 DEF RowOK
  <2>8. ManageOK(req[r])'
    BY <1>1, <2>1, <2>2, <2>3
    DEF ManageOK, Quiet, HasPermission, ManagePcs, At
  <2>9. Follows(r)
    BY <1>1, <2>1, <2>3 DEF Follows, At, GrantPcs, ManagePcs, GuestPcs
  <2> QED
    BY <1>1, <2>1, <2>4, <2>7, <2>8, <2>9, QuietGoesOn
<1> QED
  BY <1>1, <1>2, <1>3, QuietFinish

LEMMA ChildName ==
  ASSUME TypeOK, NEW op \in Creates, NEW parent, op # "createOrg" => parent \in Parents(op),
         NEW x \in Children(op, parent)
  PROVE  /\ Name(op, x) \in Names
         /\ op = "registerService" => x \in Service
<1>1. CASE op = "createOrg"
  BY <1>1 DEF Children, Name, Names
<1>2. CASE op = "registerService"
  <2>1. parent \in Slugs
    BY <1>2 DEF TypeOK, Parents
  <2> QED
    BY <1>2, <2>1 DEF Children, Name, Names, Service
<1>3. ASSUME op \in {"createRole", "createPermission"}
      PROVE  parent \in Audiences
  BY <1>3 DEF TypeOK, Parents, Registered, Service
<1>4. CASE op = "createRole"
  BY <1>3, <1>4 DEF Children, Name, Names, Roles
<1>5. CASE op = "createPermission"
  BY <1>3, <1>5 DEF Children, Name, Names, Perms
<1> QED
  BY <1>1, <1>2, <1>4, <1>5 DEF Creates

LEMMA ReadNameStep ==
  ASSUME IInv, NEW r \in Requests, ReadName(r)
  PROVE  IInv'
<1>1. Quiet /\ Observe /\ At(r, "name") /\ HandlersOK
  BY DEF ReadName, Quiet, IInv, TypeOK
<1>2. PICK x \in Children(req[r].op, req[r].row) :
        IF Taken(req[r].op, x) THEN Finish(r)
                               ELSE GoesOn(r, "write", x)
  BY DEF ReadName, GoesOn
<1>3. CASE GoesOn(r, "write", x)
  <2>1. /\ req' = [req EXCEPT ![r] = req'[r]] /\ Shape(req'[r])
        /\ req'[r].pc = "write" /\ req'[r].sub = req[r].sub
        /\ req'[r].tok = req[r].tok /\ req'[r].op = req[r].op
        /\ req'[r].row = x
    BY <1>1, <1>3, RowIs
  <2>2. /\ ManageOK(req[r]) /\ req[r].op \in Creates
        /\ req[r].op # "createOrg" => req[r].row \in Parents(req[r].op)
    BY <1>1 DEF HandlersOK, RowOK, At
  <2>3. /\ Name(req[r].op, x) \in Names
        /\ req[r].op = "registerService" => x \in Service
    BY <2>2, ChildName DEF IInv
  <2>4. req'[r].pc \in Pcs /\ GrantOK(req'[r]) /\ GuestOK(req'[r])
    BY <2>1 DEF Pcs, GrantOK, GuestOK, GrantPcs
  <2>5. RowOK(req[r])'
    BY <2>1, <2>2, <2>3 DEF RowOK, Creates
  <2>6. ManageOK(req[r])'
    BY <1>1, <2>1, <2>2 DEF ManageOK, Quiet, HasPermission, ManagePcs, At
  <2>7. Follows(r)
    BY <1>1, <2>1 DEF Follows, At, GrantPcs, ManagePcs, GuestPcs
  <2> QED
    BY <1>1, <2>1, <2>4, <2>5, <2>6, <2>7, QuietGoesOn
<1> QED
  BY <1>1, <1>2, <1>3, QuietFinish

-----------------------------------------------------------------------------
(***************************************************************************)
(* The steps that change the tables.                                       *)
(***************************************************************************)
LEMMA TablesStep ==
  ASSUME IInv, Observe, TypeOK', HandlersOK', AnsweredOK',
         UNCHANGED <<tokens, ring, now>>, NEW r,
         \A q \in Requests \ {r} : req'[q] = req[q],
         r \in Requests => Follows(r)
  PROVE  IInv'
<1>1. TokensGiven'
  BY TokensKept DEF IInv
<1>2. RingOK'
  BY DEF IInv, RingOK
<1>3. SinceOK'
  BY SinceKept DEF IInv
<1> QED
  BY <1>1, <1>2, <1>3, EverGrows DEF IInv

LEMMA TakenExists ==
  ASSUME NEW op \in Creates, NEW x
  PROVE  Taken(op, x) <=> Exists(Name(op, x))
BY DEF Taken, Exists, Name, Creates

LEMMA Inserted ==
  ASSUME NEW op \in Creates, NEW x, InsertRow(op, x)
  PROVE  /\ Exists(Name(op, x))'
         /\ orgs \subseteq orgs' /\ Registered \subseteq Registered'
         /\ roles \subseteq roles' /\ perms \subseteq perms'
<1>1. /\ orgs \subseteq orgs' /\ Registered \subseteq Registered'
      /\ roles \subseteq roles' /\ perms \subseteq perms'
  BY DEF InsertRow, Registered
<1>2. CASE op = "registerService"
  <2>1. x.aud \in Registered'
    BY <1>2 DEF InsertRow, Registered
  <2> QED
    BY <1>1, <1>2, <2>1 DEF Exists, Name
<1>3. CASE op # "registerService"
  BY <1>1, <1>3 DEF Exists, Name, InsertRow, Creates
<1> QED
  BY <1>1, <1>2, <1>3

LEMMA CreateStep ==
  ASSUME IInv, NEW op \in Creates, NEW x, Name(op, x) \in Names,
         op = "registerService" => x \in Service, Create(op, x)
  PROVE  /\ AnsweredOK' /\ orgs \subseteq orgs' /\ Registered \subseteq Registered'
         /\ orgs' \subseteq Slugs /\ services' \subseteq Service
         /\ roles' \subseteq Roles /\ perms' \subseteq Perms
         /\ answered' \in [Names -> Nat]
<1>1. /\ orgs \subseteq Slugs /\ services \subseteq Service
      /\ roles \subseteq Roles /\ perms \subseteq Perms
      /\ answered \in [Names -> Nat] /\ AnsweredOK
  BY DEF IInv, TypeOK
<1>2. CASE UNCHANGED <<orgs, services, roles, perms, answered>>
  BY <1>1, <1>2, AnsweredKept DEF Registered
<1>3. CASE ~Taken(op, x) /\ InsertRow(op, x) /\ Answer(op, x)
  <2> DEFINE n == Name(op, x)
  <2>1. /\ orgs' \subseteq Slugs /\ services' \subseteq Service
        /\ roles' \subseteq Roles /\ perms' \subseteq Perms
    <3>1. CASE op = "createOrg"
      BY <1>1, <1>3, <3>1 DEF InsertRow, Name, Names
    <3>2. CASE op = "registerService"
      BY <1>1, <1>3, <3>2 DEF InsertRow
    <3>3. CASE op = "createRole"
      BY <1>1, <1>3, <3>3 DEF InsertRow, Name, Names
    <3>4. CASE op = "createPermission"
      BY <1>1, <1>3, <3>4 DEF InsertRow, Name, Names
    <3> QED
      BY <3>1, <3>2, <3>3, <3>4 DEF Creates
  <2>2. n \in Names /\ answered' = [answered EXCEPT ![n] = @ + 1]
    BY <1>3 DEF Answer
  <2>3. answered[n] = 0
    <3>1. answered[n] \in Nat /\ answered[n] <= 1 /\ (answered[n] = 1 => Exists(n))
      BY <1>1, <2>2 DEF AnsweredOK
    <3>2. ~Exists(n)
      BY <1>3, TakenExists
    <3> QED
      BY <3>1, <3>2
  <2>4. /\ Exists(n)'
        /\ orgs \subseteq orgs' /\ Registered \subseteq Registered'
        /\ roles \subseteq roles' /\ perms \subseteq perms'
    BY <1>3, Inserted
  <2> HIDE DEF n
  <2>5. answered' \in [Names -> Nat]
    BY <1>1, <2>2, <2>3
  <2>6. ASSUME NEW m \in Names
        PROVE  answered'[m] <= 1 /\ (answered'[m] = 1 => Exists(m)')
    <3>1. CASE m = n
      BY <1>1, <2>2, <2>3, <2>4, <3>1
    <3>2. CASE m # n
      <4>1. answered'[m] = answered[m]
        BY <1>1, <2>2, <3>2
      <4>2. Exists(m) => Exists(m)'
        BY <2>4 DEF Exists
      <4> QED
        BY <1>1, <4>1, <4>2 DEF AnsweredOK
    <3> QED
      BY <3>1, <3>2
  <2>7. AnsweredOK'
    BY <2>6 DEF AnsweredOK
  <2> QED
    BY <2>1, <2>4, <2>5, <2>7
<1> QED
  BY <1>2, <1>3 DEF Create

LEMMA JoinStep ==
  ASSUME TypeOK, NEW op, NEW row, op = "addMember" => row \in Slugs,
         Join(op, row)
  PROVE  /\ members' \subseteq Users \X Slugs
         /\ assigned' \subseteq Subjects \X Roles
         /\ granted' \subseteq Roles \X Perms
<1>1. /\ members \subseteq Users \X Slugs /\ roles \subseteq Roles
      /\ assigned \subseteq Subjects \X Roles /\ perms \subseteq Perms
      /\ granted \subseteq Roles \X Perms /\ Holders \subseteq Subjects
  BY DEF TypeOK, Holders
<1>2. CASE /\ \/ op = "addMember" /\ \E u \in Users : members' = members \cup {<<u, row>>}
              \/ op = "removeMember" /\ \E m \in Users \X orgs : members' = members \ {m}
           /\ UNCHANGED <<assigned, granted>>
  BY <1>1, <1>2
<1>3. CASE /\ \E a \in Holders \X roles :
                \/ op = "assign"   /\ assigned' = assigned \cup {a}
                \/ op = "unassign" /\ assigned' = assigned \ {a}
           /\ UNCHANGED <<members, granted>>
  BY <1>1, <1>3
<1>4. CASE /\ \E g \in roles \X perms :
                \/ op = "grant"  /\ granted' = granted \cup {g}
                \/ op = "revoke" /\ granted' = granted \ {g}
           /\ UNCHANGED <<members, assigned>>
  BY <1>1, <1>4
<1> QED
  BY <1>2, <1>3, <1>4 DEF Join

LEMMA PatchStep ==
  ASSUME services \subseteq Service, Patch
  PROVE  services' \subseteq Service /\ Registered' = Registered
<1>1. PICK s \in services, guests \in BOOLEAN :
        services' = (services \ {s}) \cup {[s EXCEPT !.guests = guests]}
  BY DEF Patch
<1>2. PICK t : t = [s EXCEPT !.guests = guests]
  OBVIOUS
<1>3. s \in Service
  OBVIOUS
<1>4. t \in Service /\ t.aud = s.aud
  BY ONLY <1>2, <1>3, guests \in BOOLEAN DEF Service
<1>5. services' = (services \ {s}) \cup {t}
  BY <1>1, <1>2
<1> QED
  BY <1>4, <1>5 DEF Registered

LEMMA WriteStep ==
  ASSUME IInv, NEW r \in Requests, Write(r)
  PROVE  IInv'
<1> DEFINE op == req[r].op
           row == req[r].row
<1>1. /\ Observe /\ At(r, "write") /\ Finish(r)
      /\ UNCHANGED <<live, tokens, begun, events, ring, now>>
  BY DEF Write
<1>2. RowOK(req[r]) /\ req[r].pc = "write" /\ TypeOK
  BY <1>1 DEF IInv, HandlersOK, At
<1>3. /\ TypeOK' /\ AnsweredOK' /\ orgs \subseteq orgs'
      /\ Registered \subseteq Registered'
  <2>1. CASE op \in Creates /\ Create(op, row)
    <3>1. Create(op, row) /\ UNCHANGED <<members, assigned, granted>>
      BY <2>1 DEF Create
    <3>2. /\ AnsweredOK' /\ orgs \subseteq orgs' /\ Registered \subseteq Registered'
          /\ orgs' \subseteq Slugs /\ services' \subseteq Service
          /\ roles' \subseteq Roles /\ perms' \subseteq Perms
          /\ answered' \in [Names -> Nat]
      BY <1>2, <2>1, <3>1, CreateStep DEF RowOK
    <3> QED
      BY <1>1, <1>2, <3>1, <3>2 DEF TypeOK
  <2>2. CASE Join(op, row) /\ UNCHANGED <<orgs, services, roles, perms, answered>>
    <3>1. Join(op, row) /\ UNCHANGED <<orgs, services, roles, perms, answered>>
      BY <2>2
    <3>2. /\ members' \subseteq Users \X Slugs
          /\ assigned' \subseteq Subjects \X Roles
          /\ granted' \subseteq Roles \X Perms
      BY <1>2, <3>1, JoinStep DEF RowOK
    <3>3. AnsweredOK' /\ Registered' = Registered
      BY <3>1, AnsweredKept DEF IInv, Registered
    <3> QED
      BY <1>1, <1>2, <3>1, <3>2, <3>3 DEF TypeOK
  <2>3. CASE /\ Patch
             /\ UNCHANGED <<orgs, roles, perms, members, assigned, granted,
                           answered>>
    <3>1. services' \subseteq Service /\ Registered' = Registered
      BY <1>2, <2>3, PatchStep DEF TypeOK
    <3>2. AnsweredOK'
      BY <2>3, <3>1, AnsweredKept DEF IInv
    <3> QED
      BY <1>1, <1>2, <2>3, <3>1, <3>2 DEF TypeOK
  <2> QED
    BY <2>1, <2>2, <2>3 DEF Write
<1>4. HandlersOK'
  BY <1>1, <1>3, HandlerFinishes DEF IInv, TablesGrow
<1>5. Follows(r) /\ \A q \in Requests \ {r} : req'[q] = req[q]
  BY <1>1, FinishFollows DEF IInv
<1> QED
  BY <1>1, <1>3, <1>4, <1>5, TablesStep

(***************************************************************************)
(* The seed.                                                               *)
(***************************************************************************)
SeedPcs == {"seedGrants", "seedUser", "seedMember", "seedRole"}

LEMMA SeedHandler ==
  ASSUME IInv, TablesGrow, NEW r \in Requests, NEW s,
         req' = [req EXCEPT ![r] = s], Shape(s), s.pc \in SeedPcs
  PROVE  /\ HandlersOK' /\ Follows(r)
         /\ \A q \in Requests \ {r} : req'[q] = req[q]
<1>1. /\ req'[r] = s
      /\ \A q \in Requests \ {r} : req'[q] = req[q]
  BY DEF IInv, HandlersOK
<1>2. s.pc \in Pcs /\ GrantOK(s) /\ GuestOK(s)
  BY DEF SeedPcs, Pcs, GrantOK, GuestOK, GrantPcs
<1>3. RowOK(req[r])' /\ ManageOK(req[r])' /\ Follows(r)
  BY <1>1 DEF SeedPcs, RowOK, ManageOK, ManagePcs, GrantPcs, GuestPcs, Follows
<1>4. HandlersOK'
  BY <1>2, <1>3, OneHandler DEF IInv
<1> QED
  BY <1>1, <1>3, <1>4

LEMMA SeedAwaits ==
  ASSUME IInv, TablesGrow, NEW r \in Requests, NEW pc \in SeedPcs, Await(r, pc)
  PROVE  /\ HandlersOK' /\ Follows(r)
         /\ \A q \in Requests \ {r} : req'[q] = req[q]
<1>1. /\ req' = [req EXCEPT ![r] = req'[r]] /\ req'[r].pc = pc /\ Shape(req'[r])
  BY AwaitIs DEF IInv
<1> QED
  BY <1>1, SeedHandler

LEMMA SeedStep ==
  ASSUME IInv, NEW r \in Requests, Seed(r)
  PROVE  IInv'
<1>1. PICK s : s = [Idle EXCEPT !.pc = "seedGrants"]
  OBVIOUS
<1>2. s = [pc |-> "seedGrants", sub |-> Null, aud |-> Null, held |-> {},
           tok |-> Null, op |-> Null, row |-> Null]
  BY <1>1 DEF Idle
<1>3. Shape(s) /\ s.pc = "seedGrants"
  BY ONLY <1>2, ShapeOf
<1>4. Begin(r, s) /\ Observe
  BY <1>1 DEF Seed
<1>5. req' = [req EXCEPT ![r] = s]
  BY <1>4, BeginIs DEF IInv
<1>6. Quiet
  BY DEF Seed, Event, Quiet, IInv, TypeOK
<1>7. TablesGrow
  BY <1>6 DEF TablesGrow, Registered, Quiet, tables, directory
<1>8. /\ HandlersOK' /\ Follows(r)
      /\ \A q \in Requests \ {r} : req'[q] = req[q]
  BY <1>3, <1>5, <1>7, SeedHandler DEF SeedPcs
<1> QED
  BY <1>4, <1>6, <1>8, QuietStep

LEMMA PlatformGrantsTyped == PlatformGrants \subseteq Roles \X Perms
BY AccessAssumption DEF PlatformGrants, Roles, Perms, Admin

LEMMA SeedGrantsStep ==
  ASSUME IInv, NEW r \in Requests, SeedGrants(r)
  PROVE  IInv'
<1>1. /\ Observe /\ At(r, "seedGrants")
      /\ UNCHANGED <<directory, assigned, live, tokens, begun, events, ring, now,
                     answered>>
  BY DEF SeedGrants
<1>2. granted' \subseteq granted \cup PlatformGrants
  BY DEF SeedGrants
<1>3. TypeOK'
  BY <1>1, <1>2, PlatformGrantsTyped DEF IInv, TypeOK, directory
<1>4. TablesGrow /\ AnsweredOK'
  BY <1>1, AnsweredKept DEF TablesGrow, Registered, directory, IInv
<1>5. /\ HandlersOK' /\ Follows(r)
      /\ \A q \in Requests \ {r} : req'[q] = req[q]
  <2>1. CASE Await(r, "seedUser")
    BY <1>4, <2>1, SeedAwaits DEF SeedPcs
  <2>2. CASE UNCHANGED req
    <3>1. HandlersOK'
      BY <1>4, <2>2, NoHandler DEF IInv
    <3>2. Follows(r)
      BY <1>1, <2>2 DEF Follows, At, GrantPcs, ManagePcs, GuestPcs
    <3> QED
      BY <2>2, <3>1, <3>2
  <2> QED
    BY <2>1, <2>2 DEF SeedGrants
<1> QED
  BY <1>1, <1>3, <1>4, <1>5, TablesStep

LEMMA SeedUserStep ==
  ASSUME IInv, NEW r \in Requests, SeedUser(r)
  PROVE  IInv'
<1>1. Quiet /\ Observe /\ (Await(r, "seedMember") \/ Finish(r))
  BY DEF SeedUser, Quiet, IInv, TypeOK
<1>2. TablesGrow
  BY <1>1 DEF TablesGrow, Registered, Quiet, tables, directory
<1>3. CASE Await(r, "seedMember")
  <2>1. /\ HandlersOK' /\ Follows(r)
        /\ \A q \in Requests \ {r} : req'[q] = req[q]
    BY <1>2, <1>3, SeedAwaits DEF SeedPcs
  <2> QED
    BY <1>1, <2>1, QuietStep
<1> QED
  BY <1>1, <1>3, QuietFinish

LEMMA SeedMemberStep ==
  ASSUME IInv, NEW r \in Requests, SeedMember(r)
  PROVE  IInv'
<1>1. /\ Observe /\ Await(r, "seedRole")
      /\ members' = members \cup {<<Bootstrap, Platform>>}
      /\ UNCHANGED <<orgs, services, roles, perms, assigned, granted, live, tokens,
                     begun, events, ring, now, answered>>
  BY DEF SeedMember
<1>2. TypeOK'
  BY <1>1, AccessAssumption DEF IInv, TypeOK
<1>3. TablesGrow /\ AnsweredOK'
  BY <1>1, AnsweredKept DEF TablesGrow, Registered, IInv
<1>4. /\ HandlersOK' /\ Follows(r)
      /\ \A q \in Requests \ {r} : req'[q] = req[q]
  BY <1>1, <1>3, SeedAwaits DEF SeedPcs
<1> QED
  BY <1>1, <1>2, <1>3, <1>4, TablesStep

LEMMA SeedRoleStep ==
  ASSUME IInv, NEW r \in Requests, SeedRole(r)
  PROVE  IInv'
<1>1. /\ Observe /\ Finish(r)
      /\ assigned' = assigned \cup {<<BootstrapUser, Admin>>}
      /\ UNCHANGED <<directory, granted, live, tokens, begun, events, ring, now,
                     answered>>
  BY DEF SeedRole
<1>2. <<BootstrapUser, Admin>> \in Subjects \X Roles
  BY AccessAssumption DEF BootstrapUser, Admin, Subjects, Roles
<1>3. TypeOK'
  BY <1>1, <1>2 DEF IInv, TypeOK, directory
<1>4. TablesGrow /\ AnsweredOK'
  BY <1>1, AnsweredKept DEF TablesGrow, Registered, directory, IInv
<1>5. HandlersOK'
  BY <1>1, <1>4, HandlerFinishes DEF IInv
<1>6. Follows(r) /\ \A q \in Requests \ {r} : req'[q] = req[q]
  BY <1>1, FinishFollows DEF IInv
<1> QED
  BY <1>1, <1>3, <1>4, <1>5, <1>6, TablesStep

(***************************************************************************)
(* The guests.                                                             *)
(***************************************************************************)
LEMMA GuestStartStep ==
  ASSUME IInv, NEW r \in Requests, NEW c \in services, GuestStart(r, c)
  PROVE  IInv'
<1>1. PICK s : s = [Idle EXCEPT !.pc = "guestUser", !.row = c.org]
  OBVIOUS
<1>2. s = [pc |-> "guestUser", sub |-> Null, aud |-> Null, held |-> {},
           tok |-> Null, op |-> Null, row |-> c.org]
  BY <1>1 DEF Idle
<1>3. Shape(s) /\ s.pc = "guestUser" /\ s.row = c.org
  BY ONLY <1>2, ShapeOf
<1>4. Begin(r, s) /\ Observe
  BY <1>1 DEF GuestStart
<1>5. req' = [req EXCEPT ![r] = s] /\ req'[r] = s
  BY <1>4, BeginIs DEF IInv
<1>6. Quiet /\ services' = services
  BY DEF GuestStart, Event, Quiet, IInv, TypeOK, tables, directory
<1>7. c.guests /\ c.org \in Slugs
  BY DEF GuestStart, TakesGuests, IInv, TypeOK, Service
<1>8. s.pc \in Pcs /\ GrantOK(s) /\ GuestOK(s)
  BY <1>3, <1>7 DEF Pcs, GrantOK, GuestOK, GrantPcs
<1>9. RowOK(req[r])' /\ ManageOK(req[r])' /\ Follows(r)
  BY <1>3, <1>5, <1>6, <1>7 DEF RowOK, ManageOK, ManagePcs, GrantPcs, Follows
<1> QED
  BY <1>3, <1>4, <1>5, <1>6, <1>8, <1>9, QuietGoesOn

Identifies(r, pc, sub) == req' = [req EXCEPT ![r].pc = pc, ![r].sub = sub]

LEMMA SubExcept ==
  ASSUME NEW q, Shape(q), NEW pc, NEW sub, NEW s,
         s = [q EXCEPT !.pc = pc, !.sub = sub]
  PROVE  s = [pc |-> pc, sub |-> sub, aud |-> q.aud, held |-> q.held,
              tok |-> q.tok, op |-> q.op, row |-> q.row]
BY DEF Shape

LEMMA GuestUserStep ==
  ASSUME IInv, NEW r \in Requests, GuestUser(r)
  PROVE  IInv'
<1>1. PICK u \in Guests : /\ live' = live \cup {u}
                         /\ Identifies(r, "guestMember", <<"user", u>>)
  BY DEF GuestUser, Identifies
<1>2. /\ Observe /\ At(r, "guestUser")
      /\ UNCHANGED <<tables, tokens, begun, events, ring, now, answered>>
  BY DEF GuestUser
<1>3. /\ req' = [req EXCEPT ![r] = [req[r] EXCEPT !.pc = "guestMember",
                                                  !.sub = <<"user", u>>]]
      /\ Shape(req[r]) /\ GuestOK(req[r])
  BY <1>1 DEF Identifies, IInv, HandlersOK
<1>4. PICK s : s = [req[r] EXCEPT !.pc = "guestMember", !.sub = <<"user", u>>]
  OBVIOUS
<1>5. s = [pc |-> "guestMember", sub |-> <<"user", u>>, aud |-> req[r].aud,
           held |-> req[r].held, tok |-> req[r].tok, op |-> req[r].op,
           row |-> req[r].row]
  BY <1>3, <1>4, SubExcept
<1>6. /\ Shape(s) /\ s.pc = "guestMember" /\ s.sub = <<"user", u>>
      /\ s.row = req[r].row
  BY ONLY <1>5, ShapeOf
<1>7. req' = [req EXCEPT ![r] = s] /\ req'[r] = s
  BY <1>3, <1>4 DEF IInv, HandlersOK
<1>8. Quiet
  BY <1>1, <1>2, AccessAssumption DEF Quiet, IInv, TypeOK
<1>9. s.pc \in Pcs /\ GrantOK(s) /\ GuestOK(s)
  BY <1>2, <1>3, <1>6 DEF At, Pcs, GrantOK, GuestOK, GrantPcs
<1>10. RowOK(req[r])' /\ ManageOK(req[r])' /\ Follows(r)
  BY <1>2, <1>6, <1>7
  DEF At, RowOK, ManageOK, ManagePcs, GrantPcs, GuestPcs, Follows
<1> QED
  BY <1>2, <1>6, <1>7, <1>8, <1>9, <1>10, QuietGoesOn

LEMMA GuestMemberStep ==
  ASSUME IInv, NEW r \in Requests, GuestMember(r)
  PROVE  IInv'
<1>1. /\ Observe /\ At(r, "guestMember") /\ Finish(r)
      /\ members' = members \cup {<<req[r].sub[2], req[r].row>>}
      /\ UNCHANGED <<orgs, services, roles, perms, assigned, granted, live, tokens,
                     begun, events, ring, now, answered>>
  BY DEF GuestMember
<1>2. req[r].sub[2] \in Users /\ req[r].row \in Slugs
  BY <1>1, AccessAssumption DEF At, IInv, HandlersOK, GuestOK
<1>3. TypeOK'
  BY <1>1, <1>2 DEF IInv, TypeOK
<1>4. TablesGrow /\ AnsweredOK'
  BY <1>1, AnsweredKept DEF TablesGrow, Registered, IInv
<1>5. HandlersOK'
  BY <1>1, <1>4, HandlerFinishes DEF IInv
<1>6. Follows(r) /\ \A q \in Requests \ {r} : req'[q] = req[q]
  BY <1>1, FinishFollows DEF IInv
<1> QED
  BY <1>1, <1>3, <1>4, <1>5, <1>6, TablesStep

-----------------------------------------------------------------------------
(***************************************************************************)
(* What happens beside the handlers.                                       *)
(***************************************************************************)
LEMMA AllIdle ==
  ASSUME IInv, Observe, TypeOK', req' = [r \in Requests |-> Idle]
  PROVE  HandlersOK' /\ SinceOK'
<1>1. /\ Idle.pc = "idle" /\ Shape(Idle)
  BY ShapeOf DEF Idle
<1>2. \A r \in Requests : req'[r].pc = "idle" /\ Shape(req'[r])
  BY <1>1
<1>3. HandlersOK'
  BY <1>2 DEF HandlersOK, Pcs, GrantOK, GuestOK, RowOK, ManageOK, GrantPcs, ManagePcs
<1>4. SinceOK'
  BY <1>2 DEF SinceOK, SinceOf, GrantPcs, ManagePcs, GuestPcs
<1> QED
  BY <1>3, <1>4

LEMMA KeysStep ==
  ASSUME IInv, (\E k \in SigningKeys : RotateKeys(k)) \/ DropPrevious, Beside
  PROVE  IInv'
<1>1. /\ UNCHANGED <<tables, live, tokens, begun, now, answered>> /\ Observe
      /\ req' = [r \in Requests |-> Idle] /\ events' \in Nat
  BY DEF RotateKeys, DropPrevious, Beside, Event, IInv, TypeOK
<1>2. now \in Nat /\ TTL \in Nat /\ ring.setAt \in Nat /\ \A t \in tokens : t.exp \in Nat
  BY AccessAssumption DEF IInv, TypeOK, Token
<1>3. /\ ring'.active \in SigningKeys /\ ring'.previous \subseteq SigningKeys
      /\ ring'.setAt \in Nat
      /\ RingOK'
  <2>1. CASE \E k \in SigningKeys : RotateKeys(k)
    <3>1. PICK k \in SigningKeys :
            ring' = [active |-> k, previous |-> ring.previous \cup {ring.active},
                     setAt |-> now]
      BY <2>1 DEF RotateKeys
    <3>2. /\ ring'.active = k /\ ring'.setAt = now
          /\ ring'.previous = ring.previous \cup {ring.active}
      BY <3>1
    <3> QED
      BY <1>1, <1>2, <3>2 DEF IInv, TypeOK, RingOK
  <2>2. CASE DropPrevious
    <3>1. /\ ring' = [ring EXCEPT !.previous = {}] /\ now >= ring.setAt + TTL
      BY <2>2 DEF DropPrevious
    <3>2. ring'.active = ring.active /\ ring'.setAt = ring.setAt /\ ring'.previous = {}
      BY <3>1, <2>2 DEF IInv, TypeOK
    <3> QED
      BY <1>1, <1>2, <3>1, <3>2 DEF IInv, TypeOK, RingOK
  <2> QED
    BY <2>1, <2>2
<1>4. TypeOK'
  BY <1>1, <1>3 DEF IInv, TypeOK, tables, directory
<1>5. AnsweredOK'
  BY <1>1, AnsweredKept DEF IInv, Registered, tables, directory
<1> QED
  BY <1>1, <1>3, <1>4, <1>5, AllIdle, TokensKept, EverGrows DEF IInv

LEMMA DeleteUserStep ==
  ASSUME IInv, NEW u \in Users, DeleteUser(u), Beside
  PROVE  IInv'
<1>1. Quiet /\ Observe /\ UNCHANGED req
  BY DEF DeleteUser, Beside, Event, Quiet, IInv, TypeOK
<1>2. HandlersOK'
  BY <1>1, NoHandler DEF IInv, TablesGrow, Registered, Quiet, tables, directory
<1>3. PICK r : r \notin Requests
  BY NoSetContainsEverything
<1> QED
  BY <1>1, <1>2, <1>3, QuietStep

LEMMA PurgeStep ==
  ASSUME IInv, NEW u \in Users, PurgeMemberships(u) \/ PurgeRoles(u), Beside
  PROVE  IInv'
<1>1. /\ UNCHANGED <<orgs, services, roles, perms, granted, live, tokens, begun,
                     events, ring, now, req, answered>>
      /\ members' \subseteq members /\ assigned' \subseteq assigned /\ Observe
  BY DEF PurgeMemberships, PurgeRoles, Beside, directory
<1>2. TypeOK' /\ HandlersOK' /\ AnsweredOK'
  <2>1. TypeOK'
    BY <1>1 DEF IInv, TypeOK
  <2>2. TablesGrow /\ AnsweredOK'
    BY <1>1, AnsweredKept DEF IInv, TablesGrow, Registered
  <2> QED
    BY <1>1, <2>1, <2>2, NoHandler DEF IInv
<1>3. PICK r : r \notin Requests
  BY NoSetContainsEverything
<1> QED
  BY <1>1, <1>2, <1>3, TablesStep

LEMMA TickStep ==
  ASSUME IInv, Tick, Beside
  PROVE  IInv'
<1>1. /\ UNCHANGED <<tables, live, tokens, begun, events, ring, req, answered>>
      /\ Observe /\ now' = now + 1
  BY DEF Tick, Beside
<1>2. TypeOK' /\ HandlersOK' /\ AnsweredOK'
  BY <1>1, NoHandler, AnsweredKept
  DEF IInv, TypeOK, TablesGrow, Registered, tables, directory
<1>3. RingOK'
  BY <1>1, AccessAssumption DEF IInv, TypeOK, Token, RingOK
<1>4. PICK r : r \notin Requests
  BY NoSetContainsEverything
<1>5. SinceOK'
  BY <1>1, <1>2, <1>4, SinceKept DEF IInv
<1> QED
  BY <1>1, <1>2, <1>3, <1>5, TokensKept, EverGrows DEF IInv

LEMMA StutterStep ==
  ASSUME IInv, UNCHANGED vars
  PROVE  IInv'
<1> USE DEF IInv, vars, history
<1>1. TypeOK' /\ RingOK'
  BY DEF TypeOK, RingOK, tables, directory
<1>2. HandlersOK'
  BY NoHandler DEF TablesGrow, Registered, tables, directory
<1>5. EverOK' /\ TokensGiven'
  BY DEF EverOK, TokensGiven, Given, tables, directory
<1>6. ASSUME NEW r \in Requests PROVE SinceOf(req[r], since[r])'
  <2>1. SinceOf(req[r], since[r])
    BY DEF SinceOK
  <2> QED
    BY <2>1 DEF SinceOf, tables, directory
<1>3. EverOK' /\ TokensGiven' /\ SinceOK'
  BY <1>5, <1>6 DEF SinceOK
<1>4. AnsweredOK'
  BY AnsweredKept DEF Registered, tables, directory
<1> QED
  BY <1>1, <1>2, <1>3, <1>4

LEMMA NextIInv == IInv /\ [Next]_vars => IInv'
<1> SUFFICES ASSUME IInv, [Next]_vars PROVE IInv'
  OBVIOUS
<1>1. ASSUME NEW r \in Requests, Grant(r) PROVE IInv'
  BY <1>1, GrantUserStep, GrantClientStep, GrantMemberStep, GrantRolesStep,
     GrantKeysStep, CutShortStep DEF Grant
<1>2. ASSUME NEW r \in Requests, Manage(r) PROVE IInv'
  BY <1>2, AskStep, RouteStep, ReadParentStep, ReadNameStep, WriteStep, SeedStep,
     SeedGrantsStep, SeedUserStep, SeedMemberStep, SeedRoleStep, GuestStartStep,
     GuestUserStep, GuestMemberStep DEF Manage
<1>3. CASE Environment
  BY <1>3, KeysStep, DeleteUserStep, PurgeStep, TickStep DEF Environment
<1> QED
  BY <1>1, <1>2, <1>3, StutterStep DEF Next

LEMMA SpecIInv == Spec => []IInv
<1>1. Init => IInv
  BY InitIInv
<1>2. IInv /\ [Next]_vars => IInv'
  BY NextIInv
<1> QED
  BY <1>1, <1>2, PTL DEF Spec

-----------------------------------------------------------------------------
(***************************************************************************)
(* Every table, token and answer has its type.                             *)
(***************************************************************************)
THEOREM TypeCorrect == Spec => []TypeOK
<1>1. IInv => TypeOK
  BY DEF IInv
<1> QED
  BY <1>1, SpecIInv, PTL

(***************************************************************************)
(* No rotation of the signing key refuses a token before its expiry        *)
(* (verifyWithKeyRing).                                                    *)
(***************************************************************************)
THEOREM RotationUnnoticed == Spec => []LiveTokenVerifies
<1>1. IInv => LiveTokenVerifies
  BY AccessAssumption
  DEF IInv, TypeOK, Token, RingOK, LiveTokenVerifies, Verifies, KeyKnown
<1> QED
  BY <1>1, SpecIInv, PTL

(***************************************************************************)
(* At most one request is told that it created a name (createOrg,          *)
(* registerService, createRole, createPermission).                         *)
(***************************************************************************)
THEOREM NamesCreatedOnce == Spec => []CreatedOnce
<1>1. IInv => CreatedOnce
  BY DEF IInv, AnsweredOK, CreatedOnce
<1> QED
  BY <1>1, SpecIInv, PTL

(***************************************************************************)
(* A token's scope was held while it was being granted                     *)
(* (permissionsForUserInService, permissionsForClientInService).           *)
(***************************************************************************)
MintedRight ==
  \A t \in tokens' \ tokens : \E r \in Requests :
     /\ req'[r] # req[r] /\ req[r].sub = t.sub /\ req[r].aud = t.aud
     /\ \A key \in t.scope : \E role \in since[r].roles, p \in Perms :
          role[1] = t.aud /\ p[2] = key /\ <<role, p>> \in since[r].granted

LEMMA MintRight ==
  ASSUME NEW r \in Requests, NEW scope, Mint(r, scope),
         HandlersOK, req[r].pc # "idle",
         \A key \in scope : \E role \in since[r].roles, p \in Perms :
            role[1] = req[r].aud /\ p[2] = key /\ <<role, p>> \in since[r].granted
  PROVE  MintedRight
<1>1. req'[r] # req[r]
  BY DEF Mint, Finish, Idle, HandlersOK
<1> SUFFICES ASSUME NEW t \in tokens' \ tokens
             PROVE  /\ req[r].sub = t.sub /\ req[r].aud = t.aud /\ t.scope = scope
  BY <1>1 DEF MintedRight
<1>2. t = [sub |-> req[r].sub, aud |-> req[r].aud, scope |-> scope,
           exp |-> now + TTL, kid |-> ring.active]
  BY DEF Mint
<1> QED
  BY <1>2

LEMMA StepMintsRight == IInv /\ [Next]_vars => MintedRight
<1> SUFFICES ASSUME IInv, [Next]_vars PROVE MintedRight
  OBVIOUS
<1>1. ASSUME tokens' = tokens PROVE MintedRight
  BY <1>1 DEF MintedRight
<1>2. ASSUME NEW r \in Requests, GrantRoles(r) PROVE MintedRight
  <2>1. req[r].pc = "roles" /\ (Mint(r, {}) \/ tokens' = tokens)
    BY <1>2 DEF GrantRoles, At
  <2> QED
    BY <1>1, <2>1, MintRight DEF IInv
<1>3. ASSUME NEW r \in Requests, GrantKeys(r) PROVE MintedRight
  <2>1. Mint(r, KeysOf(req[r].held)) /\ At(r, "keys")
    BY <1>3 DEF GrantKeys
  <2>2. \A key \in KeysOf(req[r].held) : \E role \in since[r].roles, p \in Perms :
            role[1] = req[r].aud /\ p[2] = key /\ <<role, p>> \in since[r].granted
    BY <2>1, ReadKeys
  <2> QED
    BY <2>1, <2>2, MintRight DEF IInv, At
<1>4. ASSUME NEW r \in Requests, Grant(r) PROVE MintedRight
  <2>1. \/ GrantRoles(r) \/ GrantKeys(r) \/ tokens' = tokens
    BY <1>4 DEF Grant, GrantUser, GrantClient, GrantMember, CutShort
  <2> QED
    BY <1>1, <1>2, <1>3, <2>1
<1>5. ASSUME NEW r \in Requests, Manage(r) PROVE MintedRight
  <2>1. tokens' = tokens
    BY <1>5 DEF Manage, Ask, Present, Route, ReadParent, ReadName, Write, Seed,
                SeedGrants, SeedUser, SeedMember, SeedRole, GuestStart, GuestUser,
                GuestMember
  <2> QED
    BY <1>1, <2>1
<1>6. CASE Environment
  BY <1>1, <1>6 DEF Environment, RotateKeys, DropPrevious, DeleteUser,
                   PurgeMemberships, PurgeRoles, Tick
<1>7. CASE UNCHANGED vars
  BY <1>1, <1>7 DEF vars
<1> QED
  BY <1>4, <1>5, <1>6, <1>7 DEF Next

THEOREM RevokedKeysNotMinted == Spec => RevokedIsNotMinted
<1>1. IInv /\ [Next]_vars => [MintedRight]_vars
  BY StepMintsRight
<1> QED
  BY <1>1, SpecIInv, PTL DEF Spec, RevokedIsNotMinted, MintedRight

(***************************************************************************)
(* Whoever changes the tables was given the permission of the route        *)
(* (requireAuth, requirePlatform, requirePermission, admin.routes.ts).     *)
(***************************************************************************)
ActedRight ==
  tables' # tables =>
    \/ \E r \in Requests : Seeded(r) \/ Permitted(r) \/ Welcomed(r)
    \/ Erased

LEMMA WriterGiven ==
  ASSUME IInv, NEW r \in Requests, Write(r)
  PROVE  Permitted(r)
<1>1. At(r, "write") /\ Finish(r)
  BY DEF Write
<1>2. req'[r] = Idle /\ Idle.pc = "idle" /\ req[r].pc = "write"
  BY <1>1 DEF Finish, Idle, At, IInv, HandlersOK
<1>3. ManageOK(req[r]) /\ SinceOf(req[r], since[r])
  BY DEF IInv, HandlersOK, SinceOK
<1>4. /\ req[r].tok \in tokens /\ req[r].sub = req[r].tok.sub
      /\ HasPermission(req[r].tok, Needs[req[r].op]) /\ since[r].admitted
  BY <1>2, <1>3 DEF ManageOK, SinceOf, ManagePcs
<1>5. Given(req[r].sub, Needs[req[r].op])
  BY <1>4 DEF HasPermission, IInv, TokensGiven
<1> QED
  BY <1>1, <1>2, <1>4, <1>5 DEF Permitted

LEMMA GuestWelcomed ==
  ASSUME IInv, NEW r \in Requests, GuestMember(r)
  PROVE  Welcomed(r)
<1>1. /\ At(r, "guestMember")
      /\ members' = members \cup {<<req[r].sub[2], req[r].row>>}
      /\ UNCHANGED <<orgs, services, roles, perms, assigned, granted>>
  BY DEF GuestMember
<1>2. GuestOK(req[r]) /\ SinceOf(req[r], since[r])
  BY DEF IInv, HandlersOK, SinceOK
<1>3. req[r].sub[2] \in Guests /\ since[r].admitted
  BY <1>1, <1>2 DEF At, GuestOK, SinceOf, GuestPcs
<1> QED
  BY <1>1, <1>3 DEF Welcomed

LEMMA PurgeErases ==
  ASSUME NEW u \in Users, PurgeMemberships(u) \/ PurgeRoles(u)
  PROVE  Erased
<1>1. u \in Users \ live /\ UNCHANGED <<orgs, services, roles, perms, granted>>
  BY DEF PurgeMemberships, PurgeRoles, Purgeable, directory
<1>2. CASE PurgeMemberships(u)
  <2>1. members' = {m \in members : m[1] # u} /\ assigned' = assigned
    BY <1>2 DEF PurgeMemberships
  <2> QED
    BY <1>1, <2>1 DEF Erased
<1>3. CASE PurgeRoles(u)
  <2>1. assigned' = {a \in assigned : a[1] # <<"user", u>>} /\ members' = members
    BY <1>3 DEF PurgeRoles, directory
  <2> QED
    BY <1>1, <2>1 DEF Erased
<1> QED
  BY <1>2, <1>3

LEMMA StepActsRight == IInv /\ [Next]_vars => ActedRight
<1> SUFFICES ASSUME IInv, [Next]_vars, tables' # tables
             PROVE  \/ \E r \in Requests :
                         Seeded(r) \/ Permitted(r) \/ Welcomed(r)
                    \/ Erased
  BY DEF ActedRight
<1>1. ASSUME NEW r \in Requests, Grant(r) PROVE FALSE
  BY <1>1 DEF Grant, GrantUser, GrantClient, GrantMember, GrantRoles, GrantKeys,
              CutShort
<1>2. ASSUME NEW r \in Requests, Manage(r)
      PROVE  Write(r) \/ GuestMember(r) \/ Seeded(r)
  <2>1. ASSUME SeedGrants(r) PROVE Seeded(r)
    BY <2>1 DEF SeedGrants, Seeded
  <2>2. ASSUME SeedMember(r) \/ SeedRole(r) PROVE Seeded(r)
    BY <2>2 DEF SeedMember, SeedRole, Seeded
  <2>. QED
    BY <1>2, <2>1, <2>2
    DEF Manage, Ask, Present, Route, ReadParent, ReadName, Seed, SeedUser,
        GuestStart, GuestUser
<1>3. CASE Environment
  <2>1. \E u \in Users : PurgeMemberships(u) \/ PurgeRoles(u)
    BY <1>3 DEF Environment, RotateKeys, DropPrevious, DeleteUser, Tick
  <2> QED
    BY <2>1, PurgeErases
<1>4. CASE UNCHANGED vars
  BY <1>4 DEF vars
<1> QED
  BY <1>1, <1>2, <1>3, <1>4, WriterGiven, GuestWelcomed DEF Next, At

THEOREM OnlyTheGivenAct == Spec => OnlyGivenAct
<1>1. IInv /\ [Next]_vars => [ActedRight]_vars
  BY StepActsRight
<1> QED
  BY <1>1, SpecIInv, PTL DEF Spec, OnlyGivenAct, ActedRight
=============================================================================
