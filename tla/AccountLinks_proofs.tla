------------------------ MODULE AccountLinks_proofs ------------------------
(***************************************************************************)
(* Proofs about AccountLinks, for any users, addresses, links, handlers    *)
(* and events.                                                             *)
(***************************************************************************)
EXTENDS AccountLinks, TLAPS

(***************************************************************************)
(* The statements of a handler that opened a link.                         *)
(***************************************************************************)
Holding == Acting \cup {"user", "holder", "consume", "changed", "resetLinks"}

(***************************************************************************)
(* What a handler remembers: a user, an address and, once it opened a      *)
(* link, one that is there.                                                *)
(***************************************************************************)
HandlerOK(h) ==
  /\ h.pc # "idle" => h.user \in Users /\ h.email \in Addresses
  /\ h.pc \in {"askHolder", "insert"} => h.sentTo \in Addresses
  /\ h.pc \in Holding => h.link \in LinkIds /\ links[h.link].st = "row"

LinkOK(link) ==
  /\ link.st = "row" => /\ link.user \in Users /\ link.email \in Addresses
                        /\ link.sentTo \in Addresses
  /\ link.st = "free" => link.user = Null /\ ~link.consumed

Bound ==
  /\ \A r \in Requests : HandlerOK(req[r])
  /\ \A k \in LinkIds : LinkOK(links[k])

(***************************************************************************)
(* No step deletes a link, alters what it is for, or makes a used one      *)
(* usable again.                                                           *)
(***************************************************************************)
SameMail(new, old) ==
  /\ new.user = old.user /\ new.purpose = old.purpose
  /\ new.email = old.email /\ new.sentTo = old.sentTo

LinksKept ==
  \A k \in LinkIds : links[k].st = "row" =>
    /\ links'[k].st = "row" /\ SameMail(links'[k], links[k])
    /\ links[k].consumed => links'[k].consumed

Others(r) == \A q \in Requests \ {r} : req'[q] = req[q]

-----------------------------------------------------------------------------
(***************************************************************************)
(* The steps of a handler.                                                 *)
(***************************************************************************)
LEMMA IdleType == Idle \in Request
BY DEF Idle, Request, Pcs, Purposes

(* A handler that ends leaves the others alone.                            *)
LEMMA Finished ==
  ASSUME TypeOK, NEW r \in Requests, Finish(r)
  PROVE  req' \in [Requests -> Request] /\ req'[r] = Idle /\ Others(r)
BY IdleType DEF TypeOK, Finish, Others

(* A handler that awaits its next statement remembers what it did.         *)
LEMMA Awaited ==
  ASSUME TypeOK, NEW r \in Requests, NEW pc \in Pcs, Await(r, pc)
  PROVE  /\ req' \in [Requests -> Request]
         /\ req'[r] = [req[r] EXCEPT !.pc = pc]
         /\ Others(r)
<1>1. [req[r] EXCEPT !.pc = pc] \in Request
  BY DEF TypeOK, Request
<1>. QED
  BY <1>1 DEF TypeOK, Await, Others

(* A handler that begins was idle.                                         *)
LEMMA Begun ==
  ASSUME TypeOK, NEW r \in Requests, NEW h \in Request, Begin(r, h)
  PROVE  req' \in [Requests -> Request] /\ req'[r] = h /\ Others(r)
BY DEF TypeOK, Begin, Others

(* The types and what handlers remember, from what a step writes.          *)
LEMMA BoundKept ==
  ASSUME TypeOK, Bound, LinksKept, NEW r \in Requests,
         Others(r), HandlerOK(req[r])',
         \A k \in LinkIds : LinkOK(links[k])'
  PROVE  Bound'
<1>1. ASSUME NEW q \in Requests \ {r} PROVE HandlerOK(req[q])'
  BY <1>1 DEF Others, Bound, HandlerOK, LinksKept
<1>. QED
  BY <1>1 DEF Bound

(* No link is touched.                                                     *)
LEMMA LinksUntouched ==
  ASSUME TypeOK, Bound, links' = links
  PROVE  LinksKept /\ \A k \in LinkIds : LinkOK(links[k])'
BY DEF LinksKept, SameMail, Bound, LinkOK

(***************************************************************************)
(* What handlers remember after a step, if links are kept.                 *)
(***************************************************************************)
LinksFine == LinksKept /\ \A k \in LinkIds : LinkOK(links[k])'

LEMMA FinishBound ==
  ASSUME TypeOK, Bound, NEW r \in Requests, Finish(r), LinksFine
  PROVE  Bound'
<1>1. HandlerOK(req[r])'
  BY Finished DEF HandlerOK, Idle, Holding, Acting
<1>. QED
  BY <1>1, Finished, BoundKept DEF LinksFine

LEMMA AwaitBound ==
  ASSUME TypeOK, Bound, NEW r \in Requests, NEW pc \in Pcs, Await(r, pc),
         LinksFine, ~At(r, "idle"),
         pc = "insert" => At(r, "askHolder"),
         pc # "askHolder",
         pc \in Holding => req[r].pc \in Holding
  PROVE  Bound'
<1>1. req'[r] = [req[r] EXCEPT !.pc = pc] /\ req[r] \in Request /\ Others(r)
  BY Awaited DEF TypeOK
<1>2. /\ req'[r].pc = pc /\ req'[r].link = req[r].link
      /\ req'[r].user = req[r].user /\ req'[r].email = req[r].email
      /\ req'[r].sentTo = req[r].sentTo
  BY <1>1 DEF Request
<1>3. HandlerOK(req[r])
  BY DEF Bound
<1>4. HandlerOK(req[r])'
  BY <1>2, <1>3 DEF HandlerOK, At, LinksFine, LinksKept
<1>. QED
  BY <1>1, <1>4, BoundKept DEF LinksFine

LEMMA BeginBound ==
  ASSUME TypeOK, Bound, NEW r \in Requests, NEW h \in Request, Begin(r, h),
         links' = links, HandlerOK(h)
  PROVE  Bound' /\ LinksKept
<1>1. HandlerOK(req[r])'
  BY Begun DEF HandlerOK
<1>. QED
  BY <1>1, Begun, LinksUntouched, BoundKept

-----------------------------------------------------------------------------
(***************************************************************************)
(* Types.                                                                  *)
(***************************************************************************)
Typed == TypeOK /\ Bound

LEMMA TypedInit == Init => Typed
BY LinksAssumption, IdleType
DEF Init, Typed, TypeOK, Bound, HandlerOK, LinkOK, User, Link, NoLink,
    Idle, Purposes, Holding, Acting

(***************************************************************************)
(* What the handlers are that begin.                                       *)
(***************************************************************************)
LEMMA IdleFields ==
  Idle \in Request /\ Idle.link = Null /\ Idle.purpose = "verify_email"
BY IdleType DEF Idle

LEMMA Mailing ==
  ASSUME NEW pc \in {"insert", "askHolder"}, NEW u \in Users,
         NEW purpose \in Purposes, NEW a \in Addresses, NEW mail \in Addresses
  PROVE  LET h == [Idle EXCEPT !.pc = pc, !.user = u, !.purpose = purpose,
                               !.email = a, !.sentTo = mail]
         IN  /\ h \in Request /\ HandlerOK(h)
             /\ h.pc = pc /\ h.purpose = purpose /\ h.link = Null
BY IdleFields DEF Request, Pcs, HandlerOK, Holding, Acting

LEMMA Updating ==
  ASSUME NEW u \in Users, NEW a \in Addresses, NEW un \in BOOLEAN
  PROVE  LET h == [Idle EXCEPT !.pc = "updateHolder", !.user = u,
                               !.email = a, !.unverify = un]
         IN  h \in Request /\ HandlerOK(h) /\ h.pc = "updateHolder"
BY IdleFields DEF Request, Pcs, HandlerOK, Holding, Acting

(* Any request begins.                                                     *)
LEMMA AskTyped ==
  ASSUME Typed, NEW r \in Requests, Ask(r)
  PROVE  Typed' /\ LinksKept
<1>. USE DEF Typed
<1>. DEFINE mailing(pc, u, purpose, a, mail) ==
              [Idle EXCEPT !.pc = pc, !.user = u, !.purpose = purpose,
                           !.email = a, !.sentTo = mail]
<1>1. ASSUME NEW pc \in {"insert", "askHolder"}, NEW u \in Users,
             NEW purpose \in Purposes, NEW a \in Addresses,
             NEW mail \in Addresses, links' = links,
             Begin(r, mailing(pc, u, purpose, a, mail))
      PROVE  Bound' /\ LinksKept /\ req' \in [Requests -> Request]
  <2>1. /\ mailing(pc, u, purpose, a, mail) \in Request
        /\ HandlerOK(mailing(pc, u, purpose, a, mail))
    BY Mailing
  <2>. HIDE DEF mailing
  <2>. QED
    BY <1>1, <2>1, Begun, BeginBound
<1>2. ASSUME NEW u \in Users, NEW a \in Addresses, Register(r, u, a)
      PROVE  Typed' /\ LinksKept
  <2>1. users' \in [Users -> User]
    BY <1>2 DEF Register, TypeOK, User
  <2>2. Bound' /\ LinksKept /\ req' \in [Requests -> Request]
    BY <1>1, <1>2 DEF Register, Purposes
  <2>. QED
    BY <1>2, <2>1, <2>2 DEF Register, TypeOK, hist
<1>3. ASSUME NEW u \in Users, NEW a \in Addresses, AskChange(r, u, a)
      PROVE  Typed' /\ LinksKept
  <2>1. users[u].email \in Addresses
    BY <1>3 DEF AskChange, TypeOK, User
  <2>2. Bound' /\ LinksKept /\ req' \in [Requests -> Request]
    BY <1>1, <1>3, <2>1 DEF AskChange, Purposes
  <2>. QED
    BY <1>3, <2>2 DEF AskChange, TypeOK, hist
<1>4. ASSUME NEW u \in Users, NEW purpose \in Purposes, AskLink(r, u, purpose)
      PROVE  Typed' /\ LinksKept
  <2>1. users[u].email \in Addresses
    BY <1>4 DEF AskLink, TypeOK, User
  <2>2. Bound' /\ LinksKept /\ req' \in [Requests -> Request]
    BY <1>1, <1>4, <2>1 DEF AskLink
  <2>. QED
    BY <1>4, <2>2 DEF AskLink, TypeOK, hist
<1>5. ASSUME NEW u \in Users, NEW a \in Addresses, OperatorUpdate(r, u, a)
      PROVE  Typed' /\ LinksKept
  <2>. DEFINE h == [Idle EXCEPT !.pc = "updateHolder", !.user = u,
                                !.email = a, !.unverify = a # users[u].email]
  <2>1. h \in Request /\ HandlerOK(h)
    BY Updating
  <2>2. Begin(r, h) /\ UNCHANGED <<users, links, hist>>
    BY <1>5 DEF OperatorUpdate
  <2>. HIDE DEF h
  <2>3. Bound' /\ LinksKept /\ req' \in [Requests -> Request]
    BY <2>1, <2>2, Begun, BeginBound
  <2>. QED
    BY <2>2, <2>3 DEF TypeOK, hist
<1>6. ASSUME NEW k \in LinkIds, OpenLink(r, k) PROVE Typed' /\ LinksKept
  <2>. DEFINE h == [Idle EXCEPT !.pc = "user", !.link = k,
                                !.user = links[k].user,
                                !.purpose = links[k].purpose,
                                !.email = links[k].email]
  <2>1. /\ links[k].user \in Users /\ links[k].email \in Addresses
        /\ links[k].sentTo \in Addresses
        /\ links[k].st = "row" /\ links[k].purpose \in Purposes
    BY <1>6 DEF OpenLink, TypeOK, Bound, LinkOK, Link
  <2>2. h \in Request /\ HandlerOK(h)
    BY <2>1, IdleFields DEF Request, Pcs, HandlerOK
  <2>3. Begin(r, h) /\ UNCHANGED <<users, links, acted, recovered>>
    BY <1>6 DEF OpenLink
  <2>4. proved' \subseteq Users \X Addresses
    BY <1>6, <2>1 DEF OpenLink, TypeOK
  <2>. HIDE DEF h
  <2>5. Bound' /\ LinksKept /\ req' \in [Requests -> Request]
    BY <2>2, <2>3, Begun, BeginBound
  <2>. QED
    BY <2>3, <2>4, <2>5 DEF TypeOK
<1>. QED
  BY <1>2, <1>3, <1>4, <1>5, <1>6 DEF Ask

(* A link is mailed: its row is new.                                       *)
LEMMA InsertTyped ==
  ASSUME Typed, NEW r \in Requests, InsertLink(r)
  PROVE  Typed' /\ LinksKept
<1>. USE DEF Typed
<1>1. /\ req[r].user \in Users /\ req[r].email \in Addresses
      /\ req[r].sentTo \in Addresses /\ req[r].purpose \in Purposes
  BY DEF InsertLink, At, Bound, HandlerOK, TypeOK, Request
<1>. DEFINE link == [st |-> "row", user |-> req[r].user,
                     purpose |-> req[r].purpose, email |-> req[r].email,
                     sentTo |-> req[r].sentTo, consumed |-> FALSE,
                     fresh |-> TRUE]
<1>2. PICK k \in LinkIds :
        links[k].st = "free" /\ links' = [links EXCEPT ![k] = link]
  BY DEF InsertLink
<1>3. link \in Link /\ LinkOK(link)
  BY <1>1 DEF Link, LinkOK
<1>. HIDE DEF link
<1>4. links' \in [LinkIds -> Link] /\ LinksKept
  BY <1>2, <1>3 DEF TypeOK, LinksKept, SameMail
<1>5. \A l \in LinkIds : LinkOK(links[l])'
  BY <1>2, <1>3 DEF TypeOK, Bound, LinkOK
<1>6. req' \in [Requests -> Request] /\ req'[r] = Idle /\ Others(r)
  BY Finished DEF InsertLink
<1>7. HandlerOK(req[r])'
  BY <1>6 DEF HandlerOK, Idle, Holding, Acting
<1>8. Bound'
  BY <1>4, <1>5, <1>6, <1>7, BoundKept
<1>. QED
  BY <1>4, <1>6, <1>8 DEF InsertLink, TypeOK, hist

(* A used link stays.                                                      *)
LEMMA UseKeeps ==
  ASSUME Typed,
         \A k \in LinkIds : \/ links'[k] = links[k]
                            \/ /\ links[k].st = "row"
                               /\ links'[k] = [links[k] EXCEPT !.consumed = TRUE]
                            \/ links'[k] = [links[k] EXCEPT !.fresh = FALSE],
         links' = [k \in LinkIds |-> links'[k]]
  PROVE  links' \in [LinkIds -> Link] /\ LinksFine
<1>1. ASSUME NEW k \in LinkIds
      PROVE  /\ links'[k] \in Link /\ links'[k].st = links[k].st
             /\ SameMail(links'[k], links[k])
             /\ links[k].consumed => links'[k].consumed
             /\ links[k].st = "free" => links'[k].consumed = links[k].consumed
  <2>1. links[k] \in Link
    BY DEF Typed, TypeOK
  <2>2. CASE links'[k] = links[k]
    BY <2>1, <2>2 DEF SameMail
  <2>3. CASE /\ links[k].st = "row"
             /\ links'[k] = [links[k] EXCEPT !.consumed = TRUE]
    BY <2>1, <2>3 DEF Link, SameMail
  <2>4. CASE links'[k] = [links[k] EXCEPT !.fresh = FALSE]
    BY <2>1, <2>4 DEF Link, SameMail
  <2>. QED
    BY <2>2, <2>3, <2>4
<1>2. links' \in [LinkIds -> Link]
  BY <1>1
<1>3. LinksKept
  BY <1>1 DEF LinksKept
<1>4. \A k \in LinkIds : LinkOK(links[k])'
  BY <1>1 DEF Typed, Bound, LinkOK, SameMail
<1>. QED
  BY <1>2, <1>3, <1>4 DEF LinksFine

LEMMA ConsumeKeeps ==
  ASSUME Typed, NEW u \in Users, ConsumeAllForUser(u)
  PROVE  links' \in [LinkIds -> Link] /\ LinksFine
<1>1. ASSUME NEW k \in LinkIds, k \in Ended(u) PROVE links[k].st = "row"
  BY <1>1, LinksAssumption
  DEF Ended, Typed, TypeOK, Bound, LinkOK, Link
<1>. QED
  BY <1>1, UseKeeps DEF ConsumeAllForUser

LEMMA ConsumeOneKeeps ==
  ASSUME Typed, NEW k \in LinkIds,
         links[k].st = "row", links' = [links EXCEPT ![k].consumed = TRUE]
  PROVE  links' \in [LinkIds -> Link] /\ LinksFine
BY UseKeeps DEF Typed, TypeOK

(* Any handler goes on.                                                    *)
LEMMA ContinueTyped ==
  ASSUME Typed, NEW r \in Requests, Continue(r)
  PROVE  Typed' /\ LinksKept
<1>. USE DEF Typed
<1>1. req[r] \in Request
  BY DEF TypeOK
<1>2. ASSUME Finish(r), links' = links
      PROVE  req' \in [Requests -> Request] /\ Bound' /\ LinksKept
  BY <1>2, Finished, FinishBound, LinksUntouched DEF LinksFine
<1>3. ASSUME NEW pc \in Pcs, Await(r, pc), links' = links, ~At(r, "idle"),
             pc = "insert" => At(r, "askHolder"), pc # "askHolder",
             pc \in Holding => req[r].pc \in Holding
      PROVE  req' \in [Requests -> Request] /\ Bound' /\ LinksKept
  BY <1>3, Awaited, AwaitBound, LinksUntouched DEF LinksFine
<1>4. CASE AskHolder(r)
  BY <1>2, <1>3, <1>4 DEF AskHolder, At, Pcs, Holding, Acting, TypeOK, hist
<1>5. CASE InsertLink(r)
  BY <1>5, InsertTyped
<1>6. CASE ReadUser(r)
  BY <1>2, <1>3, <1>6 DEF ReadUser, At, Pcs, Holding, Acting, TypeOK, hist
<1>7. CASE ReadHolder(r)
  BY <1>2, <1>3, <1>7 DEF ReadHolder, At, Pcs, Holding, Acting, TypeOK, hist
<1>8. CASE Consume(r)
  <2>1. CASE Unconsumed(req[r].link)
    <3>. DEFINE pc == Effect(req[r].purpose)
    <3>1. pc \in Acting /\ pc \in Pcs
      BY <1>1 DEF Effect, Request, Purposes, Acting, Pcs
    <3>2. req[r].link \in LinkIds /\ ~At(r, "idle") /\ req[r].pc \in Holding
      BY <1>8 DEF Consume, At, Bound, HandlerOK, Holding
    <3>3. links' \in [LinkIds -> Link] /\ LinksFine
      BY <1>8, <2>1, <3>2, ConsumeOneKeeps DEF Consume, Unconsumed
    <3>4. Await(r, pc)
      BY <1>8, <2>1 DEF Consume
    <3>. HIDE DEF pc
    <3>5. Bound'
      BY <3>1, <3>2, <3>3, <3>4, AwaitBound DEF Holding, Acting
    <3>6. req' \in [Requests -> Request]
      BY <3>1, <3>4, Awaited
    <3>. QED
      BY <1>8, <3>3, <3>5, <3>6 DEF Consume, TypeOK, hist, LinksFine
  <2>2. CASE ~Unconsumed(req[r].link)
    BY <1>2, <1>8, <2>2 DEF Consume, TypeOK, hist
  <2>. QED
    BY <2>1, <2>2
<1>9. /\ users \in [Users -> User] /\ acted \in [LinkIds -> Nat]
      /\ \A u \in Users : users[u] \in User
  BY DEF TypeOK
<1>10. Acted(r) => acted' \in [LinkIds -> Nat]
  <2>1. \A k \in LinkIds : acted[k] + 1 \in Nat
    BY <1>9
  <2>. QED
    BY <1>9, <2>1 DEF Acted
<1>11. ASSUME users' = [users EXCEPT ![req[r].user].verified = TRUE],
              ~At(r, "idle")
       PROVE  users' \in [Users -> User]
  <2>. DEFINE x == [users[req[r].user] EXCEPT !.verified = TRUE]
  <2>1. req[r].user \in Users
    BY <1>11 DEF At, Bound, HandlerOK
  <2>2. x \in User
    BY <1>9, <2>1 DEF User
  <2>3. users' = [users EXCEPT ![req[r].user] = x]
    BY <1>11
  <2>. HIDE DEF x
  <2>. QED
    BY <1>9, <2>2, <2>3
<1>12. CASE MarkVerified(r)
  <2>1. users' \in [Users -> User]
    BY <1>9, <1>11, <1>12 DEF MarkVerified, At
  <2>. QED
    BY <1>2, <1>9, <1>10, <1>12, <2>1 DEF MarkVerified, TypeOK
<1>13. CASE ChangeAddress(r)
  <2>1. req[r].email \in Addresses
    BY <1>13 DEF ChangeAddress, At, Bound, HandlerOK
  <2>2. users' \in [Users -> User]
    BY <1>9, <1>13, <2>1 DEF ChangeAddress, User
  <2>3. acted' \in [LinkIds -> Nat]
    BY <1>9, <1>10, <1>13 DEF ChangeAddress
  <2>4. req' \in [Requests -> Request] /\ Bound' /\ LinksKept
    BY <1>2, <1>3, <1>13 DEF ChangeAddress, At, Pcs, Holding, Acting
  <2>. QED
    BY <1>13, <2>2, <2>3, <2>4 DEF ChangeAddress, TypeOK
<1>14. CASE Changed(r)
  <2>1. CASE Live(req[r].user)
    <3>. DEFINE h == [Idle EXCEPT !.pc = "insert", !.user = req[r].user,
                                  !.email = req[r].email,
                                  !.sentTo = req[r].email]
    <3>1. req[r].user \in Users /\ req[r].email \in Addresses
      BY <1>14 DEF Changed, At, Bound, HandlerOK
    <3>2. /\ h \in Request /\ h.pc = "insert"
          /\ h.user \in Users /\ h.email \in Addresses /\ h.sentTo \in Addresses
      BY <3>1, IdleFields DEF Request, Pcs
    <3>3. req' = [req EXCEPT ![r] = h] /\ UNCHANGED <<users, links, hist>>
      BY <1>14, <2>1 DEF Changed
    <3>. HIDE DEF h
    <3>4. req' \in [Requests -> Request] /\ req'[r] = h /\ Others(r)
      BY <3>2, <3>3 DEF TypeOK, Others
    <3>5. HandlerOK(req[r])'
      BY <3>2, <3>4 DEF HandlerOK, Holding, Acting
    <3>6. Bound' /\ LinksKept
      BY <3>3, <3>4, <3>5, BoundKept, LinksUntouched
    <3>. QED
      BY <3>3, <3>4, <3>6 DEF TypeOK, hist
  <2>2. CASE ~Live(req[r].user)
    BY <1>2, <1>14, <2>2 DEF Changed, TypeOK, hist
  <2>. QED
    BY <2>1, <2>2
<1>15. CASE DeleteAccount(r)
  <2>1. users' \in [Users -> User]
    BY <1>9, <1>15 DEF DeleteAccount, User
  <2>. QED
    BY <1>2, <1>10, <1>15, <2>1 DEF DeleteAccount, TypeOK
<1>16. CASE ResetWrite(r)
  <2>1. users' \in [Users -> User]
    <3>1. users' = [users EXCEPT ![req[r].user].verified = TRUE]
      BY <1>16 DEF ResetWrite
    <3>. QED
      BY <1>11, <1>16, <3>1 DEF ResetWrite, At
  <2>2. req' \in [Requests -> Request] /\ Bound' /\ LinksKept
    BY <1>3, <1>16 DEF ResetWrite, At, Pcs, Holding, Acting
  <2>. QED
    BY <1>10, <1>16, <2>1, <2>2 DEF ResetWrite, TypeOK
<1>17. CASE ResetLinks(r)
  <2>1. links' \in [LinkIds -> Link] /\ LinksFine
    BY <1>17, ConsumeKeeps DEF ResetLinks, At, Bound, HandlerOK
  <2>2. recovered' \subseteq LinkIds
    BY <1>17 DEF ResetLinks, ConsumeAllForUser, TypeOK
  <2>3. req' \in [Requests -> Request] /\ Bound'
    BY <1>17, <2>1, Finished, FinishBound DEF ResetLinks
  <2>. QED
    BY <1>17, <2>1, <2>2, <2>3 DEF ResetLinks, TypeOK, LinksFine
<1>18. CASE UpdateHolder(r)
  BY <1>2, <1>3, <1>18 DEF UpdateHolder, At, Pcs, Holding, Acting, TypeOK, hist
<1>19. CASE UpdateWrite(r)
  <2>1. req[r].email \in Addresses
    BY <1>19 DEF UpdateWrite, At, Bound, HandlerOK
  <2>2. users' \in [Users -> User]
    <3>. DEFINE u == req[r].user
                e == req[r].email
                v == users[u].verified /\ ~req[r].unverify
                x == [users[u] EXCEPT !.email = e, !.verified = v]
    <3>1. v \in BOOLEAN
      OBVIOUS
    <3>2. u \in Users
      BY <1>19 DEF UpdateWrite, At, Bound, HandlerOK
    <3>. HIDE DEF v
    <3>3. x \in User
      BY <1>9, <2>1, <3>1, <3>2 DEF User
    <3>4. users' = users \/ users' = [users EXCEPT ![u] = x]
      BY <1>19 DEF UpdateWrite, v
    <3>. HIDE DEF x, u
    <3>. QED
      BY <1>9, <3>2, <3>3, <3>4
  <2>. QED
    BY <1>2, <1>19, <2>2 DEF UpdateWrite, TypeOK, hist
<1>. QED
  BY <1>4, <1>5, <1>6, <1>7, <1>8, <1>12, <1>13, <1>14, <1>15, <1>16, <1>17,
     <1>18, <1>19 DEF Continue

(* Every step of the system.                                               *)
LEMMA TypedStep ==
  ASSUME Typed, [Next]_vars PROVE Typed' /\ LinksKept
<1>. USE DEF Typed
<1>1. ASSUME NEW r \in Requests, CutShort(r) PROVE Typed' /\ LinksKept
  BY <1>1, Finished, FinishBound, LinksUntouched
  DEF CutShort, TypeOK, hist, LinksFine
<1>2. ASSUME LinksFine, req' = req PROVE Bound'
  BY <1>2 DEF LinksFine, LinksKept, Bound, HandlerOK
<1>3. ASSUME NEW u \in Users, CreateGuest(u) \/ Remove(u)
      PROVE  Typed' /\ LinksKept
  <2>1. users' \in [Users -> User]
    BY <1>3 DEF CreateGuest, Remove, TypeOK, User
  <2>. QED
    BY <1>2, <1>3, <2>1, LinksUntouched
    DEF CreateGuest, Remove, TypeOK, hist, LinksFine
<1>4. ASSUME NEW u \in Users, PasswordChanged(u) PROVE Typed' /\ LinksKept
  <2>1. links' \in [LinkIds -> Link] /\ LinksFine
    BY <1>4, ConsumeKeeps DEF PasswordChanged
  <2>2. recovered' \subseteq LinkIds
    BY <1>4 DEF PasswordChanged, ConsumeAllForUser, TypeOK
  <2>. QED
    BY <1>2, <1>4, <2>1, <2>2 DEF PasswordChanged, TypeOK, LinksFine
<1>5. ASSUME NEW k \in LinkIds, Expire(k) PROVE Typed' /\ LinksKept
  <2>1. links' \in [LinkIds -> Link] /\ LinksFine
    BY <1>5, UseKeeps DEF Expire, TypeOK
  <2>. QED
    BY <1>2, <1>5, <2>1 DEF Expire, TypeOK, hist, LinksFine
<1>6. CASE UNCHANGED vars
  BY <1>2, <1>6, LinksUntouched DEF vars, TypeOK, LinksFine
<1>. QED
  BY <1>1, <1>3, <1>4, <1>5, <1>6, AskTyped, ContinueTyped DEF Next

(***************************************************************************)
(* The tables, the handlers and the histories keep their types, and every  *)
(* handler's link is a row with a user and an address.                     *)
(***************************************************************************)
THEOREM LinksTyped == Spec => []TypeOK
<1>1. Typed => TypeOK
  BY DEF Typed
<1>. QED
  BY <1>1, TypedInit, TypedStep, PTL DEF Spec

LEMMA AlwaysTyped == Spec => []Typed
BY TypedInit, TypedStep, PTL DEF Spec

-----------------------------------------------------------------------------
(***************************************************************************)
(* How handlers move.                                                      *)
(***************************************************************************)
Ends(r) == req'[r] = Idle

(***************************************************************************)
(* The links whose effect is to verify the address they are about, which   *)
(* is the address they are mailed to.                                      *)
(***************************************************************************)
Verifying == {"verify_email", "password_reset"}

PromptOK(h) == h.purpose \in Verifying => h.sentTo = h.email

Opened(h) ==
  /\ h.link \in LinkIds /\ links[h.link].st = "row"
  /\ h.user = links[h.link].user /\ h.purpose = links[h.link].purpose
  /\ h.email = links[h.link].email
  /\ <<h.user, links[h.link].sentTo>> \in proved'

Begins(r) ==
  /\ At(r, "idle")
  /\ \/ req'[r].pc \in {"insert", "askHolder"} /\ PromptOK(req'[r])
     \/ req'[r].pc = "updateHolder"
     \/ req'[r].pc = "user" /\ Opened(req'[r])

SameData(r) ==
  /\ req'[r].link = req[r].link /\ req'[r].user = req[r].user
  /\ req'[r].purpose = req[r].purpose
  /\ req'[r].email = req[r].email /\ req'[r].sentTo = req[r].sentTo

Ways == {<<"askHolder", "insert">>, <<"user", "holder">>, <<"user", "consume">>,
         <<"holder", "consume">>, <<"updateHolder", "update">>,
         <<"change", "changed">>, <<"resetWrite", "resetLinks">>}

GoesOn(r) == SameData(r) /\ <<req[r].pc, req'[r].pc>> \in Ways

(* The link is used up by this handler.                                    *)
Wins(r) ==
  /\ SameData(r) /\ At(r, "consume") /\ Unconsumed(req[r].link)
  /\ req'[r].pc = Effect(req[r].purpose)
  /\ links'[req[r].link].consumed

MailsNew(r) ==
  /\ At(r, "changed") /\ req'[r].pc = "insert"
  /\ req'[r].purpose = "verify_email" /\ req'[r].sentTo = req'[r].email

Moves(r) ==
  /\ Others(r)
  /\ Ends(r) \/ Begins(r) \/ GoesOn(r) \/ Wins(r) \/ MailsNew(r)

(* A handler that began.                                                   *)
LEMMA AskMoves ==
  ASSUME Typed, NEW r \in Requests, Ask(r) PROVE Moves(r)
<1>. USE DEF Typed
<1>. DEFINE mailing(pc, u, purpose, a, mail) ==
              [Idle EXCEPT !.pc = pc, !.user = u, !.purpose = purpose,
                           !.email = a, !.sentTo = mail]
<1>1. ASSUME NEW pc \in {"insert", "askHolder"}, NEW u \in Users,
             NEW purpose \in Purposes, NEW a \in Addresses,
             NEW mail \in Addresses,
             Begin(r, mailing(pc, u, purpose, a, mail)),
             purpose \in Verifying => mail = a
      PROVE  Moves(r)
  <2>. DEFINE h == mailing(pc, u, purpose, a, mail)
  <2>1. /\ h \in Request /\ h.pc = pc /\ h.purpose = purpose
        /\ h.user = u /\ h.email = a /\ h.sentTo = mail
    BY IdleFields DEF Request, Pcs
  <2>. HIDE DEF h
  <2>3. PromptOK(h)
    BY <1>1, <2>1 DEF PromptOK
  <2>. HIDE DEF h
  <2>2. Others(r) /\ req'[r] = h /\ At(r, "idle")
    BY <1>1, <2>1, Begun DEF Begin, h
  <2>. QED
    BY <2>1, <2>2, <2>3 DEF Moves, Begins
<1>2. ASSUME NEW u \in Users, NEW a \in Addresses, Register(r, u, a)
      PROVE  Moves(r)
  BY <1>1, <1>2 DEF Register, Purposes, Verifying
<1>3. ASSUME NEW u \in Users, NEW a \in Addresses, AskChange(r, u, a)
      PROVE  Moves(r)
  <2>1. users[u].email \in Addresses
    BY <1>3 DEF AskChange, TypeOK, User
  <2>. QED
    BY <1>1, <1>3, <2>1 DEF AskChange, Purposes, Verifying
<1>4. ASSUME NEW u \in Users, NEW purpose \in Purposes, AskLink(r, u, purpose)
      PROVE  Moves(r)
  <2>1. users[u].email \in Addresses
    BY <1>4 DEF AskLink, TypeOK, User
  <2>. QED
    BY <1>1, <1>4, <2>1 DEF AskLink
<1>5. ASSUME NEW u \in Users, NEW a \in Addresses, OperatorUpdate(r, u, a)
      PROVE  Moves(r)
  <2>. DEFINE h == [Idle EXCEPT !.pc = "updateHolder", !.user = u,
                                !.email = a, !.unverify = a # users[u].email]
  <2>1. h \in Request /\ h.pc = "updateHolder"
    BY Updating
  <2>2. Begin(r, h)
    BY <1>5 DEF OperatorUpdate
  <2>. HIDE DEF h
  <2>. QED
    BY <2>1, <2>2, Begun DEF Moves, Begins, Begin
<1>6. ASSUME NEW k \in LinkIds, OpenLink(r, k) PROVE Moves(r)
  <2>. DEFINE h == [Idle EXCEPT !.pc = "user", !.link = k,
                                !.user = links[k].user,
                                !.purpose = links[k].purpose,
                                !.email = links[k].email]
  <2>1. /\ links[k].user \in Users /\ links[k].email \in Addresses
        /\ links[k].st = "row" /\ links[k].purpose \in Purposes
    BY <1>6 DEF OpenLink, TypeOK, Bound, LinkOK, Link
  <2>2. /\ h \in Request /\ h.pc = "user" /\ h.link = k
        /\ h.user = links[k].user /\ h.purpose = links[k].purpose
        /\ h.email = links[k].email
    BY <2>1, IdleFields DEF Request, Pcs
  <2>3. Begin(r, h) /\ <<links[k].user, links[k].sentTo>> \in proved'
    BY <1>6 DEF OpenLink
  <2>. HIDE DEF h
  <2>4. Opened(h)
    BY <2>1, <2>2, <2>3 DEF Opened
  <2>. QED
    BY <2>2, <2>3, <2>4, Begun DEF Moves, Begins, Begin
<1>. QED
  BY <1>2, <1>3, <1>4, <1>5, <1>6 DEF Ask

(* A handler that goes on.                                                 *)
LEMMA ContinueMoves ==
  ASSUME Typed, NEW r \in Requests, Continue(r) PROVE Moves(r)
<1>. USE DEF Typed
<1>1. req[r] \in Request
  BY DEF TypeOK
<1>2. Finish(r) => Moves(r)
  BY Finished DEF Moves, Ends
<1>3. ASSUME NEW pc \in Pcs, Await(r, pc)
      PROVE  SameData(r) /\ req'[r].pc = pc /\ Others(r)
  <2>1. req'[r] = [req[r] EXCEPT !.pc = pc] /\ Others(r)
    BY <1>3, Awaited
  <2>. QED
    BY <1>1, <2>1 DEF SameData, Request
<1>4. ASSUME NEW pc \in Pcs, Await(r, pc), <<req[r].pc, pc>> \in Ways
      PROVE  Moves(r)
  BY <1>3, <1>4 DEF Moves, GoesOn
<1>5. CASE AskHolder(r)
  BY <1>2, <1>4, <1>5 DEF AskHolder, At, Pcs, Ways
<1>6. CASE ReadUser(r)
  BY <1>2, <1>4, <1>6 DEF ReadUser, At, Pcs, Ways
<1>7. CASE ReadHolder(r)
  BY <1>2, <1>4, <1>7 DEF ReadHolder, At, Pcs, Ways
<1>8. CASE Consume(r)
  <2>1. CASE Unconsumed(req[r].link)
    <3>1. Effect(req[r].purpose) \in Pcs
      BY <1>1 DEF Effect, Request, Purposes, Pcs
    <3>2. Await(r, Effect(req[r].purpose))
      BY <1>8, <2>1 DEF Consume
    <3>3. req[r].link \in LinkIds
      BY <1>8 DEF Consume, At, Bound, HandlerOK, Holding
    <3>4. links[req[r].link] \in Link
      BY <3>3 DEF TypeOK
    <3>5. links'[req[r].link] = [links[req[r].link] EXCEPT !.consumed = TRUE]
      BY <1>8, <2>1, <3>3 DEF Consume, TypeOK
    <3>6. links'[req[r].link].consumed
      BY <3>4, <3>5 DEF Link
    <3>. QED
      BY <1>3, <1>8, <2>1, <3>1, <3>2, <3>6 DEF Moves, Wins, Consume
  <2>2. CASE ~Unconsumed(req[r].link)
    BY <1>2, <1>8, <2>2 DEF Consume
  <2>. QED
    BY <2>1, <2>2
<1>9. CASE ChangeAddress(r)
  BY <1>2, <1>4, <1>9 DEF ChangeAddress, At, Pcs, Ways
<1>10. CASE Changed(r)
  <2>1. CASE Live(req[r].user)
    <3>. DEFINE h == [Idle EXCEPT !.pc = "insert", !.user = req[r].user,
                                  !.email = req[r].email,
                                  !.sentTo = req[r].email]
    <3>1. req[r].user \in Users /\ req[r].email \in Addresses
      BY <1>10 DEF Changed, At, Bound, HandlerOK
    <3>2. /\ h.pc = "insert" /\ h.purpose = "verify_email"
          /\ h.sentTo = h.email
      BY <3>1, IdleFields DEF Request
    <3>3. req' = [req EXCEPT ![r] = h]
      BY <1>10, <2>1 DEF Changed
    <3>. HIDE DEF h
    <3>4. req'[r] = h /\ Others(r)
      BY <3>3 DEF TypeOK, Others
    <3>. QED
      BY <1>10, <3>2, <3>4 DEF Changed, Moves, MailsNew
  <2>2. CASE ~Live(req[r].user)
    BY <1>2, <1>10, <2>2 DEF Changed
  <2>. QED
    BY <2>1, <2>2
<1>11. CASE ResetWrite(r)
  BY <1>4, <1>11 DEF ResetWrite, At, Pcs, Ways
<1>12. CASE UpdateHolder(r)
  BY <1>2, <1>4, <1>12 DEF UpdateHolder, At, Pcs, Ways
<1>. QED
  BY <1>2, <1>5, <1>6, <1>7, <1>8, <1>9, <1>10, <1>11, <1>12
  DEF Continue, InsertLink, MarkVerified, DeleteAccount, ResetLinks, UpdateWrite

(* In any step at most one handler moves.                                  *)
LEMMA OneMoves ==
  ASSUME Typed, [Next]_vars
  PROVE  req' = req \/ \E r \in Requests : Moves(r)
<1>1. ASSUME NEW r \in Requests, CutShort(r) PROVE Moves(r)
  BY <1>1, Finished DEF CutShort, Typed, Moves, Ends
<1>. QED
  BY <1>1, AskMoves, ContinueMoves
  DEF Next, vars, CreateGuest, Remove, PasswordChanged, Expire

-----------------------------------------------------------------------------
(***************************************************************************)
(* A link has its effect once. A handler about to act holds a link that is *)
(* used up and has not acted, and no other handler is about to act by it.  *)
(***************************************************************************)
AboutToAct(h) == h.pc \in Acting

ActsInv ==
  /\ \A k \in LinkIds : acted[k] = 0 \/ (acted[k] = 1 /\ links[k].consumed)
  /\ \A r \in Requests : AboutToAct(req[r]) =>
       links[req[r].link].consumed /\ acted[req[r].link] = 0
  /\ \A r, q \in Requests :
       AboutToAct(req[r]) /\ AboutToAct(req[q]) /\ req[r].link = req[q].link
         => r = q

(* What is used up stays so.                                               *)
LEMMA ConsumedStays ==
  ASSUME Typed, LinksKept, NEW k \in LinkIds, links[k].consumed
  PROVE  links'[k].consumed
BY DEF Typed, TypeOK, Bound, LinkOK, Link, LinksKept

(* Whoever acts is done with it.                                           *)
LEMMA ActedByOne ==
  ASSUME Typed, [Next]_vars
  PROVE  \/ acted' = acted
         \/ \E r \in Requests :
              /\ Acted(r) /\ AboutToAct(req[r]) /\ ~AboutToAct(req'[r])
              /\ Others(r) /\ links' = links
<1>1. ASSUME NEW r \in Requests, Continue(r), acted' # acted
      PROVE  /\ Acted(r) /\ AboutToAct(req[r]) /\ ~AboutToAct(req'[r])
             /\ Others(r) /\ links' = links
  <2>1. TypeOK
    BY DEF Typed
  <2>2. CASE MarkVerified(r) \/ DeleteAccount(r)
    <3>1. req'[r] = Idle /\ Others(r)
      BY <2>1, <2>2, Finished DEF MarkVerified, DeleteAccount
    <3>2. ~AboutToAct(req'[r])
      BY <3>1 DEF AboutToAct, Acting, Idle
    <3>. QED
      BY <1>1, <2>2, <3>1, <3>2
      DEF MarkVerified, DeleteAccount, At, AboutToAct, Acting
  <2>3. CASE ChangeAddress(r) \/ ResetWrite(r)
    <3>1. PICK pc \in {"changed", "resetLinks"} : pc \in Pcs /\ Await(r, pc)
      BY <1>1, <2>3 DEF ChangeAddress, ResetWrite, Pcs
    <3>2. req'[r] = [req[r] EXCEPT !.pc = pc] /\ Others(r)
      BY <2>1, <3>1, Awaited
    <3>3. req'[r].pc \in {"changed", "resetLinks"} /\ Others(r)
      BY <2>1, <3>1, <3>2 DEF TypeOK, Request
    <3>4. ~AboutToAct(req'[r])
      BY <3>3 DEF AboutToAct, Acting
    <3>. QED
      BY <1>1, <2>3, <3>3, <3>4
      DEF ChangeAddress, ResetWrite, At, AboutToAct, Acting
  <2>. QED
    BY <1>1, <2>2, <2>3
    DEF Continue, AskHolder, InsertLink, ReadUser, ReadHolder, Consume,
        Changed, ResetLinks, UpdateHolder, UpdateWrite, hist
<1>2. ASSUME NEW r \in Requests, Ask(r) PROVE acted' = acted
  BY <1>2
  DEF Ask, Register, AskChange, OperatorUpdate, AskLink, OpenLink, hist
<1>. QED
  BY <1>1, <1>2
  DEF Next, vars, CutShort, CreateGuest, Remove, PasswordChanged, Expire, hist

(* Only the handler that uses a link up becomes about to act.              *)
LEMMA ActorWon ==
  ASSUME Typed, [Next]_vars, NEW r \in Requests, AboutToAct(req'[r])
  PROVE  req'[r] = req[r] \/ (Wins(r) /\ Others(r))
<1>1. CASE req' = req
  BY <1>1
<1>2. ASSUME NEW q \in Requests, Moves(q), q # r PROVE req'[r] = req[r]
  BY <1>2 DEF Moves, Others
<1>3. CASE Moves(r)
  <2>1. ~Ends(r)
    BY DEF Ends, Idle, AboutToAct, Acting
  <2>2. ~Begins(r) /\ ~MailsNew(r)
    BY DEF Begins, MailsNew, AboutToAct, Acting
  <2>3. ~GoesOn(r)
    BY DEF GoesOn, Ways, AboutToAct, Acting
  <2>. QED
    BY <1>3, <2>1, <2>2, <2>3 DEF Moves
<1>. QED
  BY <1>1, <1>2, <1>3, OneMoves

LEMMA ActsInit == Init => ActsInv
BY DEF Init, ActsInv, AboutToAct, Acting, Idle

(* Every step keeps it.                                                    *)
LEMMA ActsStep ==
  ASSUME Typed, ActsInv, [Next]_vars PROVE ActsInv'
<1>1. LinksKept
  BY TypedStep
<1>2. ASSUME NEW r \in Requests, AboutToAct(req'[r])
      PROVE  /\ req[r].link \in LinkIds
             /\ req'[r].link = req[r].link
             /\ links'[req[r].link].consumed
             /\ acted[req[r].link] = 0
             /\ AboutToAct(req[r]) \/ (~links[req[r].link].consumed /\ Others(r))
  <2>1. CASE req'[r] = req[r]
    <3>1. req[r].link \in LinkIds
      BY <1>2, <2>1 DEF Typed, Bound, HandlerOK, Holding, AboutToAct
    <3>. QED
      BY <1>1, <1>2, <2>1, <3>1, ConsumedStays DEF ActsInv
  <2>2. CASE Wins(r) /\ Others(r)
    <3>1. req[r].link \in LinkIds
      BY <2>2 DEF Wins, At, Typed, Bound, HandlerOK, Holding
    <3>. QED
      BY <2>2, <3>1 DEF Wins, SameData, Unconsumed, ActsInv
  <2>. QED
    BY <1>2, <2>1, <2>2, ActorWon
<1>3. ASSUME NEW r \in Requests, NEW q \in Requests,
             AboutToAct(req'[r]), AboutToAct(req'[q]),
             req'[r].link = req'[q].link, r # q
      PROVE  FALSE
  <2>1. AboutToAct(req[r]) \/ AboutToAct(req[q])
    BY <1>2, <1>3 DEF Others
  <2>. QED
    BY <1>2, <1>3, <2>1 DEF ActsInv
<1>4. CASE acted' = acted
  <2>1. ASSUME NEW k \in LinkIds
        PROVE  acted'[k] = 0 \/ (acted'[k] = 1 /\ links'[k].consumed)
    BY <1>1, <1>4, ConsumedStays DEF ActsInv
  <2>. QED
    BY <1>2, <1>3, <1>4, <2>1 DEF ActsInv
<1>5. ASSUME NEW r \in Requests, Acted(r), AboutToAct(req[r]),
             ~AboutToAct(req'[r]), Others(r)
      PROVE  ActsInv'
  <2>1. /\ req[r].link \in LinkIds
        /\ links[req[r].link].consumed /\ acted[req[r].link] = 0
    BY <1>5 DEF Typed, Bound, HandlerOK, Holding, AboutToAct, ActsInv
  <2>2. /\ acted'[req[r].link] = 1
        /\ \A k \in LinkIds \ {req[r].link} : acted'[k] = acted[k]
    BY <1>5, <2>1 DEF Acted, Typed, TypeOK
  <2>3. ASSUME NEW k \in LinkIds
        PROVE  acted'[k] = 0 \/ (acted'[k] = 1 /\ links'[k].consumed)
    BY <1>1, <2>1, <2>2, ConsumedStays DEF ActsInv
  <2>4. ASSUME NEW q \in Requests, AboutToAct(req'[q])
        PROVE  links'[req'[q].link].consumed /\ acted'[req'[q].link] = 0
    <3>1. q # r /\ req'[q] = req[q]
      BY <1>5, <2>4 DEF Others
    <3>2. req[q].link # req[r].link
      BY <1>5, <2>4, <3>1 DEF ActsInv
    <3>. QED
      BY <1>2, <2>2, <2>4, <3>1, <3>2
  <2>. QED
    BY <1>3, <2>3, <2>4 DEF ActsInv
<1>. QED
  BY <1>4, <1>5, ActedByOne

(***************************************************************************)
(* However many tabs open a link at once, it has its effect at most once   *)
(* (the conditional UPDATE of consume).                                    *)
(***************************************************************************)
THEOREM ActsOnce == Spec => []LinkActsOnce
<1>1. ActsInv => LinkActsOnce
  BY DEF ActsInv, LinkActsOnce
<1>. QED
  BY <1>1, AlwaysTyped, ActsInit, ActsStep, PTL DEF Spec

-----------------------------------------------------------------------------
(***************************************************************************)
(* The refinement of OneShot: its variables, as AccountLinks maps them.    *)
(***************************************************************************)
Good == {k \in LinkIds : links[k].st = "row" /\ ~links[k].consumed}

Sent == {k \in LinkIds : links[k].st = "row"}

Held == {h \in Requests \X LinkIds :
           req[h[1]].pc \in Acting /\ req[h[1]].link = h[2]}

(* A handler that is not about to act any more holds no link.              *)
LEMMA HeldAfter ==
  ASSUME NEW r \in Requests, Others(r), ~AboutToAct(req'[r])
  PROVE  /\ Held' = Held \ {<<r, req[r].link>>}
         /\ ~AboutToAct(req[r]) => Held' = Held
BY DEF Held, Others, AboutToAct

(* Where no link changes, a handler that moves holds on or gives up.       *)
LEMMA HoldsOrGivesUp ==
  ASSUME Typed, [Next]_vars, links' = links
  PROVE  \/ Held' = Held
         \/ \E r \in Requests, k \in LinkIds : Held' = Held \ {<<r, k>>}
<1>1. CASE req' = req
  BY <1>1 DEF Held
<1>2. ASSUME NEW r \in Requests, Others(r) PROVE
        \/ Held' = Held
        \/ \E k \in LinkIds : Held' = Held \ {<<r, k>>}
  <2>1. CASE AboutToAct(req'[r])
    <3>1. ~Wins(r)
      BY DEF Wins, Unconsumed
    <3>2. req'[r] = req[r]
      BY <2>1, <3>1, ActorWon
    <3>. QED
      BY <1>2, <3>2 DEF Held, Others
  <2>2. CASE ~AboutToAct(req'[r]) /\ AboutToAct(req[r])
    <3>1. req[r].link \in LinkIds
      BY <2>2 DEF Typed, Bound, HandlerOK, Holding, AboutToAct
    <3>. QED
      BY <1>2, <2>2, <3>1, HeldAfter
  <2>3. CASE ~AboutToAct(req'[r]) /\ ~AboutToAct(req[r])
    BY <1>2, <2>3, HeldAfter
  <2>. QED
    BY <2>1, <2>2, <2>3
<1>. QED
  BY <1>1, <1>2, OneMoves DEF Moves

(* Only these steps change a link.                                         *)
LEMMA LinkSteps ==
  ASSUME Typed, [Next]_vars, links' # links
  PROVE  \/ \E r \in Requests :
              \/ InsertLink(r)
              \/ Consume(r) /\ Unconsumed(req[r].link)
              \/ ResetLinks(r)
         \/ \E u \in Users : PasswordChanged(u)
         \/ \E k \in LinkIds : Expire(k)
<1>1. ASSUME NEW r \in Requests, Ask(r) PROVE links' = links
  BY <1>1 DEF Ask, Register, AskChange, OperatorUpdate, AskLink, OpenLink
<1>2. ASSUME NEW r \in Requests, Continue(r)
      PROVE  \/ InsertLink(r) \/ ResetLinks(r)
             \/ Consume(r) /\ Unconsumed(req[r].link)
             \/ links' = links
  BY <1>2
  DEF Continue, AskHolder, ReadUser, ReadHolder, Consume, MarkVerified,
      ChangeAddress, Changed, DeleteAccount, ResetWrite, UpdateHolder,
      UpdateWrite
<1>. QED
  BY <1>1, <1>2 DEF Next, vars, CutShort, CreateGuest, Remove

(* A link that is mailed is issued, and good.                              *)
LEMMA MailIssues ==
  ASSUME Typed, NEW r \in Requests, InsertLink(r)
  PROVE  \E k \in LinkIds :
           /\ k \notin Sent /\ Sent' = Sent \cup {k} /\ Good' = Good \cup {k}
           /\ Held' = Held
<1>1. PICK k \in LinkIds :
        /\ links[k].st = "free"
        /\ links' = [links EXCEPT ![k] =
             [st |-> "row", user |-> req[r].user, purpose |-> req[r].purpose,
              email |-> req[r].email, sentTo |-> req[r].sentTo,
              consumed |-> FALSE, fresh |-> TRUE]]
  BY DEF InsertLink
<1>2. /\ links'[k].st = "row" /\ ~links'[k].consumed
      /\ \A l \in LinkIds \ {k} : links'[l] = links[l]
  BY <1>1 DEF Typed, TypeOK
<1>3. req'[r] = Idle /\ Others(r)
  BY Finished DEF InsertLink, Typed
<1>4. ~AboutToAct(req'[r]) /\ ~AboutToAct(req[r])
  BY <1>3 DEF InsertLink, AboutToAct, Acting, Idle, At
<1>. QED
  BY <1>1, <1>2, <1>3, <1>4, HeldAfter DEF Good, Sent

(* The handler whose UPDATE matched takes the link.                        *)
LEMMA ConsumeTakes ==
  ASSUME Typed, [Next]_vars,
         NEW r \in Requests, Consume(r), Unconsumed(req[r].link)
  PROVE  LET k == req[r].link
         IN  /\ k \in LinkIds /\ k \in Good /\ Sent' = Sent
             /\ Good' = Good \ {k} /\ Held' = Held \cup {<<r, k>>}
<1>. DEFINE k == req[r].link
<1>1. k \in LinkIds /\ req[r].purpose \in Purposes
  BY DEF Consume, At, Typed, Bound, HandlerOK, Holding, TypeOK, Request
<1>2. /\ links[k] \in Link
      /\ links'[k] = [links[k] EXCEPT !.consumed = TRUE]
      /\ \A l \in LinkIds \ {k} : links'[l] = links[l]
  BY <1>1 DEF Consume, Typed, TypeOK
<1>3. links'[k].st = links[k].st /\ links'[k].consumed
  BY <1>2 DEF Link
<1>4. Good' = Good \ {k} /\ Sent' = Sent /\ k \in Good
  BY <1>1, <1>2, <1>3 DEF Good, Sent, Unconsumed
<1>5. Effect(req[r].purpose) \in Acting /\ Acting \subseteq Pcs
  BY <1>1 DEF Effect, Purposes, Acting, Pcs
<1>6. Await(r, Effect(req[r].purpose))
  BY DEF Consume
<1>7. /\ req'[r] = [req[r] EXCEPT !.pc = Effect(req[r].purpose)]
      /\ Others(r) /\ req[r] \in Request
  BY <1>5, <1>6, Awaited DEF Typed, TypeOK
<1>8. req'[r].pc \in Acting /\ req'[r].link = k
  BY <1>5, <1>7 DEF Request
<1>9. Held' = Held \cup {<<r, k>>}
  <2>1. req[r].pc \notin Acting
    BY DEF Consume, At, Acting
  <2>2. ASSUME NEW q \in Requests, NEW l \in LinkIds
        PROVE  <<q, l>> \in Held' <=> <<q, l>> \in Held \/ (q = r /\ l = k)
    <3>1. CASE q = r
      BY <1>8, <2>1, <3>1 DEF Held
    <3>2. CASE q # r
      BY <1>7, <3>2 DEF Held, Others
    <3>. QED
      BY <3>1, <3>2
  <2>3. Held \subseteq Requests \X LinkIds /\ Held' \subseteq Requests \X LinkIds
    BY DEF Held
  <2>. HIDE DEF k
  <2>. QED
    BY <1>1, <2>2, <2>3
<1>. QED
  BY <1>1, <1>4, <1>9

(* A recovery spoils the links it ends.                                    *)
LEMMA EndingSpoils ==
  ASSUME Typed, NEW u \in Users, ConsumeAllForUser(u)
  PROVE  Sent' = Sent /\ \E S \in SUBSET LinkIds : Good' = Good \ S
<1>1. ASSUME NEW k \in LinkIds
      PROVE  /\ links'[k].st = links[k].st
             /\ links'[k].consumed <=> links[k].consumed \/ k \in Ended(u)
  <2>1. links[k] \in Link
    BY DEF Typed, TypeOK
  <2>2. links'[k] = IF k \in Ended(u) THEN [links[k] EXCEPT !.consumed = TRUE]
                                      ELSE links[k]
    BY DEF ConsumeAllForUser
  <2>. QED
    BY <2>1, <2>2 DEF Link
<1>2. Good' = Good \ Ended(u) /\ Ended(u) \in SUBSET LinkIds
  BY <1>1 DEF Good, Ended
<1>3. Sent' = Sent
  BY <1>1 DEF Sent
<1>. QED
  BY <1>2, <1>3

(* Every step is one of OneShot's, or none.                                *)
LEMMA SecretStep ==
  ASSUME Typed, [Next]_vars
  PROVE  [Secret!Next]_(Secret!vars)
<1>. USE DEF Good, Sent, Held
<1>1. CASE links' = links /\ acted' = acted
  BY <1>1, HoldsOrGivesUp DEF Secret!Next, Secret!GiveUp, Secret!vars
<1>2. ASSUME NEW r \in Requests, Acted(r), AboutToAct(req[r]),
             ~AboutToAct(req'[r]), Others(r), links' = links
      PROVE  Secret!Next
  <2>1. req[r].link \in LinkIds /\ <<r, req[r].link>> \in Held
    BY <1>2 DEF Typed, Bound, HandlerOK, Holding, AboutToAct
  <2>2. Held' = Held \ {<<r, req[r].link>>} /\ Good' = Good /\ Sent' = Sent
    BY <1>2, HeldAfter
  <2>3. acted' = [acted EXCEPT ![req[r].link] = @ + 1]
    BY <1>2 DEF Acted
  <2>. QED
    BY <2>1, <2>2, <2>3 DEF Secret!Next, Secret!Act
<1>3. ASSUME NEW r \in Requests, InsertLink(r) PROVE Secret!Next
  BY <1>3, MailIssues DEF Secret!Next, Secret!Issue, InsertLink, hist
<1>4. ASSUME NEW r \in Requests, Consume(r), Unconsumed(req[r].link)
      PROVE  Secret!Next
  BY <1>4, ConsumeTakes DEF Secret!Next, Secret!Take, Consume, hist
<1>5. ASSUME NEW r \in Requests, ResetLinks(r) PROVE Secret!Next
  <2>1. req[r].user \in Users
    BY <1>5 DEF ResetLinks, At, Typed, Bound, HandlerOK
  <2>2. Held' = Held
    <3>1. req'[r] = Idle /\ Others(r)
      BY <1>5, Finished DEF ResetLinks, Typed
    <3>2. ~AboutToAct(req'[r]) /\ ~AboutToAct(req[r])
      BY <1>5, <3>1 DEF ResetLinks, AboutToAct, Acting, Idle, At
    <3>. QED
      BY <3>1, <3>2, HeldAfter
  <2>. QED
    BY <1>5, <2>1, <2>2, EndingSpoils
    DEF ResetLinks, Secret!Next, Secret!Spoil
<1>6. ASSUME NEW u \in Users, PasswordChanged(u) PROVE Secret!Next
  BY <1>6, EndingSpoils DEF PasswordChanged, Secret!Next, Secret!Spoil
<1>7. ASSUME NEW k \in LinkIds, Expire(k) PROVE UNCHANGED Secret!vars
  <2>1. ASSUME NEW l \in LinkIds
        PROVE  links'[l].st = links[l].st /\ links'[l].consumed = links[l].consumed
    BY <1>7 DEF Expire, Typed, TypeOK, Link
  <2>2. Good' = Good /\ Sent' = Sent /\ Held' = Held
    BY <1>7, <2>1 DEF Expire
  <2>. QED
    BY <1>7, <2>2 DEF Expire, Secret!vars, hist
<1>. QED
  BY <1>1, <1>2, <1>3, <1>4, <1>5, <1>6, <1>7, ActedByOne, LinkSteps

(***************************************************************************)
(* Mailed links keep what OneShot promises, whatever requests, recoveries, *)
(* expiries and failures they meet: a link that was consumed or ended is   *)
(* never good again, and only the handler that consumed it acts by it.     *)
(***************************************************************************)
THEOREM LinksImplementOneShot == Spec => LinkOneShot
<1>1. Init => Secret!Init
  BY DEF Init, Secret!Init, NoLink, Idle, Acting
<1>2. Typed /\ [Next]_vars => [Secret!Next]_(Secret!vars)
  BY SecretStep
<1>. QED
  BY <1>1, <1>2, AlwaysTyped, PTL DEF Spec, LinkOneShot, Secret!Spec

-----------------------------------------------------------------------------
(***************************************************************************)
(* A link that a recovery ended is used up, and stays so.                  *)
(***************************************************************************)
RecoveredUsed == \A k \in recovered : links[k].consumed

LEMMA EndedUsed ==
  ASSUME Typed, NEW u \in Users, ConsumeAllForUser(u), RecoveredUsed,
         LinksKept
  PROVE  RecoveredUsed'
<1>1. ASSUME NEW k \in LinkIds, links[k].user = u,
             links[k].purpose # "verify_email"
      PROVE  links'[k].consumed
  <2>1. links[k] \in Link /\ k \in Ended(u)
    BY <1>1 DEF Typed, TypeOK, Link, Purposes, Ended, AccountChanging
  <2>2. links'[k] = [links[k] EXCEPT !.consumed = TRUE]
    BY <2>1 DEF ConsumeAllForUser
  <2>. QED
    BY <2>1, <2>2 DEF Link
<1>2. ASSUME NEW k \in recovered PROVE links'[k].consumed
  BY <1>2, ConsumedStays DEF RecoveredUsed, Typed, TypeOK
<1>. QED
  BY <1>1, <1>2 DEF ConsumeAllForUser, RecoveredUsed

LEMMA RecoveredStep ==
  ASSUME Typed, RecoveredUsed, [Next]_vars PROVE RecoveredUsed'
<1>1. LinksKept
  BY TypedStep
<1>2. CASE recovered' = recovered
  BY <1>1, <1>2, ConsumedStays DEF RecoveredUsed, Typed, TypeOK
<1>3. ASSUME NEW r \in Requests, ResetLinks(r) PROVE RecoveredUsed'
  BY <1>1, <1>3, EndedUsed
  DEF ResetLinks, At, Typed, Bound, HandlerOK
<1>4. ASSUME NEW u \in Users, PasswordChanged(u) PROVE RecoveredUsed'
  BY <1>1, <1>4, EndedUsed DEF PasswordChanged
<1>5. ASSUME NEW r \in Requests, Ask(r) PROVE recovered' = recovered
  BY <1>5
  DEF Ask, Register, AskChange, OperatorUpdate, AskLink, OpenLink, hist
<1>6. ASSUME NEW r \in Requests, Continue(r), ~ResetLinks(r)
      PROVE  recovered' = recovered
  BY <1>6
  DEF Continue, AskHolder, InsertLink, ReadUser, ReadHolder, Consume,
      MarkVerified, ChangeAddress, Changed, DeleteAccount, ResetWrite,
      UpdateHolder, UpdateWrite, hist
<1>. QED
  BY <1>2, <1>3, <1>4, <1>5, <1>6
  DEF Next, vars, CutShort, CreateGuest, Remove, Expire, hist

LEMMA RecoveredInit == Init => RecoveredUsed
BY DEF Init, RecoveredUsed

(***************************************************************************)
(* A link that was mailed before a password was reset or changed cannot be *)
(* used after it, not even by a handler that had already accepted it       *)
(* (consumeAllForUser, beside the conditional UPDATE of consume).          *)
(***************************************************************************)
THEOREM RecoveryEnds == Spec => RecoveryEndsLinks
<1>. DEFINE A == \A r \in Requests :
              At(r, "consume") /\ req'[r].pc \in {"change", "delete", "resetWrite"}
                => req[r].link \notin recovered
<1>1. Typed /\ RecoveredUsed /\ [Next]_vars => A
  <2>1. ASSUME Typed, RecoveredUsed, [Next]_vars, NEW r \in Requests,
               At(r, "consume"),
               req'[r].pc \in {"change", "delete", "resetWrite"}
        PROVE  req[r].link \notin recovered
    <3>1. Wins(r)
      BY <2>1, ActorWon DEF AboutToAct, Acting, At
    <3>. QED
      BY <2>1, <3>1 DEF Wins, Unconsumed, RecoveredUsed
  <2>. QED
    BY <2>1
<1>2. Typed /\ RecoveredUsed /\ [Next]_vars => [A]_vars
  BY <1>1
<1>3. Typed /\ RecoveredUsed /\ [Next]_vars => RecoveredUsed'
  BY RecoveredStep
<1>. QED
  BY <1>2, <1>3, AlwaysTyped, RecoveredInit, PTL DEF Spec, RecoveryEndsLinks

-----------------------------------------------------------------------------
(***************************************************************************)
(* Verified addresses were proven. A handler that verifies one has seen    *)
(* the link opened that was mailed to it, and so has one that resets a     *)
(* password. markEmailVerified compares the address; the other write is    *)
(* stale where the account no longer has the one the link is about.        *)
(***************************************************************************)
Sound(h) ==
  /\ h.pc \in {"insert", "askHolder"} /\ h.purpose \in Verifying =>
       h.sentTo = h.email
  /\ h.pc \in {"user", "holder", "consume", "mark", "resetWrite"} =>
       (h.purpose \in Verifying => <<h.user, h.email>> \in proved)
  /\ h.pc = "mark" => h.purpose = "verify_email"
  /\ h.pc = "resetWrite" => h.purpose = "password_reset"

ProvenInv ==
  /\ \A k \in LinkIds :
       links[k].st = "row" /\ links[k].purpose \in Verifying =>
         links[k].sentTo = links[k].email
  /\ \A r \in Requests : Sound(req[r])

LEMMA ProvedGrows ==
  ASSUME [Next]_vars PROVE proved \subseteq proved'
<1>1. ASSUME NEW r \in Requests, Ask(r) PROVE proved \subseteq proved'
  BY <1>1
  DEF Ask, Register, AskChange, OperatorUpdate, AskLink, OpenLink, hist
<1>2. ASSUME NEW r \in Requests, Continue(r) PROVE proved' = proved
  BY <1>2
  DEF Continue, AskHolder, InsertLink, ReadUser, ReadHolder, Consume,
      MarkVerified, ChangeAddress, Changed, DeleteAccount, ResetWrite,
      ResetLinks, UpdateHolder, UpdateWrite, hist
<1>. QED
  BY <1>1, <1>2
  DEF Next, vars, CutShort, CreateGuest, Remove, PasswordChanged, Expire, hist

(* The links that are new come from a handler that inserted them.          *)
LEMMA NewLinks ==
  ASSUME Typed, [Next]_vars, NEW k \in LinkIds,
         links'[k].st = "row", links[k].st # "row"
  PROVE  \E r \in Requests : At(r, "insert") /\ SameMail(links'[k], req[r])
<1>1. ASSUME NEW r \in Requests, InsertLink(r)
      PROVE  At(r, "insert") /\ SameMail(links'[k], req[r])
  BY <1>1 DEF InsertLink, SameMail, Typed, TypeOK
<1>2. ASSUME NEW r \in Requests, Consume(r) PROVE FALSE
  BY <1>2 DEF Consume, Unconsumed, Typed, TypeOK, Link
<1>3. ASSUME NEW u \in Users, ConsumeAllForUser(u) PROVE FALSE
  <2>1. links[k] \in Link
    BY DEF Typed, TypeOK
  <2>2. links'[k] = links[k] \/ links'[k] = [links[k] EXCEPT !.consumed = TRUE]
    BY <1>3 DEF ConsumeAllForUser
  <2>3. links'[k].st = links[k].st
    BY <2>1, <2>2 DEF Link
  <2>. QED
    BY <2>3
<1>4. ASSUME NEW r \in Requests, ResetLinks(r) PROVE FALSE
  BY <1>3, <1>4 DEF ResetLinks, At, Typed, Bound, HandlerOK
<1>5. ASSUME NEW l \in LinkIds, Expire(l) PROVE FALSE
  BY <1>5 DEF Expire, Typed, TypeOK, Link
<1>6. ASSUME NEW r \in Requests, Ask(r) PROVE links' = links
  BY <1>6 DEF Ask, Register, AskChange, OperatorUpdate, AskLink, OpenLink
<1>7. ASSUME NEW r \in Requests, Continue(r),
             ~InsertLink(r), ~Consume(r), ~ResetLinks(r)
      PROVE  links' = links
  BY <1>7
  DEF Continue, AskHolder, ReadUser, ReadHolder, MarkVerified, ChangeAddress,
      Changed, DeleteAccount, ResetWrite, UpdateHolder, UpdateWrite
<1>. QED
  BY <1>1, <1>2, <1>3, <1>4, <1>5, <1>6, <1>7
  DEF Next, vars, CutShort, CreateGuest, Remove, PasswordChanged

(***************************************************************************)
(* A step gives an account a verified address only if the account had it,  *)
(* verified, or a handler verifies it that has seen it proven, or one that *)
(* writes without having seen the change.                                  *)
(***************************************************************************)
Kept(u) == users[u].verified /\ users'[u].email = users[u].email

Stale(u) == \E r \in Requests : WritesStale(r, u) /\ req'[r] # req[r]

Verifies(r, u) ==
  /\ At(r, "mark") \/ At(r, "resetWrite")
  /\ req[r].user = u /\ req[r].email = users'[u].email

Right(u) == Kept(u) \/ Stale(u) \/ \E r \in Requests : Verifies(r, u)

LEMMA MarkRight ==
  ASSUME TypeOK, NEW u \in Users, users'[u].verified,
         NEW r \in Requests, MarkVerified(r)
  PROVE  Right(u)
<1>. users \in [Users -> User] /\ users[u] \in User
  BY DEF TypeOK
<1>1. CASE users' = users
  BY <1>1 DEF Right, Kept
<1>2. CASE MarkMatches(r) /\ req[r].user = u
  <2>1. users'[u].email = users[u].email
    BY <1>2 DEF MarkVerified, User
  <2>. QED
    BY <1>2, <2>1 DEF MarkVerified, MarkMatches, SameAddress, Right, Verifies
<1>3. CASE MarkMatches(r) /\ req[r].user # u
  BY <1>3 DEF MarkVerified, Right, Kept
<1>. QED
  BY <1>1, <1>2, <1>3 DEF MarkVerified

LEMMA ResetRight ==
  ASSUME Typed, NEW u \in Users, users'[u].verified,
         NEW r \in Requests, ResetWrite(r)
  PROVE  Right(u)
<1>. USE DEF Typed
<1>. users \in [Users -> User] /\ users[u] \in User
  BY DEF TypeOK
<1>1. CASE req[r].user # u
  BY <1>1 DEF ResetWrite, Right, Kept
<1>2. CASE req[r].user = u /\ users[u].email = req[r].email
  <2>1. users'[u].email = users[u].email
    BY <1>2 DEF ResetWrite, User
  <2>. QED
    BY <1>2, <2>1 DEF ResetWrite, Right, Verifies
<1>3. CASE req[r].user = u /\ users[u].email # req[r].email
  <2>1. req'[r].pc = "resetLinks" /\ req[r].pc = "resetWrite"
    BY DEF ResetWrite, Await, At, TypeOK, Request
  <2>. QED
    BY <1>3, <2>1 DEF Right, Stale, WritesStale, At
<1>. QED
  BY <1>1, <1>2, <1>3

LEMMA UpdateRight ==
  ASSUME Typed, NEW u \in Users, users'[u].verified,
         NEW r \in Requests, UpdateWrite(r)
  PROVE  Right(u)
<1>. users \in [Users -> User] /\ users[u] \in User
  BY DEF Typed, TypeOK
<1>1. CASE users' = users
  BY <1>1 DEF Right, Kept
<1>2. CASE users' = [users EXCEPT ![req[r].user].email = req[r].email,
                       ![req[r].user].verified = @ /\ ~req[r].unverify]
  <2>1. CASE req[r].user # u
    BY <1>2, <2>1 DEF Right, Kept
  <2>2. CASE req[r].user = u
    <3>1. /\ users'[u].email = req[r].email
          /\ users[u].verified /\ ~req[r].unverify
      BY <1>2, <2>2 DEF User
    <3>2. req'[r].pc = "idle" /\ req[r].pc = "update"
      BY DEF UpdateWrite, Finish, Idle, At, Typed, TypeOK, Request
    <3>. QED
      BY <2>2, <3>1, <3>2 DEF Right, Kept, Stale, WritesStale, At
  <2>. QED
    BY <2>1, <2>2
<1>. QED
  BY <1>1, <1>2 DEF UpdateWrite

LEMMA OtherRight ==
  ASSUME Typed, NEW u \in Users, users'[u].verified, [Next]_vars,
         \A r \in Requests : ~MarkVerified(r) /\ ~ResetWrite(r) /\ ~UpdateWrite(r)
  PROVE  Right(u)
<1>1. users \in [Users -> User] /\ users[u] \in User
  BY DEF Typed, TypeOK
<1>2. users' = users => Right(u)
  BY DEF Right, Kept
<1>3. ASSUME NEW v, users' = [users EXCEPT ![v].st = "deleted"]
                 \/ users' = [users EXCEPT ![v].st = "live"]
      PROVE  Right(u)
  BY <1>1, <1>3 DEF User, Right, Kept
<1>4. ASSUME NEW r \in Requests, Ask(r) PROVE Right(u)
  <2>1. ASSUME NEW v \in Users, NEW a \in Addresses, Register(r, v, a)
        PROVE  Right(u)
    BY <1>1, <2>1 DEF Register, Right, Kept
  <2>. QED
    BY <1>2, <1>4, <2>1 DEF Ask, AskChange, OperatorUpdate, AskLink, OpenLink
<1>5. ASSUME NEW r \in Requests, ChangeAddress(r) PROVE Right(u)
  <2>1. CASE users' = [users EXCEPT ![req[r].user].email = req[r].email,
                                    ![req[r].user].verified = FALSE]
    <3>1. req[r].user # u
      BY <1>1, <2>1 DEF User
    <3>. QED
      BY <1>1, <2>1, <3>1 DEF Right, Kept
  <2>. QED
    BY <1>2, <1>5, <2>1 DEF ChangeAddress
<1>6. ASSUME NEW r \in Requests, Continue(r) PROVE Right(u)
  BY <1>2, <1>3, <1>5, <1>6
  DEF Continue, AskHolder, InsertLink, ReadUser, ReadHolder, Consume, Changed,
      DeleteAccount, ResetLinks, UpdateHolder
<1>. QED
  BY <1>2, <1>3, <1>4, <1>6
  DEF Next, vars, CutShort, CreateGuest, Remove, PasswordChanged, Expire

(* What a handler has seen stays true of it.                               *)
LEMMA SoundStep ==
  ASSUME Typed, ProvenInv, [Next]_vars, NEW r \in Requests
  PROVE  Sound(req[r])'
<1>1. Sound(req[r]) /\ proved \subseteq proved'
  BY ProvedGrows DEF ProvenInv
<1>2. CASE req'[r] = req[r]
  BY <1>1, <1>2 DEF Sound
<1>3. CASE Ends(r)
  BY <1>3 DEF Ends, Idle, Sound
<1>4. CASE Begins(r)
  BY <1>4 DEF Begins, PromptOK, Opened, Sound, ProvenInv
<1>5. CASE GoesOn(r)
  BY <1>1, <1>5 DEF GoesOn, Ways, SameData, Sound
<1>6. CASE Wins(r)
  <2>1. req[r].purpose \in Purposes
    BY DEF Typed, TypeOK, Request
  <2>. QED
    BY <1>1, <1>6, <2>1 DEF Wins, At, SameData, Effect, Purposes, Sound
<1>7. CASE MailsNew(r)
  BY <1>7 DEF MailsNew, Sound
<1>. QED
  BY <1>2, <1>3, <1>4, <1>5, <1>6, <1>7, OneMoves DEF Moves, Others

LEMMA ProvenInit == Init => ProvenInv
BY DEF Init, ProvenInv, Sound, Idle, NoLink

(* Every step keeps it.                                                    *)
LEMMA ProvenStep ==
  ASSUME Typed, ProvenInv, [Next]_vars PROVE ProvenInv'
<1>1. LinksKept
  BY TypedStep
<1>2. ASSUME NEW k \in LinkIds, links'[k].st = "row",
             links'[k].purpose \in Verifying
      PROVE  links'[k].sentTo = links'[k].email
  <2>1. CASE links[k].st = "row"
    BY <1>1, <1>2, <2>1 DEF LinksKept, SameMail, ProvenInv
  <2>2. CASE links[k].st # "row"
    <3>1. PICK r \in Requests : At(r, "insert") /\ SameMail(links'[k], req[r])
      BY <1>2, <2>2, NewLinks
    <3>. QED
      BY <1>2, <3>1 DEF SameMail, ProvenInv, Sound, At
  <2>. QED
    BY <2>1, <2>2
<1>3. \A r \in Requests : Sound(req[r])'
  BY SoundStep
<1>. QED
  BY <1>2, <1>3 DEF ProvenInv

(***************************************************************************)
(* However links, operators, resets and changes interleave, an address     *)
(* that comes to count as verified was proven: a link mailed to it for     *)
(* that very account was opened. The exceptions are the write of a reset   *)
(* and that of an operator's update, and those only where the address      *)
(* changed after they had checked it.                                      *)
(***************************************************************************)
THEOREM VerifiedProven == Spec => VerifiedWasProven
<1>. DEFINE New(u) == /\ Unproven(u)'
                      /\ Unproven(u) => users'[u].email # users[u].email
<1>1. ASSUME Typed, ProvenInv, [Next]_vars, NEW u \in Users, New(u)
      PROVE  Stale(u)
  <2>1. /\ users'[u].verified
        /\ <<u, users'[u].email>> \notin proved'
        /\ proved \subseteq proved'
    BY <1>1, ProvedGrows DEF Unproven
  <2>2. Right(u)
    BY <1>1, <2>1, MarkRight, ResetRight, UpdateRight, OtherRight DEF Typed
  <2>3. ~Kept(u)
    BY <1>1, <2>1 DEF Kept, Unproven
  <2>4. \A r \in Requests : ~Verifies(r, u)
    BY <1>1, <2>1 DEF Verifies, ProvenInv, Sound, Verifying, At
  <2>. QED
    BY <2>2, <2>3, <2>4 DEF Right
<1>2. Typed /\ ProvenInv /\ [Next]_vars =>
        [\A u \in Users : New(u) => Stale(u)]_vars
  BY <1>1
<1>3. Typed /\ ProvenInv /\ [Next]_vars =>
        [\A u \in Users :
           Unproven(u)' /\ (Unproven(u) => users'[u].email # users[u].email) =>
             \E r \in Requests : WritesStale(r, u) /\ req'[r] # req[r]]_vars
  BY <1>2 DEF Stale
<1>4. Typed /\ ProvenInv /\ [Next]_vars => ProvenInv'
  BY ProvenStep
<1>. QED
  BY <1>3, <1>4, AlwaysTyped, ProvenInit, PTL DEF Spec, VerifiedWasProven
=============================================================================
