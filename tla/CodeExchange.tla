----------------------------- MODULE CodeExchange -----------------------------
(***************************************************************************)
(* Authorization codes: issueAuthorizationCode and                         *)
(* exchangeAuthorizationCode of src/modules/auth/auth.service.ts over the  *)
(* authorization_codes table, composed with RefreshTokens. An exchange     *)
(* that wins its code goes on as the issueTokensForService of the same     *)
(* handler; a replayed code revokes the user's refresh tokens.             *)
(***************************************************************************)
EXTENDS RefreshTokens

CONSTANTS
  CodeIds,   \* bounds the codes a behaviour may issue
  CodeTTL    \* AUTH_CODE_TTL

ASSUME CodeAssumption == CodeTTL \in Nat

VARIABLES
  codes,     \* authorization_codes
  xreq,      \* what a handler knows of the code it exchanges
  minted     \* history: the tokens that were minted from a code

codeVars == <<codes, xreq, minted>>
xvars == <<vars, codeVars>>

Code == [st: {"free", "row", "deleted"}, user: Users \cup {Null},
         service: Services \cup {Null}, expiresAt: Nat, consumed: BOOLEAN]

NoCode == [st |-> "free", user |-> Null, service |-> Null,
           expiresAt |-> 0, consumed |-> FALSE]

(***************************************************************************)
(* What the caller sends with the code: client_id, and whether             *)
(* client_secret, redirect_uri and code_verifier are the right ones.       *)
(***************************************************************************)
Proof == [id: Services, secret: BOOLEAN, redirect: BOOLEAN, verifier: BOOLEAN]

NoProof == [id |-> Null, secret |-> FALSE, redirect |-> FALSE,
            verifier |-> FALSE]

(***************************************************************************)
(* "issuing": the handler's further course is that of req[r].              *)
(***************************************************************************)
Exchange == [pc: {"idle", "service", "family", "consume", "issuing"},
             code: CodeIds \cup {Null}, proof: Proof \cup {NoProof},
             existing: Code]

NoExchange == [pc |-> "idle", code |-> Null, proof |-> NoProof,
               existing |-> NoCode]

Step(r, from, to) ==
  /\ xreq[r].pc = from
  /\ xreq' = [xreq EXCEPT ![r] = IF to = "idle" THEN NoExchange
                                 ELSE [@ EXCEPT !.pc = to]]

CodeRow(r) == codes[xreq[r].code]

-----------------------------------------------------------------------------
(***************************************************************************)
(* issueAuthorizationCode, called by the authorize endpoints for the user  *)
(* of an SSO session.                                                      *)
(***************************************************************************)
\* Deviation of IssueAuthorizationCode: the lifetime is subtracted.
IssueExpiredCode(k, u, s) ==
  /\ codes[k].st = "free"
  /\ codes' = [codes EXCEPT ![k] =
       [st |-> "row", user |-> u, service |-> s,
        expiresAt |-> Stored(now - CodeTTL), consumed |-> FALSE]]
  /\ UNCHANGED <<vars, xreq, minted>>

IssueAuthorizationCode(k, u, s) ==
  /\ codes[k].st = "free"
  /\ codes' = [codes EXCEPT ![k] =
       [st |-> "row", user |-> u, service |-> s,
        expiresAt |-> Stored(now + CodeTTL), consumed |-> FALSE]]
  /\ UNCHANGED <<vars, xreq, minted>>

-----------------------------------------------------------------------------
(***************************************************************************)
(* exchangeAuthorizationCode                                               *)
(***************************************************************************)

(***************************************************************************)
(* findByCodeHash found the row; an unknown code is refused at once.       *)
(***************************************************************************)
ExchangeStart(r, k, proof) ==
  /\ At(r, "idle") /\ xreq[r].pc = "idle"
  /\ codes[k].st = "row"
  /\ xreq' = [xreq EXCEPT ![r] = [pc |-> "service", code |-> k,
                                  proof |-> proof, existing |-> codes[k]]]
  /\ UNCHANGED <<vars, codes, minted>>

RightClient(r) == xreq[r].proof.id = xreq[r].existing.service

\* Deviation of Replayed: the secret is checked first.
ReplayedAndSecret(r) ==
  /\ xreq[r].existing.consumed
  /\ ClientSecretOk(xreq[r].existing.service, xreq[r].proof)

Replayed(r) == xreq[r].existing.consumed

\* Deviation of ProofOk: the PKCE verifier is not checked.
ProofOkWithoutPkce(r) ==
  /\ xreq[r].existing.expiresAt > now
  /\ xreq[r].proof.redirect
  /\ ClientSecretOk(xreq[r].existing.service, xreq[r].proof)

ProofOk(r) ==
  /\ xreq[r].existing.expiresAt > now
  /\ xreq[r].proof.redirect
  /\ ClientSecretOk(xreq[r].existing.service, xreq[r].proof)
  /\ xreq[r].proof.verifier

(***************************************************************************)
(* findServiceById answered. The replay is judged before the client's      *)
(* secret, on the row as it was read.                                      *)
(***************************************************************************)
ExchangeJudge(r) ==
  /\ xreq[r].pc = "service"
  /\ \/ RightClient(r) /\ Replayed(r) /\ Step(r, "service", "family")
     \/ RightClient(r) /\ ~Replayed(r) /\ ProofOk(r)
          /\ Step(r, "service", "consume")
     \/ ~RightClient(r) /\ Step(r, "service", "idle")
     \/ ~Replayed(r) /\ ~ProofOk(r) /\ Step(r, "service", "idle")
  /\ UNCHANGED <<vars, codes, minted>>

\* Deviation of ConsumeWins: the UPDATE matches by id alone.
ConsumeBlindly(r) == CodeRow(r).st = "row"

ConsumeWins(r) == CodeRow(r).st = "row" /\ ~CodeRow(r).consumed

(***************************************************************************)
(* consume: the conditional UPDATE. The winner goes on to                  *)
(* issueTokensForService.                                                  *)
(***************************************************************************)
ExchangeConsume(r) ==
  /\ Step(r, "consume", "issuing")
  /\ ConsumeWins(r)
  /\ codes' = [codes EXCEPT ![xreq[r].code].consumed = TRUE]
  /\ req' = [req EXCEPT ![r] =
       Begun("issueSubject", Null, NoClient, NoRow,
             xreq[r].existing.user, xreq[r].existing.service)]
  /\ UNCHANGED <<env, tokens, hist, minted>>

ExchangeLoseRace(r) ==
  /\ Step(r, "consume", "family")
  /\ ~ConsumeWins(r)
  /\ UNCHANGED <<vars, codes, minted>>

(***************************************************************************)
(* revokeAllForUser for a replayed code.                                   *)
(***************************************************************************)
ExchangeRevokeFamily(r) ==
  /\ Step(r, "family", "idle")
  /\ tokens' = RevokeAllForUser(tokens, xreq[r].existing.user, now)
  /\ UNCHANGED <<env, req, hist, codes, minted>>

(***************************************************************************)
(* The handler is cut short before it won its code.                        *)
(***************************************************************************)
ExchangeCutShort(r) ==
  /\ "fault" \in Events
  /\ xreq[r].pc \in {"service", "family", "consume"}
  /\ xreq' = [xreq EXCEPT ![r] = NoExchange]
  /\ UNCHANGED <<vars, codes, minted>>

-----------------------------------------------------------------------------
(***************************************************************************)
(* A step of RefreshTokens by handler r. The last one of an exchange ends  *)
(* it, and may have minted a token.                                        *)
(***************************************************************************)
HandlerStep(r) ==
  /\ Continue(r) \/ CutShort(r)
  /\ xreq' = [xreq EXCEPT ![r] = IF req'[r].pc = "idle" THEN NoExchange ELSE @]
  /\ minted' = IF xreq[r].pc # "issuing" THEN minted
               ELSE [minted EXCEPT ![xreq[r].code] =
                       @ \cup {t \in TokenIds : tokens'[t] # tokens[t]}]
  /\ UNCHANGED codes

(***************************************************************************)
(* The rest of the system: the purge and the prune job delete codes by     *)
(* statements of their own.                                                *)
(***************************************************************************)
PurgeCodes(u) ==
  /\ "purge" \in Events
  /\ ~users[u].live
  /\ codes' = [k \in CodeIds |-> IF codes[k].user = u
                                  THEN [NoCode EXCEPT !.st = "deleted"]
                                  ELSE codes[k]]
  /\ UNCHANGED <<vars, xreq, minted>>

PruneCodes ==
  /\ "prune" \in Events
  /\ codes' = [k \in CodeIds |->
                 IF codes[k].st = "row" /\ codes[k].expiresAt < now - Retention
                   THEN [NoCode EXCEPT !.st = "deleted"]
                   ELSE codes[k]]
  /\ UNCHANGED <<vars, xreq, minted>>

-----------------------------------------------------------------------------
XInit ==
  /\ Init
  /\ codes = [k \in CodeIds |-> NoCode]
  /\ xreq = [r \in Requests |-> NoExchange]
  /\ minted = [k \in CodeIds |-> {}]

ExchangeStep(r) ==
  \/ ExchangeJudge(r)
  \/ ExchangeConsume(r)
  \/ ExchangeLoseRace(r)
  \/ ExchangeRevokeFamily(r)

XNext ==
  \/ \E k \in CodeIds, u \in Users, s \in Services :
       IssueAuthorizationCode(k, u, s)
  \/ \E r \in Requests, k \in CodeIds, proof \in Proof :
       ExchangeStart(r, k, proof)
  \/ \E r \in Requests, t \in TokenIds, client \in Clients :
       /\ xreq[r].pc = "idle"
       /\ RefreshStart(r, t, client)
       /\ UNCHANGED codeVars
  \/ \E r \in Requests : ExchangeStep(r) \/ ExchangeCutShort(r) \/ HandlerStep(r)
  \/ \E u \in Users : PurgeCodes(u)
  \/ PruneCodes
  \/ Environment /\ UNCHANGED codeVars

XSpec == XInit /\ [][XNext]_xvars

XFairSpec ==
  XSpec /\ \A r \in Requests : WF_xvars(ExchangeStep(r) \/ HandlerStep(r))

-----------------------------------------------------------------------------
XTypeOK ==
  /\ TypeOK
  /\ codes \in [CodeIds -> Code]
  /\ xreq \in [Requests -> Exchange]
  /\ minted \in [CodeIds -> SUBSET TokenIds]

(***************************************************************************)
(* A code is worth one sign-in, however many exchanges race for it: at     *)
(* most one handler is ever past the consume of a code, and no second      *)
(* token is minted from it (the conditional UPDATE of consume).            *)
(***************************************************************************)
CodeRedeemedOnce ==
  \A k \in CodeIds :
    LET redeeming == {r \in Requests : xreq[r].pc = "issuing" /\ xreq[r].code = k}
    IN Cardinality(redeeming) + Cardinality(minted[k]) <= 1

(***************************************************************************)
(* The secrets of OneShot: a code is held from its consume to the token.   *)
(***************************************************************************)
Secret == INSTANCE OneShot WITH
  Secrets <- CodeIds,
  Holders <- Requests,
  good    <- {k \in CodeIds : codes[k].st = "row" /\ ~codes[k].consumed},
  issued  <- {k \in CodeIds : codes[k].st # "free"},
  holding <- {h \in Requests \X CodeIds :
                xreq[h[1]].pc = "issuing" /\ xreq[h[1]].code = h[2]},
  acted   <- [k \in CodeIds |-> Cardinality(minted[k])]

(***************************************************************************)
(* The codes keep what OneShot promises: however exchanges, purges, prunes *)
(* and failures interleave, a code that was consumed or deleted is never   *)
(* good again, and only the handler that consumed it mints by it.          *)
(***************************************************************************)
CodeOneShot == Secret!Spec

(***************************************************************************)
(* A stolen code is no use without what was agreed when it was issued, and *)
(* failing with it costs the rightful client nothing: a code becomes       *)
(* consumed only by a handler that presented its client's secret, the      *)
(* redirect URI and the PKCE verifier.                                     *)
(***************************************************************************)
OnlyFullProofConsumes ==
  [][\A k \in CodeIds : ~codes[k].consumed /\ codes'[k].consumed =>
       \E r \in Requests :
         /\ xreq[r].code = k /\ xreq'[r].pc = "issuing"
         /\ xreq[r].proof.id = codes[k].service
         /\ xreq[r].proof.redirect /\ xreq[r].proof.verifier
         /\ codes[k].service \in Public \/ xreq[r].proof.secret]_xvars

CodeReplaySeen(r) ==
  \/ xreq[r].pc = "family"
  \/ xreq[r].pc = "service" /\ xreq[r].existing.consumed
       /\ xreq[r].proof.id = xreq[r].existing.service

(***************************************************************************)
(* A replayed code ends the sessions of its user: when an exchange read a  *)
(* consumed row, even one that presents no secret (the comment "must fire  *)
(* BEFORE client-auth"), or lost the race for the code, every refresh      *)
(* token that the user holds at that moment is eventually dead.            *)
(***************************************************************************)
CodeReplayEndsFamily ==
  \A r \in Requests, t \in TokenIds :
    (/\ CodeReplaySeen(r)
     /\ Live(tokens, t) /\ tokens[t].user = xreq[r].existing.user) ~> Dead(t)
=============================================================================
