--------------------------- MODULE MCRefreshTokens ---------------------------
(* A small instance of RefreshTokens: every service belongs to one         *)
(* organisation.                                                           *)
EXTENDS RefreshTokens, TLC

CONSTANT org

MCOrgs  == {org}
MCOrgOf == [s \in Services |-> org]

(* The token's own client, with its secret and without it.                *)
MCClients == {[id |-> s, secret |-> b] : s \in Services, b \in BOOLEAN}

Handlers == Permutations(Requests)

(***************************************************************************)
(* The bound of RefreshRotation, a state constraint: chains of three       *)
(* tokens until tick 2 and of two until tick 5, and fewer still while a    *)
(* gate of the user is closed.                                             *)
(***************************************************************************)
GatesOpen ==
  /\ \A u \in Users : users[u].live /\ users[u].email = "verified"
  /\ members = Users \X Orgs

SmallEnough ==
  now + 3 * Cardinality({t \in TokenIds : tokens[t].st # "free"})
    <= IF GatesOpen THEN 11 ELSE 7
=============================================================================
