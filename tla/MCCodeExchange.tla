---------------------------- MODULE MCCodeExchange ----------------------------
(* A small instance of CodeExchange: one organisation.                     *)
EXTENDS CodeExchange, TLC

CONSTANT org

MCOrgs  == {org}
MCOrgOf == [s \in Services |-> org]

(* The token's own client, with its secret.                                *)
MCClients == {[id |-> s, secret |-> TRUE] : s \in Services}

Handlers == Permutations(Requests)
=============================================================================
