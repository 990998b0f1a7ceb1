--------------------------- MODULE MCAccountLinks ---------------------------
(* A small instance of AccountLinks: accounts, addresses, links and        *)
(* handlers are interchangeable.                                           *)
EXTENDS AccountLinks, TLC

Interchangeable ==
  Permutations(Users) \cup Permutations(Addresses)
    \cup Permutations(LinkIds) \cup Permutations(Requests)
=============================================================================
