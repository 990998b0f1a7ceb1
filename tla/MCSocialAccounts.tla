--------------------------- MODULE MCSocialAccounts ---------------------------
(* A small instance of SocialAccounts: two Google accounts, each with an   *)
(* address of its own.                                                     *)
EXTENDS SocialAccounts, TLC

CONSTANTS g1, g2, a1, a2

MCGoogles   == {g1, g2}
MCAddresses == {a1, a2}
MCEmailOf   == g1 :> a1 @@ g2 :> a2

(* Users and handlers are interchangeable, and so are the two Google       *)
(* accounts together with their addresses.                                 *)
Swap == g1 :> g2 @@ g2 :> g1 @@ a1 :> a2 @@ a2 :> a1

Interchangeable == Permutations(Users) \cup Permutations(Requests) \cup {Swap}
=============================================================================
