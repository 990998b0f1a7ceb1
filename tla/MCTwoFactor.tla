----------------------------- MODULE MCTwoFactor -----------------------------
(* A small instance of TwoFactor: secrets, recovery codes and handlers are *)
(* interchangeable.                                                        *)
EXTENDS TwoFactor, TLC

Interchangeable ==
  Permutations(Secrets) \cup Permutations(Recovery) \cup Permutations(Requests)
=============================================================================
