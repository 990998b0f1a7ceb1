--------------------------- MODULE MCLoginThrottle ---------------------------
(* A small instance of LoginThrottle: the sign-ins are interchangeable.    *)
EXTENDS LoginThrottle, TLC

SignIns == Permutations(Requests)
=============================================================================
