---------------------------- MODULE MCCredentials ----------------------------
(* A small instance of Credentials: credentials and handlers are           *)
(* interchangeable.                                                        *)
EXTENDS Credentials, TLC

Interchangeable == Permutations(Ids) \cup Permutations(Requests)
=============================================================================
