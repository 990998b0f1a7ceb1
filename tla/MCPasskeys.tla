------------------------------ MODULE MCPasskeys ------------------------------
(* A small instance of Passkeys: users, credentials, rows and handlers are *)
(* interchangeable.                                                        *)
EXTENDS Passkeys, TLC

Interchangeable ==
  Permutations(Users) \cup Permutations(Credentials)
    \cup Permutations(PasskeyIds) \cup Permutations(ChallengeIds)
    \cup Permutations(Requests)
===============================================================================
