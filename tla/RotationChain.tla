---------------------------- MODULE RotationChain ----------------------------
(***************************************************************************)
(* What refresh-token rotation promises (the comments of refreshGrant and  *)
(* docs/api.md, "Refresh tokens rotate"): a sign-in starts a chain of      *)
(* tokens of which at most one is usable; using it replaces it by a new    *)
(* one; a replaced token is never usable again, and neither is any token   *)
(* of a chain that was ended.                                              *)
(***************************************************************************)
CONSTANT TokenIds

VARIABLES
  current,  \* the usable token of the chain that started with a token, if any
  used      \* every token ever handed out

vars == <<current, used>>

Init ==
  /\ current = [c \in TokenIds |-> {}]
  /\ used = {}

Begin(c) ==
  /\ c \notin used
  /\ current' = [current EXCEPT ![c] = {c}]
  /\ used' = used \cup {c}

Advance(c, t) ==
  /\ current[c] # {}
  /\ t \notin used
  /\ current' = [current EXCEPT ![c] = {t}]
  /\ used' = used \cup {t}

End(C) ==
  /\ current' = [c \in TokenIds |-> IF c \in C THEN {} ELSE current[c]]
  /\ UNCHANGED used

Next ==
  \/ \E c \in TokenIds : Begin(c)
  \/ \E c, t \in TokenIds : Advance(c, t)
  \/ \E C \in SUBSET TokenIds : End(C)

Spec == Init /\ [][Next]_vars
=============================================================================
