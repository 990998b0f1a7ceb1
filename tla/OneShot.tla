------------------------------- MODULE OneShot -------------------------------
(***************************************************************************)
(* What a secret that is sent to somebody promises, be it a mailed link or *)
(* an authorization code ("Consume happens BEFORE the effect so a replay   *)
(* loses the race rather than repeating a destructive action"): it is      *)
(* issued once and good until somebody takes it, or it is spoiled; then it *)
(* is never good again, and only who took it acts by it, and once.         *)
(***************************************************************************)
EXTENDS Naturals

CONSTANTS Secrets, Holders

VARIABLES
  good,     \* the secrets that may be taken
  issued,   \* every secret there ever was
  holding,  \* who has taken which secret and is about to act by it
  acted     \* how often each secret had its effect

vars == <<good, issued, holding, acted>>

Init ==
  /\ good = {}
  /\ issued = {}
  /\ holding = {}
  /\ acted = [s \in Secrets |-> 0]

Issue(s) ==
  /\ s \notin issued
  /\ issued' = issued \cup {s}
  /\ good' = good \cup {s}
  /\ UNCHANGED <<holding, acted>>

Take(h, s) ==
  /\ s \in good
  /\ good' = good \ {s}
  /\ holding' = holding \cup {<<h, s>>}
  /\ UNCHANGED <<issued, acted>>

Act(h, s) ==
  /\ <<h, s>> \in holding
  /\ holding' = holding \ {<<h, s>>}
  /\ acted' = [acted EXCEPT ![s] = @ + 1]
  /\ UNCHANGED <<good, issued>>

GiveUp(h, s) ==
  /\ holding' = holding \ {<<h, s>>}
  /\ UNCHANGED <<good, issued, acted>>

Spoil(S) ==
  /\ good' = good \ S
  /\ UNCHANGED <<issued, holding, acted>>

Next ==
  \/ \E s \in Secrets : Issue(s)
  \/ \E h \in Holders, s \in Secrets : Take(h, s) \/ Act(h, s) \/ GiveUp(h, s)
  \/ \E S \in SUBSET Secrets : Spoil(S)

Spec == Init /\ [][Next]_vars
=============================================================================
