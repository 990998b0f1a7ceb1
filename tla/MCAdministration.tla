-------------------------- MODULE MCAdministration --------------------------
(* A small instance of Administration: a tenant whose role and permission  *)
(* carry the platform's names, held by a user and by a client.             *)
EXTENDS Administration, TLC

CONSTANTS adm, usr, gst

MCUsers == {adm, usr, gst}
MCTenants ==
  [orgs     |-> {},
   services |-> {[aud |-> "tenant", org |-> "platform", secret |-> TRUE,
                 guests |-> FALSE]},
   roles    |-> {<<"tenant", "admin">>},
   perms    |-> {<<"tenant", "rbac:write">>},
   members  |-> {<<usr, "platform">>},
   assigned |-> {<<<<"user", usr>>, <<"tenant", "admin">>>>},
   granted  |-> {<<<<"tenant", "admin">>, <<"tenant", "rbac:write">>>>}]

Interchangeable == Permutations(Requests) \cup Permutations(SigningKeys)
=============================================================================
