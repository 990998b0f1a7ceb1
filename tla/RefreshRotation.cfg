\* Two handlers on chains of up to three tokens of a confidential client, while
\* tokens expire and are pruned, while the user is deleted, purged, verified, put
\* out of the organisation or changes the password.
SPECIFICATION Spec
CONSTANTS
  Users = {u1}
  Services = {s1}
  Public = {}
  TokenIds = {t1, t2, t3}
  Requests = {r1, r2}
  org = org
  Orgs <- MCOrgs
  OrgOf <- MCOrgOf
  Null = Null
  Resolution = 3
  Grace = 3
  TTL = 3
  Retention = 0
  RequireEmailVerification = TRUE
  EmailStates = {"unverified", "verified"}
  Clients <- MCClients
  Events = {"prune", "delete", "email", "member", "password", "purge"}
  MaxTime = 5
SYMMETRY Handlers
CONSTRAINT SmallEnough
INVARIANTS
  TypeOK
  OneLiveTokenPerChain
  SuccessorPresent
  MinterPassedEveryGate
PROPERTIES
  OnlyOwnClientActs
  RaceWithinGraceIsForgiven
  RotationChainSpec
